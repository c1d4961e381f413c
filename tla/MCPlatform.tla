----------------------------- MODULE MCPlatform -----------------------------
(* Components that share nothing in the database: one takes the steps of a  *)
(* behaviour, the others rest in an initial state.                          *)
EXTENDS Deployment, Community, Coursework, Media, Classrooms, PaymentEvidence,
        PaymentSweeps, TLC

VARIABLE focus

paymentsVars == <<evidenceVars, sweepVars>>
campusVars == <<mediaVars, classroomVars>>
platformVars == <<focus, deployVars, communityVars, courseworkVars, campusVars, paymentsVars>>

MCReceipts == <<"r1", "r2">>
MCRevenue == <<"v1", "v2">>

PlatformInit ==
    /\ focus \in {"deployment", "community", "library", "quiz", "assignment",
               "progress", "images", "media", "classes", "evidence",
               "sweeps"}
    /\ DeployInit /\ CommunityInit /\ CourseworkInit
    /\ MediaInit /\ ClassroomsInit /\ EvidenceInit /\ SweepInit
    /\ focus # "sweeps" => \A x \in Attempts : state[x] = "pending"
    /\ focus # "deployment" => Pending = {}
    /\ focus # "quiz" => quiz.passing = 50 /\ quiz.limit = 1
    /\ focus # "assignment" => assignment.policy = "latest" /\ assignment.maximum = 2

\* Posts with their comments, and the library's resources, apart.
CommunityStep ==
    /\ CommunityNext /\ UNCHANGED categories
    /\ \A w \in Writers : work'[w].op # "upload"

LibraryStep == CommunityNext /\ \A p \in Posts : ~item'[p].there

SchoolNext ==
    \/ focus = "deployment" /\ DeployNext /\ UNCHANGED <<communityVars, courseworkVars>>
    \/ focus = "community" /\ CommunityStep /\ UNCHANGED <<deployVars, courseworkVars>>
    \/ focus = "library" /\ LibraryStep /\ UNCHANGED <<deployVars, courseworkVars>>
    \/ focus = "quiz" /\ QuizNext /\ UNCHANGED <<assignmentVars, progressVars>>
                      /\ UNCHANGED <<deployVars, communityVars>>
    \/ focus = "assignment" /\ AssignmentNext /\ UNCHANGED <<quizVars, progressVars>>
                            /\ UNCHANGED <<deployVars, communityVars>>
    \/ focus = "progress" /\ ProgressNext /\ UNCHANGED <<quizVars, publishing, assignmentVars>>
                          /\ UNCHANGED <<deployVars, communityVars>>

\* A save gives one kind of media; once two requests named a key nothing is said of it.
MediaStep ==
    /\ LessonMediaNext /\ contested = {}
    /\ \A r \in Authors : author'[r].op = "save" =>
           \E kind \in MediaKinds : author'[r].given[kind] = NoKey

CampusNext ==
    \/ focus = "images" /\ ImageNext /\ UNCHANGED <<lessonVars, classroomVars>>
    \/ focus = "media" /\ MediaStep /\ UNCHANGED <<imageVars, classroomVars>>
    \/ focus = "classes" /\ ClassroomsNext /\ UNCHANGED mediaVars

PaymentsNext ==
    \/ focus = "evidence" /\ EvidenceNext /\ UNCHANGED sweepVars
    \/ focus = "sweeps" /\ SweepNext /\ UNCHANGED evidenceVars

PlatformNext ==
    /\ UNCHANGED focus
    /\ \/ SchoolNext /\ UNCHANGED <<campusVars, paymentsVars>>
       \/ CampusNext /\ UNCHANGED <<deployVars, communityVars, courseworkVars, paymentsVars>>
       \/ PaymentsNext /\ UNCHANGED <<deployVars, communityVars, courseworkVars, campusVars>>

PlatformSpec == PlatformInit /\ [][PlatformNext]_platformVars

Alike == UNION {Permutations(s) : s \in {Handins, Markers}}
=============================================================================
