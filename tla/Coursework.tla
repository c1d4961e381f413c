----------------------------- MODULE Coursework -----------------------------
(***************************************************************************)
(* What instructors author and learners hand in: the quiz and its          *)
(* questions (src/modules/quizzes), the assignment with its numbered       *)
(* submissions and their grades (src/modules/assignments), and the         *)
(* progress a learner reports on a lesson (src/modules/courses/            *)
(* learning-path.service.ts).  The three parts share no state; they are    *)
(* three disjuncts of CourseworkNext.  Which step of a course is open, and *)
(* what completing it does to the enrollment, is CourseCompletion's: here  *)
(* the learner has been let in.  Due dates are left out.                   *)
(***************************************************************************)
EXTENDS Integers, FiniteSetsExt

CONSTANTS
    Learners,       \* the students of the course
    Handins,        \* the calls a learner may have running
    Markers,        \* the calls of people who grade
    QuestionIds,    \* the questions a quiz may be given
    Orders,         \* the order indexes an author uses
    Keys,           \* what an answer can be
    Points,         \* what a question can be worth
    PassingScores,  \* percentages a quiz can be passed at
    AttemptLimits,         \* attempt limits, 0 for none
    Scores,         \* what a grader can give
    Duration,       \* seconds of the video lesson
    Seconds,        \* the positions a player reports
    MaxAttempts,    \* bound: attempts stored
    MaxVersions,    \* bound: submissions of one learner
    MaxReports      \* bound: progress reports of one learner

ASSUME CourseworkAssumption ==
    /\ Orders \subseteq Nat \ {0} /\ Points \subseteq Nat
    /\ PassingScores \subseteq 0..100 /\ AttemptLimits \subseteq Nat
    /\ Scores \subseteq Nat /\ Seconds \subseteq Nat
    /\ Duration \in Nat \ {0} /\ MaxVersions \in Nat
    /\ IsFiniteSet(QuestionIds)

VARIABLES
    quiz,         \* the quiz row
    publishing,   \* publications between their check and their write
    questions,    \* its question rows
    attempts,     \* quiz_attempts
    sittings,     \* the submitAttempt calls
    assignment,   \* the assignment row
    submissions,  \* its submissions
    handing,      \* the submitAssignment calls
    grading,      \* the gradeSubmission calls
    graded,       \* ghost: the audit log's last word on each submission
    progress,     \* learning_progress rows
    reports,      \* ghost: reports stored for each learner
    watching      \* the updateLessonProgress calls

quizVars == <<quiz, questions, attempts, sittings>>
assignmentVars == <<assignment, submissions, handing, grading, graded>>
progressVars == <<progress, reports, watching>>
courseworkVars == <<quizVars, publishing, assignmentVars, progressVars>>

NoQuestion == [points |-> 0, order |-> 0, key |-> 0]
NoScore == -1
Resting == [step |-> "idle"]
Kinds == {"video", "document"}   \* one lesson of each
NoProgress == [last |-> 0, furthest |-> 0, watched |-> 0, pages |-> 0, percent |-> 0]

Authored == [status : {"draft", "published", "archived"}, deleted : BOOLEAN]
Draft == [status |-> "draft", deleted |-> FALSE]

CourseworkInit ==
    /\ quiz \in {[row |-> Draft, passing |-> p, limit |-> m] :
                    p \in PassingScores, m \in AttemptLimits}
    /\ publishing = [quiz |-> FALSE, assignment |-> FALSE]
    /\ questions = [q \in QuestionIds |-> NoQuestion]
    /\ attempts = {}
    /\ sittings = [c \in Handins |-> Resting]
    /\ assignment \in {[row |-> Draft, policy |-> p, maximum |-> m] :
                          p \in {"latest", "highest"}, m \in Scores}
    /\ submissions = {}
    /\ handing = [c \in Handins |-> Resting]
    /\ grading = [g \in Markers |-> Resting]
    /\ graded = {}
    /\ progress = [x \in Learners \X Kinds |-> NoProgress]
    /\ reports = [x \in Learners \X Kinds |-> 0]
    /\ watching = [c \in Handins |-> Resting]

\* What findManageable...OrThrow still finds, and what a learner may open.
Manageable(row) == ~row.deleted
VisibleIfPublished(row) == row.status = "published"

Visible(row) == row.status = "published" /\ ~row.deleted

(***************************************************************************)
(* The quiz.                                                               *)
(***************************************************************************)
\* What a learner is shown, in an order drawn from the number of attempts.
Asked(paper) == {q \in QuestionIds : paper[q].order > 0}
OrderFree(q, o) == \A r \in QuestionIds \ {q} : questions[r].order # o

\* createQuestion and updateQuestion, whatever learners are doing.
WriteQuestion(q, points, o, key) ==
    /\ Manageable(quiz.row) /\ OrderFree(q, o)
    /\ questions' = [questions EXCEPT ![q] =
                        [points |-> points, order |-> o, key |-> key]]
    /\ UNCHANGED <<quiz, publishing, attempts, sittings>>

DeleteQuestion(q) ==
    /\ Manageable(quiz.row) /\ questions[q] # NoQuestion
    /\ questions' = [questions EXCEPT ![q] = NoQuestion]
    /\ UNCHANGED <<quiz, publishing, attempts, sittings>>

UpdateQuiz(passing, limit) ==
    /\ Manageable(quiz.row)
    /\ quiz' = [quiz EXCEPT !.passing = passing, !.limit = limit]
    /\ UNCHANGED <<publishing, questions, attempts, sittings>>

\* publishQuiz finds the quiz, and then updates the row by its id alone.
FindQuiz ==
    /\ Manageable(quiz.row) /\ ~publishing.quiz
    /\ publishing' = [publishing EXCEPT !.quiz = TRUE]
    /\ UNCHANGED quizVars

PublishQuiz ==
    /\ publishing.quiz
    /\ publishing' = [publishing EXCEPT !.quiz = FALSE]
    /\ quiz' = [quiz EXCEPT !.row.status = "published"]
    /\ UNCHANGED <<questions, attempts, sittings>>

DeleteQuiz ==
    /\ Manageable(quiz.row)
    /\ quiz' = [quiz EXCEPT !.row = [status |-> "archived", deleted |-> TRUE]]
    /\ UNCHANGED <<publishing, questions, attempts, sittings>>

\* The quiz row first; its questions by a second query.
OpenQuiz(c, l) ==
    /\ sittings[c] = Resting /\ Visible(quiz.row)
    /\ sittings' = [sittings EXCEPT ![c] =
          [step |-> "opened", learner |-> l,
           passing |-> quiz.passing, limit |-> quiz.limit]]
    /\ UNCHANGED <<quiz, publishing, questions, attempts>>

MaximumOf(paper) ==
    SumFunctionOnSet([q \in QuestionIds |-> paper[q].points], Asked(paper))
ScoreOf(paper, answers) ==
    SumFunctionOnSet([q \in QuestionIds |-> IF answers[q] = paper[q].key
                                            THEN paper[q].points ELSE 0], Asked(paper))
\* A quiz worth nothing is passed only at a passing score of zero.
PassedAt(score, maximum, passing) ==
    IF maximum = 0 THEN passing = 0 ELSE score * 100 >= passing * maximum

\* validateAnswerSet and the marking: every question of the paper answered.
MarkSitting(c, answers) ==
    /\ sittings[c].step = "opened"
    /\ sittings' = [sittings EXCEPT ![c] =
          [step |-> "marked", learner |-> sittings[c].learner,
           limit |-> sittings[c].limit, maximum |-> MaximumOf(questions),
           score |-> ScoreOf(questions, answers),
           passed |-> PassedAt(ScoreOf(questions, answers), MaximumOf(questions),
                               sittings[c].passing)]]
    /\ UNCHANGED <<quiz, publishing, questions, attempts>>

AttemptOutOfNow(c) ==
    [n |-> Cardinality(attempts) + 1, learner |-> sittings[c].learner,
     score |-> sittings[c].score, maximum |-> MaximumOf(questions),
     passed |-> sittings[c].passed]

AttemptOf(c) ==
    [n |-> Cardinality(attempts) + 1, learner |-> sittings[c].learner,
     score |-> sittings[c].score, maximum |-> sittings[c].maximum,
     passed |-> sittings[c].passed]

UnderLimit(c) ==
    \/ sittings[c].limit = 0
    \/ Cardinality({a \in attempts : a.learner = sittings[c].learner})
          < sittings[c].limit

\* The transaction: the limit is checked under the quiz's row lock.
StoreAttempt(c) ==
    /\ sittings[c].step = "marked" /\ Cardinality(attempts) < MaxAttempts
    /\ attempts' = IF UnderLimit(c) THEN attempts \cup {AttemptOf(c)} ELSE attempts
    /\ sittings' = [sittings EXCEPT ![c] = Resting]
    /\ UNCHANGED <<quiz, publishing, questions>>

QuizNext ==
    \/ \E q \in QuestionIds, p \in Points, o \in Orders, k \in Keys :
          WriteQuestion(q, p, o, k)
    \/ \E q \in QuestionIds : DeleteQuestion(q)
    \/ \E p \in PassingScores, m \in AttemptLimits : UpdateQuiz(p, m)
    \/ FindQuiz \/ PublishQuiz \/ DeleteQuiz
    \/ \E c \in Handins, l \in Learners : OpenQuiz(c, l)
    \/ \E c \in Handins, answers \in [QuestionIds -> Keys] : MarkSitting(c, answers)
    \/ \E c \in Handins : StoreAttempt(c)

(***************************************************************************)
(* The assignment.                                                         *)
(***************************************************************************)
UpdateAssignment(policy, maximum) ==
    /\ Manageable(assignment.row)
    /\ assignment' = [assignment EXCEPT !.policy = policy, !.maximum = maximum]
    /\ UNCHANGED <<publishing, submissions, handing, grading, graded>>

FindAssignment ==
    /\ Manageable(assignment.row) /\ ~publishing.assignment
    /\ publishing' = [publishing EXCEPT !.assignment = TRUE]
    /\ UNCHANGED assignmentVars

PublishAssignment ==
    /\ publishing.assignment
    /\ publishing' = [publishing EXCEPT !.assignment = FALSE]
    /\ assignment' = [assignment EXCEPT !.row.status = "published"]
    /\ UNCHANGED <<submissions, handing, grading, graded>>

DeleteAssignment ==
    /\ Manageable(assignment.row)
    /\ assignment' = [assignment EXCEPT !.row = [status |-> "archived", deleted |-> TRUE]]
    /\ UNCHANGED <<publishing, submissions, handing, grading, graded>>

\* submitAssignment: the row is read and the file stored before anything is locked.
OpenAssignment(c, l) ==
    /\ handing[c] = Resting /\ Visible(assignment.row)
    /\ handing' = [handing EXCEPT ![c] = [step |-> "opened", learner |-> l]]
    /\ UNCHANGED <<assignment, publishing, submissions, grading, graded>>

VersionsOf(l) == {s.version : s \in {t \in submissions : t.learner = l}}
NoVersionYet(l) == Max({-1} \cup VersionsOf(l))

LatestVersion(l) == Max({0} \cup VersionsOf(l))

\* The assignment row is locked from here to the end of the transaction.
AssignmentUnlocked(c) == TRUE

AssignmentFree(c) == \A d \in Handins : handing[d].step # "numbered"

NumberVersion(c) ==
    /\ handing[c].step = "opened" /\ AssignmentFree(c)
    /\ LatestVersion(handing[c].learner) < MaxVersions
    /\ handing' = [handing EXCEPT ![c] =
          [step |-> "numbered", learner |-> handing[c].learner,
           version |-> LatestVersion(handing[c].learner) + 1]]
    /\ UNCHANGED <<assignment, publishing, submissions, grading, graded>>

VersionTaken(c) == handing[c].version \in VersionsOf(handing[c].learner)

\* The insert: (assignmentId, userId, version) is unique.
StoreSubmission(c) ==
    /\ handing[c].step = "numbered"
    /\ submissions' = IF VersionTaken(c) THEN submissions
                      ELSE submissions \cup
                             {[learner |-> handing[c].learner,
                               version |-> handing[c].version, score |-> NoScore]}
    /\ handing' = [handing EXCEPT ![c] = Resting]
    /\ UNCHANGED <<assignment, publishing, grading, graded>>

\* A score given outright or summed over the rubric's criteria.
Gradable(score) == score \in Scores /\ score <= assignment.maximum

\* gradeSubmission: the submission and the maximum are read outside the transaction.
OpenSubmission(g, s, score) ==
    /\ grading[g] = Resting /\ Manageable(assignment.row)
    /\ s \in submissions /\ Gradable(score)
    /\ grading' = [grading EXCEPT ![g] =
          [step |-> "judged", learner |-> s.learner, version |-> s.version,
           before |-> s.score, score |-> score]]
    /\ UNCHANGED <<assignment, publishing, submissions, handing, graded>>

SameWork(s, t) == s.learner = t.learner /\ s.version = t.version
AuditedBefore(g) ==
    [learner |-> grading[g].learner, version |-> grading[g].version,
     score |-> grading[g].before]

AuditedGrade(g) ==
    [learner |-> grading[g].learner, version |-> grading[g].version,
     score |-> grading[g].score]

\* One transaction writes the grade and its audit record.
StoreGrade(g) ==
    /\ grading[g].step = "judged"
    /\ submissions' = {IF SameWork(s, grading[g]) THEN [s EXCEPT !.score = grading[g].score]
                       ELSE s : s \in submissions}
    /\ graded' = {r \in graded : ~SameWork(r, grading[g])} \cup {AuditedGrade(g)}
    /\ grading' = [grading EXCEPT ![g] = Resting]
    /\ UNCHANGED <<assignment, publishing, handing>>

AssignmentNext ==
    \/ \E p \in {"latest", "highest"}, m \in Scores : UpdateAssignment(p, m)
    \/ FindAssignment \/ PublishAssignment \/ DeleteAssignment
    \/ \E c \in Handins, l \in Learners : OpenAssignment(c, l)
    \/ \E c \in Handins : NumberVersion(c) \/ StoreSubmission(c)
    \/ \E g \in Markers, s \in submissions, n \in Scores : OpenSubmission(g, s, n)
    \/ \E g \in Markers : StoreGrade(g)

\* getMySubmission: the best graded version under "highest", else the newest.
HandedInBy(l) == {s \in submissions : s.learner = l}
BestGraded(l) == {s \in HandedInBy(l) : s.score # NoScore /\
                     \A t \in HandedInBy(l) : t.score <= s.score}
FinalIsNewest(l) ==
    {s.score : s \in {t \in HandedInBy(l) : t.version = LatestVersion(l)}}

FinalScore(l) ==
    LET newest == {s \in HandedInBy(l) : s.version = LatestVersion(l)}
    IN  IF assignment.policy = "highest" /\ BestGraded(l) # {}
        THEN {s.score : s \in BestGraded(l)}
        ELSE {s.score : s \in newest}

(***************************************************************************)
(* Progress on a lesson: a video, or pages of a document.                  *)
(***************************************************************************)
\* The row is read without a lock, and written back whole afterwards.
ReadProgress(c, x) ==
    /\ watching[c] = Resting
    /\ watching' = [watching EXCEPT ![c] =
                       [step |-> "read", on |-> x, row |-> progress[x]]]
    /\ UNCHANGED <<progress, reports>>

AtMost(a, b) == IF a < b THEN a ELSE b
AtLeast(a, b) == IF a < b THEN b ELSE a

CanSeek(row, position) == position <= Duration

\* A player may be five seconds past what has been played so far.
CanAdvance(row, position) == position <= row.furthest + 5

\* calculateProgressValues for a video (the duration is the lesson's own).
Watched(row, position) ==
    LET last == IF CanAdvance(row, position) THEN position ELSE row.last
        seen == IF CanAdvance(row, position)
                THEN AtMost(Duration, AtLeast(row.watched, position))
                ELSE row.watched
    IN  [row EXCEPT !.last = last, !.watched = seen,
                    !.furthest = AtLeast(row.furthest, last),
                    !.percent = AtMost(100, (seen * 200 + Duration) \div (2 * Duration))]

\* calculateProgressValues for a document.
PagesRead(row, pages) ==
    LET most == AtMost(100, AtLeast(row.pages, pages))
    IN  [row EXCEPT !.pages = most, !.percent = most]

StoreProgress(c, row) ==
    /\ reports[watching[c].on] < MaxReports
    /\ progress' = [progress EXCEPT ![watching[c].on] = row]
    /\ reports' = [reports EXCEPT ![watching[c].on] = @ + 1]
    /\ watching' = [watching EXCEPT ![c] = Resting]

Reporting(c, kind) == watching[c].step = "read" /\ watching[c].on[2] = kind

ReportVideo(c, position) ==
    /\ Reporting(c, "video")
    /\ StoreProgress(c, Watched(watching[c].row, AtMost(Duration, position)))

ReportDocument(c, pages) ==
    /\ Reporting(c, "document")
    /\ StoreProgress(c, PagesRead(watching[c].row, pages))

ProgressNext ==
    \/ \E c \in Handins, x \in Learners \X Kinds : ReadProgress(c, x)
    \/ \E c \in Handins, s \in Seconds : ReportVideo(c, s)
    \/ \E c \in Handins, p \in {50, 100} : ReportDocument(c, p)

CourseworkNext ==
    \/ QuizNext /\ UNCHANGED <<assignmentVars, progressVars>>
    \/ AssignmentNext /\ UNCHANGED <<quizVars, progressVars>>
    \/ ProgressNext /\ UNCHANGED <<quizVars, publishing, assignmentVars>>

CourseworkSpec == CourseworkInit /\ [][CourseworkNext]_courseworkVars

(***************************************************************************)
(* Properties.                                                             *)
(***************************************************************************)
\* Every variable has its type: versions count from one, a grade never
\* exceeds what graders can give, a percentage is one.
CourseworkTypeOK ==
    /\ quiz.row \in Authored /\ assignment.row \in Authored
    /\ quiz.passing \in PassingScores /\ quiz.limit \in AttemptLimits
    /\ assignment.policy \in {"latest", "highest"} /\ assignment.maximum \in Scores
    /\ publishing \in [quiz : BOOLEAN, assignment : BOOLEAN]
    /\ \A q \in QuestionIds : questions[q] = NoQuestion
          \/ questions[q] \in [points : Points, order : Orders, key : Keys]
    /\ \A s \in submissions : /\ s.learner \in Learners
                              /\ s.version \in 1..MaxVersions
                              /\ s.score \in Scores \cup {NoScore}
    /\ \A x \in DOMAIN progress : /\ progress[x].percent \in 0..100
                                  /\ progress[x].watched \in 0..Duration
    /\ \A c \in Handins : /\ sittings[c].step \in {"idle", "opened", "marked"}
                          /\ handing[c].step \in {"idle", "opened", "numbered"}
                          /\ watching[c].step \in {"idle", "read"}
    /\ \A g \in Markers : grading[g].step \in {"idle", "judged"}

\* An attempt never scores more than the paper was worth, and is passed on a
\* score some passing mark allows, although the author may change questions
\* and passing score while submitAttempt is between its reads and its insert.
ScoreWithinPaper ==
    \A a \in attempts :
        /\ a.score <= a.maximum
        /\ a.passed => \E p \in PassingScores : PassedAt(a.score, a.maximum, p)

\* A deleted quiz or assignment is handed to no learner again: not even when
\* a publication that found it before the deletion writes its status after.
DeletedStaysHidden ==
    [][\A c \in Handins :
          /\ quiz.row.deleted /\ sittings[c] = Resting => sittings'[c] = Resting
          /\ assignment.row.deleted /\ handing[c] = Resting => handing'[c] = Resting
      ]_courseworkVars

\* Two submissions sent at once are both kept, as two versions: the number a
\* call took under the row lock is still free when it inserts
\* (assignments.service.spec.ts:255, "a new immutable submission version").
EveryHandInKept ==
    \A c \in Handins : handing[c].step = "numbered" => ~VersionTaken(c)

\* The grade a submission carries is the one the audit log recorded last,
\* whatever order two graders' reads and writes came in.
GradeIsAudited ==
    \A s \in submissions : s.score # NoScore =>
        \E r \in graded : SameWork(r, s) /\ r.score = s.score

\* Under the "highest" policy handing in again never costs a learner the
\* grade already shown.
BestGradeKept ==
    [][/\ assignment.policy = "highest" /\ assignment' = assignment
       /\ submissions \subseteq submissions'
       => \A l \in Learners : \A n \in FinalScore(l) \ {NoScore} :
             n \in FinalScore(l)']_courseworkVars

\* Seeking does not watch: however reports of one learner overlap, the
\* furthest position is one that at most five seconds per report reach
\* (learning-path.service.spec.ts:87, "only seeks to the end").
FurthestIsPlayed ==
    \A l \in Learners :
        progress[<<l, "video">>].furthest <= 5 * reports[<<l, "video">>]

\* Papers, attempts, hand-ins, grades and progress agree.
CourseworkConsistent ==
    /\ CourseworkTypeOK /\ ScoreWithinPaper
    /\ EveryHandInKept /\ GradeIsAudited /\ FurthestIsPlayed

\* What was deleted stays hidden and what was graded is not lost.
NothingTakenBack == DeletedStaysHidden /\ BestGradeKept
=============================================================================
