--------------------------- MODULE CourseCompletion ---------------------------
(***************************************************************************)
(* One learner's way through one course: lesson progress                   *)
(* (learning-path.service.ts), quiz attempts (quizzes.service.ts) and      *)
(* submissions (assignments.service.ts), each of which ends in             *)
(* evaluateAndSync (course-completion.service.ts), which completes the     *)
(* enrollment and issues the certificate, while instructors edit the       *)
(* course.  Transactions are READ COMMITTED: every statement sees what is  *)
(* committed when it runs, and its own transaction's writes.  What a       *)
(* request writes stays in its record until Commit; the rows it locks are  *)
(* told from its step.                                                     *)
(***************************************************************************)
EXTENDS Naturals, FiniteSets

CONSTANTS
    Lessons, Quizzes, Assignments,
    Videos,     \* lessons whose progress is a share of a duration the client reports
    Position,   \* where an item stands on the learning path
    Limits,     \* values of max_attempts
    Requests,   \* requests of the learner that may be in flight together
    MaxTries,   \* bound: attempts recorded for a quiz
    MaxEdits,   \* bound: edits of the course
    None

Items == Lessons \cup Quizzes \cup Assignments

ASSUME CourseAssumption ==
    /\ IsFiniteSet(Items) /\ Videos \subseteq Lessons
    /\ Lessons \cap Quizzes = {} /\ Lessons \cap Assignments = {} /\ Quizzes \cap Assignments = {}
    /\ Position \in [Items -> Nat] /\ \A i, j \in Items : Position[i] = Position[j] => i = j
    /\ Limits \subseteq Nat /\ None \notin Nat
    /\ MaxTries \in Nat /\ MaxEdits \in Nat

\* What a request in flight carries: the item and what it does to it, the limit it
\* read, and how far its evaluation of the course has counted.
Evaluations ==
    [item : Items, effect : {"done", "undone", "kept"}, limit : Limits \cup {None},
     step : {"item", "enrollment", "count", "commit"}, stage : 0..6, total : Nat, found : Nat,
     saw : BOOLEAN]

ASSUME EvaluationAssumption == None \notin Evaluations

VARIABLES
    state,       \* status and deleted_at of lessons, quizzes and assignments
    required,    \* items with is_required
    limit,       \* quizzes.max_attempts
    template,    \* whether certificate_templates has a row
    done,        \* lessons completed, quizzes passed, assignments submitted
    tries,       \* rows of quiz_attempts, by quiz
    enrollment,  \* enrollments.status
    certificate, \* status of the learner's last certificate of the course
    request,     \* requests in flight
    peak,        \* history: the highest limit each quiz ever had
    edits        \* how often the course was edited

courseVars == <<state, required, limit, template, peak, edits>>
learnerVars == <<done, tries, enrollment, certificate>>
vars == <<courseVars, learnerVars, request>>

Init ==
    /\ state \in [Items -> {"hidden", "live"}]
    /\ required \in SUBSET Items
    /\ limit \in [Quizzes -> Limits \cup {None}]
    /\ template \in BOOLEAN
    /\ done = {}
    /\ tries = [q \in Quizzes |-> 0]
    /\ enrollment = "active"
    /\ certificate = "none"
    /\ request = [r \in Requests |-> None]
    /\ peak = limit
    /\ edits = 0

-----------------------------------------------------------------------------
(* What a request of the learner sees, and the rows it holds               *)

\* What is done of the course as the transaction of r sees it.
Seen(r) ==
    LET q == request[r]
    IN CASE q.effect = "done"   -> done \cup {q.item}
         [] q.effect = "undone" -> done \ {q.item}
         [] q.effect = "kept"   -> done

Needed(items) == {i \in items \cap required : state[i] = "live"}

\* The course has something to do and all of it is in the set.
AllDone(set) == Needed(Items) # {} /\ Needed(Items) \subseteq set

\* A step is locked behind the first required step that is not completed.
Locked(i) == i \notin done /\ \E j \in Needed(Items) \ done : Position[j] < Position[i]

\* The row of the quiz or the assignment is held FOR UPDATE: assignments always,
\* quizzes when they have a limit.
ItemHeld(i) == \E r \in Requests :
    /\ request[r] # None /\ request[r].item = i
    /\ request[r].step \in {"enrollment", "count", "commit"}
    /\ i \in Assignments \/ request[r].limit # None

EnrollmentHeld == \E r \in Requests : request[r] # None /\ request[r].step \in {"count", "commit"}

-----------------------------------------------------------------------------
(* The learner's requests.  Access to the course, which each reads first   *)
(* from the learner's grants, is what lets it begin at all.                *)

Begin(r, i, effect, read, step) ==
    /\ request[r] = None
    /\ state[i] = "live"
    /\ request' = [request EXCEPT ![r] =
           [item |-> i, effect |-> effect, limit |-> read, step |-> step,
            stage |-> 0, total |-> 0, found |-> 0, saw |-> FALSE]]
    /\ UNCHANGED <<courseVars, learnerVars>>

\* The percentage written is worked out from a row read without a lock.  Of a
\* document it is the highest so far, of a video a share of the duration reported.
UpdateLessonProgress(r, l, completes) ==
    /\ l \in done \ Videos => completes
    /\ Begin(r, l, IF completes THEN "done" ELSE "undone", None, "enrollment")

\* Published state, grade and max_attempts are read before the transaction.
SubmitAttempt(r, q, passes) ==
    /\ ~Locked(q)
    /\ Begin(r, q, IF passes THEN "done" ELSE "kept", limit[q],
             IF limit[q] = None THEN "enrollment" ELSE "item")

SubmitAssignment(r, a) ==
    /\ ~Locked(a)
    /\ Begin(r, a, "done", None, "item")

CompleteLesson(r, l) ==
    /\ l \in done
    /\ Begin(r, l, "kept", None, "enrollment")

\* Mutant: an attempt is refused only above the limit.
UpToLimit(q, read) == tries[q] <= read

BelowLimit(q, read) == tries[q] < read

\* SELECT ... FOR UPDATE of the quiz, and the count of attempts, or of the assignment.
LockItem(r) ==
    /\ request[r] # None /\ request[r].step = "item"
    /\ ~ItemHeld(request[r].item)
    /\ request[r].item \in Quizzes => BelowLimit(request[r].item, request[r].limit)
    /\ request' = [request EXCEPT ![r].step = "enrollment"]
    /\ UNCHANGED <<courseVars, learnerVars>>

LockEnrollment(r) ==
    /\ request[r] # None /\ request[r].step = "enrollment"
    /\ ~EnrollmentHeld
    /\ request' = [request EXCEPT ![r].step = "count"]
    /\ UNCHANGED <<courseVars, learnerVars>>

\* Mutant: an attempt counts whether it passed or not.
EvenFailed(r) == Seen(r) \cup {q \in Quizzes : tries[q] > 0}

\* Mutant: the course is evaluated outside the request's own transaction.
Committed(r) == done

\* What counts as completed among the required items.
Completed(r) == Seen(r)

\* One of the six counts: required items, then completed ones, kind by kind.
Count(r) ==
    /\ request[r] # None /\ request[r].step = "count"
    /\ LET q == request[r]
           kind == <<Lessons, Quizzes, Assignments>>[q.stage \div 2 + 1]
       IN request' = [request EXCEPT ![r] = [q EXCEPT
              !.stage = q.stage + 1,
              !.step  = IF q.stage = 5 THEN "commit" ELSE "count",
              !.total = IF q.stage % 2 = 0 THEN @ + Cardinality(Needed(kind)) ELSE @,
              !.found = IF q.stage % 2 = 1 THEN @ + Cardinality(Needed(kind) \cap Completed(r)) ELSE @,
              !.saw   = @ \/ AllDone(Seen(r))]]
    /\ UNCHANGED <<courseVars, learnerVars>>

\* Mutant: without a template the completion stands, without a certificate.
IssueIfPossible == IF template THEN "active" ELSE certificate

\* issueForCompletion: an active certificate is kept, a revoked one is replaced.
Issue == IF certificate = "active" \/ template THEN "active" ELSE "refused"

\* Mutant: a refusal of issueForCompletion is not noticed.
AnyIssue == TRUE

Issuable == Issue # "refused"

\* Without a template the transaction throws, and what the learner did is lost with it.
Commit(r) ==
    /\ request[r] # None /\ request[r].step = "commit"
    /\ LET q == request[r]
           complete == enrollment = "completed" \/ (q.total > 0 /\ q.found = q.total)
       IN /\ complete => Issuable
          /\ q.item \in Quizzes => tries[q.item] < MaxTries
          /\ enrollment' = IF complete THEN "completed" ELSE enrollment
          /\ certificate' = IF complete THEN Issue ELSE certificate
          /\ done' = Seen(r)
          /\ tries' = [i \in Quizzes |-> IF i = q.item THEN tries[i] + 1 ELSE tries[i]]
    /\ request' = [request EXCEPT ![r] = None]
    /\ UNCHANGED courseVars

\* A refusal, an error or a crash: the transaction leaves nothing behind.
Rollback(r) ==
    /\ request[r] # None
    /\ request' = [request EXCEPT ![r] = None]
    /\ UNCHANGED <<courseVars, learnerVars>>

-----------------------------------------------------------------------------
(* Certificates on request, and their revocation by an administrator       *)

IssueCertificate ==
    /\ enrollment = "completed" /\ certificate # "active"
    /\ template /\ ~EnrollmentHeld
    /\ certificate' = "active"
    /\ UNCHANGED <<courseVars, done, tries, enrollment, request>>

RevokeCertificate ==
    /\ certificate = "active"
    /\ certificate' = "revoked"
    /\ UNCHANGED <<courseVars, done, tries, enrollment, request>>

-----------------------------------------------------------------------------
(* Edits of the course                                                     *)

Edit(i) ==
    /\ edits < MaxEdits
    /\ state[i] # "gone" /\ ~ItemHeld(i)
    /\ edits' = edits + 1
    /\ UNCHANGED <<learnerVars, request, template>>

\* A quiz or an assignment is published, a lesson created.
Publish(i) ==
    /\ Edit(i) /\ state[i] = "hidden"
    /\ state' = [state EXCEPT ![i] = "live"]
    /\ UNCHANGED <<required, limit, peak>>

Delete(i) ==
    /\ Edit(i)
    /\ state' = [state EXCEPT ![i] = "gone"]
    /\ UNCHANGED <<required, limit, peak>>

SetRequired(i, isRequired) ==
    /\ Edit(i) /\ isRequired # (i \in required)
    /\ required' = IF isRequired THEN required \cup {i} ELSE required \ {i}
    /\ UNCHANGED <<state, limit, peak>>

\* The higher of two limits, None being no limit.
Higher(m, n) == IF None \in {m, n} THEN None ELSE IF m > n THEN m ELSE n

SetLimit(q, n) ==
    /\ Edit(q) /\ n # limit[q]
    /\ limit' = [limit EXCEPT ![q] = n]
    /\ peak' = [peak EXCEPT ![q] = Higher(@, n)]
    /\ UNCHANGED <<state, required>>

-----------------------------------------------------------------------------
LearnerNext == \E r \in Requests :
    \/ \E l \in Lessons : CompleteLesson(r, l)
    \/ \E l \in Lessons, b \in BOOLEAN : UpdateLessonProgress(r, l, b)
    \/ \E q \in Quizzes, b \in BOOLEAN : SubmitAttempt(r, q, b)
    \/ \E a \in Assignments : SubmitAssignment(r, a)
    \/ LockItem(r) \/ LockEnrollment(r) \/ Count(r) \/ Commit(r) \/ Rollback(r)

EditNext ==
    \/ \E i \in Items : Publish(i) \/ Delete(i)
    \/ \E i \in Items, b \in BOOLEAN : SetRequired(i, b)
    \/ \E q \in Quizzes, n \in Limits \cup {None} : SetLimit(q, n)

Next == LearnerNext \/ IssueCertificate \/ RevokeCertificate \/ EditNext

Spec == Init /\ [][Next]_vars

-----------------------------------------------------------------------------
\* The values of the variables.
TypeOK ==
    /\ state \in [Items -> {"hidden", "live", "gone"}]
    /\ required \subseteq Items
    /\ limit \in [Quizzes -> Limits \cup {None}] /\ peak \in [Quizzes -> Limits \cup {None}]
    /\ template \in BOOLEAN
    /\ done \subseteq Items
    /\ tries \in [Quizzes -> Nat]
    /\ enrollment \in {"active", "completed"}
    /\ certificate \in {"none", "active", "revoked"}
    /\ request \in [Requests -> Evaluations \cup {None}]
    /\ edits \in 0..MaxEdits

\* Requests sent at once never record more attempts at a quiz than the highest
\* limit it ever had: the count and the insert happen under the quiz's row lock,
\* although the limit was read before.
AttemptsWithinLimit == \A q \in Quizzes : peak[q] # None => tries[q] <= peak[q]

\* Completion and the first certificate come in one transaction: no learner has
\* completed the course without one, nor has one without completing it.
CertificateFollowsCompletion == certificate = "none" <=> enrollment = "active"

\* When the last items are handed in by requests in flight together, the second to
\* take the enrollment's lock sees the first: none leaves a finished course open.
LastItemCounts ==
    edits = 0 /\ (\A r \in Requests : request[r] = None) /\ AllDone(done) => enrollment = "completed"

Completes == enrollment = "active" /\ enrollment' = "completed"

\* The claim of the tests: an enrollment is completed "only when every required
\* learning item is complete", at some moment of the evaluation at least.
CompletesOnlyWhenDone ==
    [][Completes => \E r \in Requests : request[r] # None /\ request'[r] = None /\ request[r].saw]_vars

\* Attempts stay within the limits and the certificate with the enrollment.
LearningConsistent == TypeOK /\ AttemptsWithinLimit /\ CertificateFollowsCompletion
=============================================================================
