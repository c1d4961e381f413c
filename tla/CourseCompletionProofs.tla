---------------------- MODULE CourseCompletionProofs ----------------------
(* The limit of attempts and the certificate of a completion hold for any   *)
(* course, any limits and any number of requests in flight.  The limit is   *)
(* an argument about the quiz's row lock: whoever holds it has counted, and *)
(* nobody else inserts until it commits.                                    *)
(* Classrooms: what a request checked still holds when it writes, unless    *)
(* another was about the row at the time.                                   *)
(* Coursework: a sum over the questions asked, a number drawn under the      *)
(* assignment's lock, and the greatest of the grades given.                  *)
EXTENDS CourseCompletion, Classrooms, Coursework, SetFacts

InFlight(r) == request[r] # None

\* r holds the row of the quiz.
Holding(r, q) ==
    /\ InFlight(r) /\ request[r].item = q /\ request[r].limit # None
    /\ request[r].step \in {"enrollment", "count", "commit"}

\* Only a request that still counts has a stage to go.
Counting == \A r \in Requests : InFlight(r) /\ request[r].step # "commit" => request[r].stage < 6

\* The history of a limit is never below the limit in force.
PeakHolds == \A q \in Quizzes :
    peak[q] # None => limit[q] # None /\ limit[q] <= peak[q]

\* Nor below the limit a request in flight has read.
ReadHolds == \A r \in Requests, q \in Quizzes :
    InFlight(r) /\ request[r].item = q /\ peak[q] # None =>
        request[r].limit # None /\ request[r].limit <= peak[q]

\* Only a quiz with a limit waits for its row.
WaitsWithLimit == \A r \in Requests :
    InFlight(r) /\ request[r].step = "item" /\ request[r].item \in Quizzes => request[r].limit # None

\* One request at a time holds the row of a quiz.
HeldByOne == \A r, s \in Requests, q \in Quizzes : Holding(r, q) /\ Holding(s, q) => r = s

\* Whoever holds it still has an attempt left.
RoomLeft == \A r \in Requests, q \in Quizzes :
    Holding(r, q) /\ peak[q] # None => tries[q] < request[r].limit

Shape == TypeOK /\ Counting

IInv == Shape /\ PeakHolds /\ ReadHolds /\ WaitsWithLimit /\ HeldByOne /\ RoomLeft /\ AttemptsWithinLimit

-----------------------------------------------------------------------------
(* Types *)

\* A request in flight is an evaluation.
LEMMA RequestType ==
    ASSUME TypeOK, NEW r \in Requests, InFlight(r)
    PROVE  request[r] \in Evaluations
BY DEF TypeOK, InFlight

\* However much of the course is needed, it can be counted.
LEMMA NeededCounts ==
    ASSUME TypeOK, NEW S, NEW T
    PROVE  Cardinality(Needed(S)) \in Nat /\ Cardinality(Needed(S) \cap T) \in Nat
<1>1. Needed(S) \subseteq Items /\ Needed(S) \cap T \subseteq Items
    BY DEF Needed, TypeOK
<1>2. IsFiniteSet(Needed(S)) /\ IsFiniteSet(Needed(S) \cap T)
    BY <1>1, CourseAssumption, FS_Subset
<1>3. QED
    BY <1>2, FS_CardinalityType

\* What a request sees of the course are items of it.
LEMMA SeenType ==
    ASSUME TypeOK, NEW r \in Requests, InFlight(r)
    PROVE  Seen(r) \subseteq Items
<1>1. request[r].effect \in {"done", "undone", "kept"} /\ request[r].item \in Items
    BY RequestType DEF Evaluations
<1>2. done \subseteq Items
    BY DEF TypeOK
<1>3. QED
    BY <1>1, <1>2 DEF Seen

\* A request begins as an evaluation that has counted nothing.
LEMMA BeginType ==
    ASSUME Shape, NEW r \in Requests, NEW i \in Items, NEW effect \in {"done", "undone", "kept"},
           NEW read \in Limits \cup {None}, NEW step \in {"item", "enrollment"},
           Begin(r, i, effect, read, step)
    PROVE  Shape'
<1> DEFINE e == [item |-> i, effect |-> effect, limit |-> read, step |-> step,
                 stage |-> 0, total |-> 0, found |-> 0, saw |-> FALSE]
<1>1. e \in Evaluations
    BY DEF Evaluations
<1>2. request' = [request EXCEPT ![r] = e] /\ UNCHANGED <<courseVars, learnerVars>>
    BY DEF Begin
<1> HIDE DEF e
<1>3. TypeOK'
    BY <1>1, <1>2 DEF Shape, TypeOK, courseVars, learnerVars
<1>4. e.stage = 0
    BY DEF e
<1>5. Counting'
    BY <1>2, <1>4 DEF Shape, Counting, InFlight, TypeOK
<1>6. QED
    BY <1>3, <1>5 DEF Shape

\* A step of an evaluation keeps it one.
LEMMA AdvanceType ==
    ASSUME Shape, NEW r \in Requests, NEW e \in Evaluations \cup {None},
           request' = [request EXCEPT ![r] = e], e # None /\ e.step # "commit" => e.stage < 6,
           UNCHANGED <<courseVars, learnerVars>>
    PROVE  Shape'
<1>1. TypeOK'
    BY DEF Shape, TypeOK, courseVars, learnerVars
<1>2. Counting'
    BY DEF Shape, Counting, InFlight, TypeOK
<1>3. QED
    BY <1>1, <1>2 DEF Shape

\* Every step of a request keeps the types.
LEMMA RequestSteps ==
    ASSUME Shape, NEW r \in Requests,
           LockItem(r) \/ LockEnrollment(r) \/ Count(r) \/ Rollback(r)
    PROVE  Shape'
<1> DEFINE q == request[r]
<1>1. InFlight(r) /\ q \in Evaluations
    BY RequestType DEF Shape, InFlight, LockItem, LockEnrollment, Count, Rollback
<1>2. CASE LockItem(r)
  <2>1. [q EXCEPT !.step = "enrollment"] \in Evaluations
      BY <1>1 DEF Evaluations
  <2>2. request' = [request EXCEPT ![r] = [q EXCEPT !.step = "enrollment"]]
      BY <1>2 DEF LockItem
  <2>3. q.stage < 6
      BY <1>1, <1>2 DEF Shape, Counting, LockItem
  <2>4. QED
      BY <1>1, <1>2, <2>1, <2>2, <2>3, AdvanceType DEF LockItem, Evaluations
<1>3. CASE LockEnrollment(r)
  <2>1. [q EXCEPT !.step = "count"] \in Evaluations
      BY <1>1 DEF Evaluations
  <2>2. request' = [request EXCEPT ![r] = [q EXCEPT !.step = "count"]]
      BY <1>3 DEF LockEnrollment
  <2>3. q.stage < 6
      BY <1>1, <1>3 DEF Shape, Counting, LockEnrollment
  <2>4. QED
      BY <1>1, <1>3, <2>1, <2>2, <2>3, AdvanceType DEF LockEnrollment, Evaluations
<1>4. CASE Count(r)
  <2> DEFINE kind == <<Lessons, Quizzes, Assignments>>[q.stage \div 2 + 1]
             step == IF q.stage = 5 THEN "commit" ELSE "count"
             total == IF q.stage % 2 = 0 THEN q.total + Cardinality(Needed(kind)) ELSE q.total
             found == IF q.stage % 2 = 1 THEN q.found + Cardinality(Needed(kind) \cap Completed(r))
                      ELSE q.found
             saw == q.saw \/ AllDone(Seen(r))
             e == [q EXCEPT !.stage = q.stage + 1, !.step = step,
                            !.total = total, !.found = found, !.saw = saw]
  <2>1. Cardinality(Needed(kind)) \in Nat /\ Cardinality(Needed(kind) \cap Completed(r)) \in Nat
      BY NeededCounts DEF Shape
  <2>2. q.stage \in 0..5 /\ q.total \in Nat /\ q.found \in Nat
      BY <1>1, <1>4 DEF Shape, Counting, Count, Evaluations
  <2>3. request' = [request EXCEPT ![r] = e]
      BY <1>1, <1>4 DEF Count, Evaluations
  <2>4. saw \in BOOLEAN
      BY <1>1 DEF Evaluations
  <2>5. total \in Nat /\ found \in Nat
      BY <2>1, <2>2
  <2>6. step \in {"count", "commit"} /\ q.stage + 1 \in 0..6
      BY <2>2
  <2>7. step # "commit" => q.stage + 1 < 6
      BY <2>2
  <2> HIDE DEF kind, step, total, found, saw
  <2>8. e \in Evaluations
      BY <1>1, <2>4, <2>5, <2>6 DEF Evaluations
  <2>9. e.step # "commit" => e.stage < 6
      BY <1>1, <2>7 DEF Evaluations
  <2> HIDE DEF e
  <2>10. UNCHANGED <<courseVars, learnerVars>>
      BY <1>4 DEF Count
  <2>11. QED
      BY <2>3, <2>8, <2>9, <2>10, AdvanceType
<1>5. CASE Rollback(r)
    BY <1>5, AdvanceType DEF Rollback
<1>6. QED
    BY <1>2, <1>3, <1>4, <1>5

\* A commit keeps the types.
LEMMA CommitType ==
    ASSUME Shape, NEW r \in Requests, Commit(r)
    PROVE  Shape'
<1>1. InFlight(r) /\ request[r].item \in Items
    BY RequestType DEF Shape, InFlight, Commit, Evaluations
<1>2. Seen(r) \subseteq Items
    BY <1>1, SeenType DEF Shape
<1>3. Issuable => Issue \in {"none", "active", "revoked"}
    BY DEF Issuable, Issue
<1>4. enrollment' \in {"active", "completed"} /\ certificate' \in {"none", "active", "revoked"}
    BY <1>3 DEF Commit, Shape, TypeOK
<1>5. tries' \in [Quizzes -> Nat]
    BY DEF Commit, Shape, TypeOK
<1>6. done' \subseteq Items
    BY <1>2 DEF Commit
<1>7. request' \in [Requests -> Evaluations \cup {None}] /\ UNCHANGED courseVars
    BY DEF Commit, Shape, TypeOK
<1>8. TypeOK'
    BY <1>4, <1>5, <1>6, <1>7 DEF Shape, TypeOK, courseVars
<1>9. Counting'
    BY DEF Commit, Shape, TypeOK, Counting, InFlight
<1>10. QED
    BY <1>8, <1>9 DEF Shape

\* So does an edit of the course.
LEMMA EditType ==
    ASSUME Shape, EditNext
    PROVE  Shape' /\ UNCHANGED <<learnerVars, request, template>>
<1>1. CASE \E i \in Items : Publish(i) \/ Delete(i)
    BY <1>1, CourseAssumption DEF Publish, Delete, Edit, Shape, TypeOK, Counting, InFlight, learnerVars
<1>2. CASE \E i \in Items, b \in BOOLEAN : SetRequired(i, b)
    BY <1>2, CourseAssumption DEF SetRequired, Edit, Shape, TypeOK, Counting, InFlight, learnerVars
<1>3. CASE \E q \in Quizzes, n \in Limits \cup {None} : SetLimit(q, n)
  <2> PICK q \in Quizzes, n \in Limits \cup {None} : SetLimit(q, n)
      BY <1>3
  <2>1. Higher(peak[q], n) \in Limits \cup {None}
      BY DEF Higher, Shape, TypeOK
  <2>2. QED
      BY <2>1, CourseAssumption
      DEF SetLimit, Edit, Shape, TypeOK, Counting, InFlight, learnerVars
<1>4. QED
    BY <1>1, <1>2, <1>3 DEF EditNext

\* Certificates on request and revocations keep the types.
LEMMA CertificateType ==
    ASSUME Shape, IssueCertificate \/ RevokeCertificate
    PROVE  Shape'
BY DEF IssueCertificate, RevokeCertificate, Shape, TypeOK, Counting, InFlight, courseVars

-----------------------------------------------------------------------------
(* The quiz's row lock *)

\* A request that begins holds no row yet, and has read the limit in force.
LEMMA BeginKeeps ==
    ASSUME IInv, NEW r \in Requests, NEW i \in Items, NEW effect \in {"done", "undone", "kept"},
           NEW read \in Limits \cup {None}, NEW step \in {"item", "enrollment"},
           Begin(r, i, effect, read, step),
           i \in Quizzes => read = limit[i] /\ (step = "enrollment" <=> read = None)
    PROVE  IInv'
<1> DEFINE e == [item |-> i, effect |-> effect, limit |-> read, step |-> step,
                 stage |-> 0, total |-> 0, found |-> 0, saw |-> FALSE]
<1>1. Shape'
    BY BeginType DEF IInv
<1>2. request' = [request EXCEPT ![r] = e] /\ UNCHANGED <<courseVars, learnerVars>>
    BY DEF Begin
<1>3. e.item = i /\ e.limit = read /\ e.step = step
    OBVIOUS
<1> HIDE DEF e
<1>4. request \in [Requests -> Evaluations \cup {None}]
    BY DEF IInv, Shape, TypeOK
<1>5. PeakHolds' /\ AttemptsWithinLimit'
    BY <1>2 DEF IInv, PeakHolds, AttemptsWithinLimit, courseVars, learnerVars
<1>6. ReadHolds'
    BY <1>2, <1>3, <1>4 DEF IInv, ReadHolds, PeakHolds, InFlight, courseVars
<1>7. WaitsWithLimit'
    BY <1>2, <1>3, <1>4 DEF IInv, WaitsWithLimit, InFlight
<1>8. ASSUME NEW s \in Requests, NEW q \in Quizzes, Holding(s, q)'
      PROVE  s # r /\ Holding(s, q) /\ request'[s] = request[s]
    BY <1>2, <1>3, <1>4, <1>8 DEF Holding, InFlight
<1>9. HeldByOne'
    BY <1>8 DEF IInv, HeldByOne
<1>10. RoomLeft'
    BY <1>2, <1>8 DEF IInv, RoomLeft, courseVars, learnerVars
<1>11. QED
    BY <1>1, <1>5, <1>6, <1>7, <1>9, <1>10 DEF IInv

\* Taking the row: nobody else holds it, and an attempt was left when counted.
LEMMA LockItemKeeps ==
    ASSUME IInv, NEW r \in Requests, LockItem(r)
    PROVE  IInv'
<1>1. Shape'
    BY RequestSteps DEF IInv
<1>2. InFlight(r) /\ request[r] \in Evaluations /\ request \in [Requests -> Evaluations \cup {None}]
    BY RequestType DEF IInv, Shape, TypeOK, InFlight, LockItem
<1>3. /\ request' = [request EXCEPT ![r] = [request[r] EXCEPT !.step = "enrollment"]]
      /\ request'[r] # None /\ request'[r].item = request[r].item
      /\ request'[r].limit = request[r].limit /\ request'[r].step = "enrollment"
  <2>1. [request[r] EXCEPT !.step = "enrollment"] \in Evaluations
      BY <1>2 DEF Evaluations
  <2>2. QED
      BY <1>2, <2>1, EvaluationAssumption DEF LockItem, Evaluations
<1>4. UNCHANGED <<courseVars, learnerVars>>
    BY DEF LockItem
<1>5. \A s \in Requests : s # r => request'[s] = request[s]
    BY <1>2, <1>3
<1>6. PeakHolds' /\ AttemptsWithinLimit'
    BY <1>4 DEF IInv, PeakHolds, AttemptsWithinLimit, courseVars, learnerVars
<1>7. ReadHolds'
    BY <1>2, <1>3, <1>4, <1>5 DEF IInv, ReadHolds, InFlight, courseVars
<1>8. WaitsWithLimit'
    BY <1>3, <1>5 DEF IInv, WaitsWithLimit, InFlight
<1>9. ASSUME NEW s \in Requests, NEW q \in Quizzes, s # r, Holding(s, q)'
      PROVE  Holding(s, q) /\ request[r].item # q
    BY <1>5, <1>9 DEF Holding, InFlight, LockItem, ItemHeld
<1>10. HeldByOne'
    BY <1>3, <1>9 DEF IInv, HeldByOne, Holding
<1>11. ASSUME NEW s \in Requests, NEW q \in Quizzes, Holding(s, q)', peak'[q] # None
       PROVE  tries'[q] < request'[s].limit
  <2>1. CASE s = r
      BY <1>3, <1>4, <1>11, <2>1 DEF Holding, LockItem, BelowLimit, learnerVars
  <2>2. CASE s # r
      BY <1>4, <1>5, <1>9, <1>11, <2>2 DEF IInv, RoomLeft, courseVars, learnerVars
  <2>3. QED
      BY <2>1, <2>2
<1>12. QED
    BY <1>1, <1>6, <1>7, <1>8, <1>10, <1>11 DEF IInv, RoomLeft

\* While a request evaluates the course, the row stays with it.
LEMMA EvaluatingKeeps ==
    ASSUME IInv, NEW r \in Requests, LockEnrollment(r) \/ Count(r)
    PROVE  IInv'
<1>1. Shape'
    BY RequestSteps DEF IInv
<1>2. InFlight(r) /\ request[r] \in Evaluations /\ request \in [Requests -> Evaluations \cup {None}]
    BY RequestType DEF IInv, Shape, TypeOK, InFlight, LockEnrollment, Count
<1>3. request'[r] # None => /\ request'[r].item = request[r].item
                            /\ request'[r].limit = request[r].limit
                            /\ request'[r].step # "item"
  <2>1. CASE LockEnrollment(r)
      BY <1>2, <2>1 DEF LockEnrollment, Evaluations
  <2>2. CASE Count(r)
    <3> DEFINE q == request[r]
               kind == <<Lessons, Quizzes, Assignments>>[q.stage \div 2 + 1]
               step == IF q.stage = 5 THEN "commit" ELSE "count"
               total == IF q.stage % 2 = 0 THEN q.total + Cardinality(Needed(kind)) ELSE q.total
               found == IF q.stage % 2 = 1 THEN q.found + Cardinality(Needed(kind) \cap Completed(r))
                        ELSE q.found
               saw == q.saw \/ AllDone(Seen(r))
               e == [q EXCEPT !.stage = q.stage + 1, !.step = step,
                              !.total = total, !.found = found, !.saw = saw]
    <3>1. request'[r] = e
        BY <1>2, <2>2 DEF Count, Evaluations
    <3>2. step # "item"
        OBVIOUS
    <3> HIDE DEF kind, step, total, found, saw
    <3>3. e.item = q.item /\ e.limit = q.limit /\ e.step = step
        BY <1>2 DEF Evaluations
    <3>4. QED
        BY <3>1, <3>2, <3>3
  <2>3. QED
      BY <2>1, <2>2
<1>4. request[r].step \in {"enrollment", "count"}
    BY DEF LockEnrollment, Count
<1>5. UNCHANGED <<courseVars, learnerVars>>
    BY DEF LockEnrollment, Count
<1>6. \A s \in Requests : s # r => request'[s] = request[s]
    BY <1>2 DEF LockEnrollment, Count
<1>7. PeakHolds' /\ AttemptsWithinLimit'
    BY <1>5 DEF IInv, PeakHolds, AttemptsWithinLimit, courseVars, learnerVars
<1>8. ReadHolds'
    BY <1>2, <1>3, <1>5, <1>6 DEF IInv, ReadHolds, InFlight, courseVars
<1>9. WaitsWithLimit'
    BY <1>3, <1>6 DEF IInv, WaitsWithLimit, InFlight
<1>10. ASSUME NEW s \in Requests, NEW q \in Quizzes, Holding(s, q)'
       PROVE  Holding(s, q) /\ request'[s].limit = request[s].limit
    BY <1>2, <1>3, <1>4, <1>6, <1>10 DEF Holding, InFlight
<1>11. HeldByOne'
    BY <1>10 DEF IInv, HeldByOne
<1>12. RoomLeft'
    BY <1>5, <1>10 DEF IInv, RoomLeft, courseVars, learnerVars
<1>13. QED
    BY <1>1, <1>7, <1>8, <1>9, <1>11, <1>12 DEF IInv

\* The holder inserts while it still has an attempt left, and nobody else does.
LEMMA CommitKeeps ==
    ASSUME IInv, NEW r \in Requests, Commit(r)
    PROVE  IInv'
<1>1. Shape'
    BY CommitType DEF IInv
<1>2. InFlight(r) /\ request[r] \in Evaluations /\ request \in [Requests -> Evaluations \cup {None}]
    BY RequestType DEF IInv, Shape, TypeOK, InFlight, Commit
<1>3. /\ request'[r] = None /\ \A s \in Requests : s # r => request'[s] = request[s]
      /\ UNCHANGED courseVars
    BY <1>2 DEF Commit
<1>4. \A q \in Quizzes : tries'[q] = IF q = request[r].item THEN tries[q] + 1 ELSE tries[q]
    BY DEF Commit
<1>5. PeakHolds' /\ ReadHolds' /\ WaitsWithLimit'
    BY <1>3 DEF IInv, PeakHolds, ReadHolds, WaitsWithLimit, InFlight, courseVars
<1>6. ASSUME NEW s \in Requests, NEW q \in Quizzes, Holding(s, q)'
      PROVE  s # r /\ Holding(s, q) /\ request'[s] = request[s]
    BY <1>3, <1>6 DEF Holding, InFlight
<1>7. HeldByOne'
    BY <1>6 DEF IInv, HeldByOne
<1>8. ASSUME NEW q \in Quizzes, peak[q] # None, request[r].item = q
      PROVE  Holding(r, q) /\ request[r].limit <= peak[q] /\ tries[q] < request[r].limit
    BY <1>2, <1>8 DEF IInv, ReadHolds, RoomLeft, Holding, Commit
<1>9. RoomLeft'
  <2> SUFFICES ASSUME NEW s \in Requests, NEW q \in Quizzes, Holding(s, q)', peak'[q] # None
               PROVE  tries'[q] < request'[s].limit
      BY DEF RoomLeft
  <2>1. s # r /\ Holding(s, q) /\ request'[s] = request[s] /\ peak[q] # None
      BY <1>3, <1>6 DEF courseVars
  <2>2. request[r].item # q
      BY <1>8, <2>1 DEF IInv, HeldByOne
  <2>3. QED
      BY <1>4, <2>1, <2>2 DEF IInv, RoomLeft
<1>10. AttemptsWithinLimit'
  <2> SUFFICES ASSUME NEW q \in Quizzes, peak'[q] # None
               PROVE  tries'[q] <= peak'[q]
      BY DEF AttemptsWithinLimit
  <2> peak' = peak
      BY <1>3 DEF courseVars
  <2> peak[q] \in Limits /\ tries[q] \in Nat
      BY DEF IInv, Shape, TypeOK
  <2>1. peak'[q] = peak[q] /\ tries[q] \in Nat /\ peak[q] \in Nat /\ tries[q] <= peak[q]
      BY CourseAssumption DEF IInv, AttemptsWithinLimit
  <2>2. CASE request[r].item = q
    <3>1. request[r].limit \in Limits /\ request[r].limit <= peak[q] /\ tries[q] < request[r].limit
        BY <1>2, <1>8, <2>1, <2>2 DEF Holding, Evaluations
    <3>2. request[r].limit \in Nat
        BY <3>1, CourseAssumption
    <3>3. tries[q] + 1 <= peak[q]
        BY <2>1, <3>1, <3>2
    <3>4. tries'[q] = tries[q] + 1
        BY <1>4, <2>2
    <3>5. QED
        BY <2>1, <3>3, <3>4
  <2>3. CASE request[r].item # q
      BY <1>4, <2>1, <2>3
  <2>4. QED
      BY <2>2, <2>3
<1>11. QED
    BY <1>1, <1>5, <1>7, <1>9, <1>10 DEF IInv

\* A rollback gives the row back and leaves the attempts as they were.
LEMMA RollbackKeeps ==
    ASSUME IInv, NEW r \in Requests, Rollback(r)
    PROVE  IInv'
<1>1. Shape'
    BY RequestSteps DEF IInv
<1>2. /\ request'[r] = None /\ \A s \in Requests : s # r => request'[s] = request[s]
      /\ UNCHANGED <<courseVars, learnerVars>>
    BY DEF Rollback, IInv, Shape, TypeOK
<1>3. PeakHolds' /\ ReadHolds' /\ WaitsWithLimit' /\ AttemptsWithinLimit'
    BY <1>2 DEF IInv, PeakHolds, ReadHolds, WaitsWithLimit, AttemptsWithinLimit, InFlight,
        courseVars, learnerVars
<1>4. ASSUME NEW s \in Requests, NEW q \in Quizzes, Holding(s, q)'
      PROVE  Holding(s, q) /\ request'[s] = request[s]
    BY <1>2, <1>4 DEF Holding, InFlight
<1>5. HeldByOne' /\ RoomLeft'
    BY <1>2, <1>4 DEF IInv, HeldByOne, RoomLeft, courseVars, learnerVars
<1>6. QED
    BY <1>1, <1>3, <1>5 DEF IInv

\* What leaves requests, attempts and limits alone keeps the invariant.
LEMMA OthersKeep ==
    ASSUME IInv, Shape', UNCHANGED <<request, tries, limit, peak>>
    PROVE  IInv'
BY DEF IInv, PeakHolds, ReadHolds, WaitsWithLimit, HeldByOne, Holding, RoomLeft,
    AttemptsWithinLimit, InFlight

\* Raising or lowering the limit never lowers the history.
LEMMA SetLimitKeeps ==
    ASSUME IInv, NEW q \in Quizzes, NEW n \in Limits \cup {None}, SetLimit(q, n)
    PROVE  IInv'
<1>1. Shape' /\ UNCHANGED <<request, tries>>
  <2>1. EditNext
      BY DEF EditNext
  <2>2. QED
      BY <2>1, EditType DEF IInv, learnerVars
<1>2. /\ limit' = [limit EXCEPT ![q] = n] /\ peak' = [peak EXCEPT ![q] = Higher(peak[q], n)]
      /\ limit \in [Quizzes -> Limits \cup {None}] /\ peak \in [Quizzes -> Limits \cup {None}]
    BY DEF SetLimit, IInv, Shape, TypeOK
<1>3. ASSUME NEW i \in Quizzes, peak'[i] # None
      PROVE  /\ peak[i] # None /\ peak[i] \in Nat /\ peak'[i] \in Nat /\ peak[i] <= peak'[i]
             /\ i = q => n # None /\ n <= peak'[i]
  <2> Limits \subseteq Nat
      BY CourseAssumption
  <2>1. CASE i = q
    <3>1. peak'[q] = Higher(peak[q], n)
        BY <1>2
    <3>2. peak[q] # None /\ n # None
        BY <1>3, <2>1, <3>1 DEF Higher
    <3>3. peak[q] \in Nat /\ n \in Nat
        BY <1>2, <3>2
    <3>4. peak'[q] = IF peak[q] > n THEN peak[q] ELSE n
        BY <3>1, <3>2 DEF Higher
    <3>5. QED
        BY <2>1, <3>2, <3>3, <3>4
  <2>2. CASE i # q
    <3>1. peak'[i] = peak[i]
        BY <1>2, <2>2
    <3>2. peak[i] # None /\ peak[i] \in Nat
        BY <1>2, <1>3, <3>1
    <3>3. peak[i] <= peak[i]
        BY <3>2
    <3>4. QED
        BY <2>2, <3>1, <3>2, <3>3
  <2>3. QED
      BY <2>1, <2>2
<1>4. PeakHolds'
  <2> SUFFICES ASSUME NEW i \in Quizzes, peak'[i] # None
               PROVE  limit'[i] # None /\ limit'[i] <= peak'[i]
      BY DEF PeakHolds
  <2>1. CASE i = q
      BY <1>2, <1>3, <2>1
  <2>2. CASE i # q
      BY <1>2, <2>2 DEF IInv, PeakHolds
  <2>3. QED
      BY <2>1, <2>2
<1>5. ReadHolds'
  <2> SUFFICES ASSUME NEW r \in Requests, NEW i \in Quizzes,
                      request[r] # None, request[r].item = i, peak'[i] # None
               PROVE  request[r].limit # None /\ request[r].limit <= peak'[i]
      BY <1>1 DEF ReadHolds, InFlight
  <2>1. peak[i] # None /\ peak[i] \in Nat /\ peak'[i] \in Nat /\ peak[i] <= peak'[i]
      BY <1>3
  <2>2. request[r].limit # None /\ request[r].limit <= peak[i]
      BY <2>1 DEF IInv, ReadHolds, InFlight
  <2>3. request[r].limit \in Nat
    <3>1. request[r] \in Evaluations
        BY RequestType DEF IInv, Shape, InFlight
    <3>2. request[r].limit \in Limits
        BY <2>2, <3>1 DEF Evaluations
    <3>3. QED
        BY <3>2, CourseAssumption
  <2>4. QED
      BY <2>1, <2>2, <2>3
<1>6. WaitsWithLimit' /\ HeldByOne'
    BY <1>1 DEF IInv, WaitsWithLimit, HeldByOne, Holding, InFlight
<1>7. RoomLeft'
    BY <1>1, <1>3 DEF IInv, RoomLeft, Holding, InFlight
<1>8. AttemptsWithinLimit'
  <2> SUFFICES ASSUME NEW i \in Quizzes, peak'[i] # None
               PROVE  tries[i] <= peak'[i]
      BY <1>1 DEF AttemptsWithinLimit
  <2>1. peak[i] # None /\ peak[i] \in Nat /\ peak'[i] \in Nat /\ peak[i] <= peak'[i]
      BY <1>3
  <2>2. tries[i] \in Nat /\ tries[i] <= peak[i]
      BY <2>1 DEF IInv, Shape, TypeOK, AttemptsWithinLimit
  <2>3. QED
      BY <2>1, <2>2
<1>9. QED
    BY <1>1, <1>4, <1>5, <1>6, <1>7, <1>8 DEF IInv

\* Editing anything but a limit.
LEMMA EditKeeps ==
    ASSUME IInv, NEW i \in Items,
           \/ Publish(i) \/ Delete(i)
           \/ \E b \in BOOLEAN : SetRequired(i, b)
    PROVE  IInv'
<1>1. EditNext
    BY DEF EditNext
<1>2. Shape'
    BY <1>1, EditType DEF IInv
<1>3. UNCHANGED <<request, tries, limit, peak>>
    BY DEF Publish, Delete, SetRequired, Edit, learnerVars
<1>4. QED
    BY <1>2, <1>3, OthersKeep

-----------------------------------------------------------------------------
(* What an evaluation has counted.  While nobody edits the course, whoever  *)
(* holds the enrollment has counted what it needs and what is done of it    *)
(* exactly, because nobody else writes what is done; so the commit that     *)
(* finishes the course completes it.                                        *)

Evaluating(r) == InFlight(r) /\ request[r].step \in {"count", "commit"}

NeededOf(kind) == Cardinality(Needed(kind))
DoneOf(r, kind) == Cardinality(Needed(kind) \cap Completed(r))

\* n, once stage k is behind.
After(stage, k, n) == IF stage >= k THEN n ELSE 0

TotalAt(stage, lessons, quizzes, assignments) ==
    After(stage, 1, lessons) + After(stage, 3, quizzes) + After(stage, 5, assignments)

FoundAt(stage, lessons, quizzes, assignments) ==
    After(stage, 2, lessons) + After(stage, 4, quizzes) + After(stage, 6, assignments)

CountsTrue(r) ==
    /\ InFlight(r) /\ request[r].step \in {"item", "enrollment"} =>
           request[r].stage = 0 /\ request[r].total = 0 /\ request[r].found = 0
    /\ InFlight(r) /\ request[r].step = "commit" => request[r].stage = 6
    /\ Evaluating(r) /\ edits = 0 =>
           /\ request[r].total = TotalAt(request[r].stage, NeededOf(Lessons), NeededOf(Quizzes),
                                         NeededOf(Assignments))
           /\ request[r].found = FoundAt(request[r].stage, DoneOf(r, Lessons), DoneOf(r, Quizzes),
                                         DoneOf(r, Assignments))

OneEvaluates == \A r, s \in Requests : Evaluating(r) /\ Evaluating(s) => r = s

\* Nobody need be at rest for it.
FinishedIsCompleted == edits = 0 /\ AllDone(done) => enrollment = "completed"

Counted == Shape /\ (\A r \in Requests : CountsTrue(r)) /\ OneEvaluates /\ FinishedIsCompleted

\* A request that has nothing to do with the count keeps what it counted.
LEMMA CountsStay ==
    ASSUME Counted, NEW r \in Requests, request'[r] = request[r], UNCHANGED courseVars,
           Evaluating(r) => done' = done
    PROVE  CountsTrue(r)'
<1>1. UNCHANGED <<state, required, edits>>
    BY DEF courseVars
<1>2. ASSUME Evaluating(r) PROVE Seen(r)' = Seen(r)
    BY <1>2 DEF Seen
<1>3. Needed(Lessons)' = Needed(Lessons) /\ Needed(Quizzes)' = Needed(Quizzes)
      /\ Needed(Assignments)' = Needed(Assignments)
    BY <1>1 DEF Needed
<1>4. CASE Evaluating(r)
    <2>1. /\ NeededOf(Lessons)' = NeededOf(Lessons) /\ NeededOf(Quizzes)' = NeededOf(Quizzes)
          /\ NeededOf(Assignments)' = NeededOf(Assignments)
        BY <1>3 DEF NeededOf
    <2>2. /\ DoneOf(r, Lessons)' = DoneOf(r, Lessons) /\ DoneOf(r, Quizzes)' = DoneOf(r, Quizzes)
          /\ DoneOf(r, Assignments)' = DoneOf(r, Assignments)
        BY <1>2, <1>3, <1>4 DEF DoneOf, Completed
    <2> QED BY <1>1, <1>4, <2>1, <2>2 DEF Counted, CountsTrue, InFlight, Evaluating
<1>5. CASE ~Evaluating(r)
    BY <1>5 DEF Counted, CountsTrue, InFlight, Evaluating
<1> QED BY <1>4, <1>5

\* An item begun, or the row of an item locked: nothing is counted yet.
LEMMA NotYetCounted ==
    ASSUME Counted, Shape', NEW r \in Requests, UNCHANGED <<courseVars, learnerVars>>,
           \A s \in Requests : s # r => request'[s] = request[s],
           request'[r] # None,
           request'[r].step \in {"item", "enrollment"}, request'[r].stage = 0,
           request'[r].total = 0, request'[r].found = 0
    PROVE  Counted'
<1>1. ASSUME NEW s \in Requests, s # r PROVE CountsTrue(s)'
    BY <1>1, CountsStay DEF learnerVars
<1>2. CountsTrue(r)'
    BY DEF CountsTrue, Evaluating
<1>3. OneEvaluates'
    BY DEF Counted, OneEvaluates, Evaluating, InFlight
<1>4. FinishedIsCompleted'
    BY DEF Counted, FinishedIsCompleted, AllDone, Needed, courseVars, learnerVars
<1> QED BY <1>1, <1>2, <1>3, <1>4 DEF Counted

\* Whoever takes the enrollment's lock is the only one to hold it.
LEMMA LockCounts ==
    ASSUME Counted, Shape', NEW r \in Requests, LockEnrollment(r)
    PROVE  Counted'
<1>1. /\ InFlight(r) /\ request[r].step = "enrollment" /\ ~EnrollmentHeld
      /\ UNCHANGED <<courseVars, learnerVars>>
      /\ request \in [Requests -> Evaluations \cup {None}] /\ request[r] \in Evaluations
    BY RequestType DEF LockEnrollment, InFlight, Counted, Shape, TypeOK
<1>2. /\ request'[r].step = "count" /\ request'[r].stage = request[r].stage
      /\ request'[r].total = request[r].total /\ request'[r].found = request[r].found
      /\ \A s \in Requests : s # r => request'[s] = request[s]
    BY <1>1 DEF LockEnrollment, Evaluations
<1>3. request[r].stage = 0 /\ request[r].total = 0 /\ request[r].found = 0
    BY <1>1 DEF Counted, CountsTrue
<1>4. \A n : After(0, 1, n) = 0 /\ After(0, 2, n) = 0 /\ After(0, 3, n) = 0
             /\ After(0, 4, n) = 0 /\ After(0, 5, n) = 0 /\ After(0, 6, n) = 0
    BY DEF After
<1>5. \A a, b, c : TotalAt(0, a, b, c) = 0 /\ FoundAt(0, a, b, c) = 0
    BY <1>4 DEF TotalAt, FoundAt
<1>6. CountsTrue(r)'
    BY <1>2, <1>3, <1>5 DEF CountsTrue, Evaluating
<1>7. ASSUME NEW s \in Requests, s # r PROVE CountsTrue(s)'
    BY <1>1, <1>2, <1>7, CountsStay DEF learnerVars
<1>8. OneEvaluates'
    BY <1>1, <1>2 DEF EnrollmentHeld, OneEvaluates, Evaluating, InFlight
<1>9. FinishedIsCompleted'
    BY <1>1 DEF Counted, FinishedIsCompleted, AllDone, Needed, courseVars, learnerVars
<1> QED BY <1>6, <1>7, <1>8, <1>9 DEF Counted

\* What a stage adds.
LEMMA StageAdds ==
    ASSUME NEW stage \in 0..5, NEW nl \in Nat, NEW nq \in Nat, NEW na \in Nat,
           NEW n, n = <<nl, nq, na>>[stage \div 2 + 1]
    PROVE  /\ stage % 2 = 0 =>
                 /\ TotalAt(stage + 1, nl, nq, na) = TotalAt(stage, nl, nq, na) + n
                 /\ FoundAt(stage + 1, nl, nq, na) = FoundAt(stage, nl, nq, na)
           /\ stage % 2 = 1 =>
                 /\ TotalAt(stage + 1, nl, nq, na) = TotalAt(stage, nl, nq, na)
                 /\ FoundAt(stage + 1, nl, nq, na) = FoundAt(stage, nl, nq, na) + n
<1>1. CASE stage = 0
    BY <1>1 DEF TotalAt, FoundAt, After
<1>2. CASE stage = 1
    BY <1>2 DEF TotalAt, FoundAt, After
<1>3. CASE stage = 2
    BY <1>3 DEF TotalAt, FoundAt, After
<1>4. CASE stage = 3
    BY <1>4 DEF TotalAt, FoundAt, After
<1>5. CASE stage = 4
    BY <1>5 DEF TotalAt, FoundAt, After
<1>6. CASE stage = 5
    BY <1>6 DEF TotalAt, FoundAt, After
<1> QED BY <1>1, <1>2, <1>3, <1>4, <1>5, <1>6

\* Counting one kind more of what is required, or of what is done.
LEMMA CountCounts ==
    ASSUME Counted, Shape', NEW r \in Requests, Count(r)
    PROVE  Counted'
<1> DEFINE q == request[r]
           kind == <<Lessons, Quizzes, Assignments>>[q.stage \div 2 + 1]
           step == IF q.stage = 5 THEN "commit" ELSE "count"
           total == IF q.stage % 2 = 0 THEN q.total + Cardinality(Needed(kind)) ELSE q.total
           found == IF q.stage % 2 = 1 THEN q.found + Cardinality(Needed(kind) \cap Completed(r))
                    ELSE q.found
           saw == q.saw \/ AllDone(Seen(r))
           e == [q EXCEPT !.stage = q.stage + 1, !.step = step,
                          !.total = total, !.found = found, !.saw = saw]
<1>1. /\ InFlight(r) /\ q \in Evaluations /\ q.step = "count" /\ q.stage \in 0..5
      /\ request \in [Requests -> Evaluations \cup {None}]
    <2>1. InFlight(r) /\ q.step = "count" /\ TypeOK /\ Counting
        BY DEF Count, InFlight, Counted, Shape
    <2>2. q \in Evaluations
        BY <2>1, RequestType
    <2>3. q.stage \in 0..6 /\ q.stage < 6
        BY <2>1, <2>2 DEF Counting, Evaluations
    <2> QED BY <2>1, <2>2, <2>3 DEF TypeOK
<1>2. /\ request'[r] = e /\ \A s \in Requests : s # r => request'[s] = request[s]
      /\ UNCHANGED <<courseVars, learnerVars>>
    BY <1>1 DEF Count, Evaluations
<1>3. (step = "commit" /\ q.stage + 1 = 6) \/ (step = "count" /\ q.stage + 1 < 6)
    BY <1>1
<1>4. /\ e.stage = q.stage + 1 /\ e.step = step /\ e.total = total /\ e.found = found
      /\ e.item = q.item /\ e.effect = q.effect
    <2> HIDE DEF kind, step, total, found, saw
    <2> QED BY <1>1 DEF Evaluations
<1>5. Seen(r)' = Seen(r)
    <2>1. done' = done
        BY <1>2 DEF learnerVars
    <2> HIDE DEF e
    <2> QED BY <1>2, <1>4, <2>1 DEF Seen
<1>6. UNCHANGED <<state, required, edits>>
    BY <1>2 DEF courseVars
<1>7. \A k : NeededOf(k)' = NeededOf(k) /\ DoneOf(r, k)' = DoneOf(r, k)
    BY <1>5, <1>6 DEF NeededOf, DoneOf, Completed, Needed
<1>8. \A k : NeededOf(k) \in Nat /\ DoneOf(r, k) \in Nat
    BY NeededCounts DEF Counted, Shape, NeededOf, DoneOf
<1>9. q.stage \div 2 + 1 \in 1..3
    BY <1>1
<1>10. /\ NeededOf(kind) = <<NeededOf(Lessons), NeededOf(Quizzes), NeededOf(Assignments)>>[q.stage \div 2 + 1]
       /\ DoneOf(r, kind) = <<DoneOf(r, Lessons), DoneOf(r, Quizzes), DoneOf(r, Assignments)>>[q.stage \div 2 + 1]
    BY <1>9
<1>11. /\ total = IF q.stage % 2 = 0 THEN q.total + NeededOf(kind) ELSE q.total
       /\ found = IF q.stage % 2 = 1 THEN q.found + DoneOf(r, kind) ELSE q.found
    BY DEF NeededOf, DoneOf
<1>12. q.stage % 2 = 0 \/ q.stage % 2 = 1
    BY <1>1
<1>13. edits = 0 =>
           /\ q.total = TotalAt(q.stage, NeededOf(Lessons), NeededOf(Quizzes), NeededOf(Assignments))
           /\ q.found = FoundAt(q.stage, DoneOf(r, Lessons), DoneOf(r, Quizzes), DoneOf(r, Assignments))
    BY <1>1 DEF Counted, CountsTrue, Evaluating
<1> HIDE DEF kind, step, total, found, saw, e
<1>14. edits = 0 =>
           total = TotalAt(q.stage + 1, NeededOf(Lessons), NeededOf(Quizzes), NeededOf(Assignments))
    <2>1. /\ q.stage % 2 = 0 =>
                TotalAt(q.stage + 1, NeededOf(Lessons), NeededOf(Quizzes), NeededOf(Assignments)) =
                TotalAt(q.stage, NeededOf(Lessons), NeededOf(Quizzes), NeededOf(Assignments)) + NeededOf(kind)
          /\ q.stage % 2 = 1 =>
                TotalAt(q.stage + 1, NeededOf(Lessons), NeededOf(Quizzes), NeededOf(Assignments)) =
                TotalAt(q.stage, NeededOf(Lessons), NeededOf(Quizzes), NeededOf(Assignments))
        BY <1>1, <1>8, <1>10, StageAdds
    <2> QED BY <1>11, <1>12, <1>13, <2>1
<1>15. edits = 0 =>
           found = FoundAt(q.stage + 1, DoneOf(r, Lessons), DoneOf(r, Quizzes), DoneOf(r, Assignments))
    <2>1. /\ q.stage % 2 = 1 =>
                FoundAt(q.stage + 1, DoneOf(r, Lessons), DoneOf(r, Quizzes), DoneOf(r, Assignments)) =
                FoundAt(q.stage, DoneOf(r, Lessons), DoneOf(r, Quizzes), DoneOf(r, Assignments)) + DoneOf(r, kind)
          /\ q.stage % 2 = 0 =>
                FoundAt(q.stage + 1, DoneOf(r, Lessons), DoneOf(r, Quizzes), DoneOf(r, Assignments)) =
                FoundAt(q.stage, DoneOf(r, Lessons), DoneOf(r, Quizzes), DoneOf(r, Assignments))
        BY <1>1, <1>8, <1>10, StageAdds
    <2> QED BY <1>11, <1>12, <1>13, <2>1
<1>16. CountsTrue(r)'
    BY <1>2, <1>3, <1>4, <1>6, <1>7, <1>14, <1>15 DEF CountsTrue, Evaluating
<1>17. ASSUME NEW s \in Requests, s # r PROVE CountsTrue(s)'
    BY <1>2, <1>17, CountsStay DEF learnerVars
<1>18. OneEvaluates'
    BY <1>1, <1>2 DEF Counted, OneEvaluates, Evaluating, InFlight
<1>19. FinishedIsCompleted'
    BY <1>2 DEF Counted, FinishedIsCompleted, AllDone, Needed, courseVars, learnerVars
<1> QED BY <1>16, <1>17, <1>18, <1>19 DEF Counted

\* A finished course has something to do, and finds as much as it needs.
LEMMA AllDoneAddsUp ==
    ASSUME TypeOK, NEW r \in Requests, AllDone(Completed(r))
    PROVE  /\ NeededOf(Lessons) = DoneOf(r, Lessons) /\ NeededOf(Quizzes) = DoneOf(r, Quizzes)
           /\ NeededOf(Assignments) = DoneOf(r, Assignments)
           /\ TotalAt(6, NeededOf(Lessons), NeededOf(Quizzes), NeededOf(Assignments)) > 0
           /\ TotalAt(6, NeededOf(Lessons), NeededOf(Quizzes), NeededOf(Assignments)) =
              FoundAt(6, DoneOf(r, Lessons), DoneOf(r, Quizzes), DoneOf(r, Assignments))
<1>1. \A kind \in {Lessons, Quizzes, Assignments} : Needed(kind) \subseteq Needed(Items)
    BY DEF Needed, Items
<1>2. \A kind \in {Lessons, Quizzes, Assignments} : Needed(kind) \cap Completed(r) = Needed(kind)
    BY <1>1 DEF AllDone
<1>3. \A kind \in {Lessons, Quizzes, Assignments} : NeededOf(kind) = DoneOf(r, kind)
    BY <1>2 DEF NeededOf, DoneOf
<1>4. \A kind \in {Lessons, Quizzes, Assignments} : NeededOf(kind) \in Nat
    BY NeededCounts DEF NeededOf
<1>5. ASSUME NEW kind \in {Lessons, Quizzes, Assignments}, Needed(kind) # {}
      PROVE  NeededOf(kind) # 0
    <2>1. IsFiniteSet(Needed(kind))
        BY <1>1, CourseAssumption, FS_Subset DEF Needed
    <2> QED BY <1>5, <2>1, FS_EmptySet DEF NeededOf
<1>6. \E kind \in {Lessons, Quizzes, Assignments} : Needed(kind) # {}
    <2>1. PICK i : i \in Needed(Items)
        BY DEF AllDone
    <2> QED BY <2>1 DEF Needed, Items
<1>7. NeededOf(Lessons) > 0 \/ NeededOf(Quizzes) > 0 \/ NeededOf(Assignments) > 0
    BY <1>4, <1>5, <1>6
<1>8. /\ \A a, b, c : TotalAt(6, a, b, c) = a + b + c
      /\ \A a, b, c : FoundAt(6, a, b, c) = a + b + c
    BY DEF TotalAt, FoundAt, After
<1> QED BY <1>3, <1>4, <1>7, <1>8

\* The commit that finishes the course has found all of it, and completes it.
LEMMA CommitCounts ==
    ASSUME Counted, Shape', NEW r \in Requests, Commit(r)
    PROVE  Counted'
<1>1. /\ InFlight(r) /\ request[r].step = "commit" /\ UNCHANGED courseVars
      /\ request'[r] = None /\ \A s \in Requests : s # r => request'[s] = request[s]
    BY DEF Commit, InFlight, Counted, Shape, TypeOK
<1>2. /\ enrollment = "completed" \/ (request[r].total > 0 /\ request[r].found = request[r].total)
             => enrollment' = "completed"
      /\ done' = Seen(r)
    BY DEF Commit
<1>3. CountsTrue(r)'
    BY <1>1 DEF CountsTrue, Evaluating, InFlight
<1>4. ASSUME NEW s \in Requests, s # r PROVE CountsTrue(s)'
    <2>1. ~Evaluating(s)
        BY <1>1, <1>4 DEF Counted, OneEvaluates, Evaluating
    <2> QED BY <1>1, <1>4, <2>1, CountsStay
<1>5. OneEvaluates'
    BY <1>1 DEF Counted, OneEvaluates, Evaluating, InFlight
<1>6. FinishedIsCompleted'
    <2> SUFFICES ASSUME edits' = 0, AllDone(done)' PROVE enrollment' = "completed"
        BY DEF FinishedIsCompleted
    <2>1. edits = 0 /\ AllDone(Completed(r))
        BY <1>1, <1>2 DEF courseVars, AllDone, Needed, Completed
    <2>2. /\ request[r].total = TotalAt(6, NeededOf(Lessons), NeededOf(Quizzes), NeededOf(Assignments))
          /\ request[r].found = FoundAt(6, DoneOf(r, Lessons), DoneOf(r, Quizzes), DoneOf(r, Assignments))
        BY <1>1, <2>1 DEF Counted, CountsTrue, Evaluating
    <2>3. TypeOK
        BY DEF Counted, Shape
    <2>4. request[r].total > 0 /\ request[r].found = request[r].total
        BY <2>1, <2>2, <2>3, AllDoneAddsUp
    <2> QED BY <1>2, <2>4
<1> QED BY <1>3, <1>4, <1>5, <1>6 DEF Counted

\* Every step keeps the counts.
LEMMA EveryStepCounts ==
    ASSUME Counted, Shape', [Next]_vars
    PROVE  Counted'
<1>1. ASSUME NEW r \in Requests, Rollback(r) PROVE Counted'
    <2>1. /\ UNCHANGED <<courseVars, learnerVars>> /\ request'[r] = None
          /\ \A s \in Requests : s # r => request'[s] = request[s]
        BY <1>1 DEF Rollback, Counted, Shape, TypeOK
    <2>2. ASSUME NEW s \in Requests PROVE CountsTrue(s)'
        BY <2>1, CountsStay DEF learnerVars, CountsTrue, Evaluating, InFlight
    <2>3. OneEvaluates' /\ FinishedIsCompleted'
        BY <2>1 DEF Counted, OneEvaluates, Evaluating, InFlight, FinishedIsCompleted, AllDone, Needed,
                    courseVars, learnerVars
    <2> QED BY <2>2, <2>3 DEF Counted
<1>2. ASSUME NEW r \in Requests, LockItem(r) PROVE Counted'
    <2>1. /\ request[r] \in Evaluations /\ request[r].step = "item" /\ InFlight(r)
          /\ request \in [Requests -> Evaluations \cup {None}]
          /\ UNCHANGED <<courseVars, learnerVars>>
        BY <1>2, RequestType DEF LockItem, InFlight, Counted, Shape, TypeOK
    <2>2. request[r].stage = 0 /\ request[r].total = 0 /\ request[r].found = 0
        BY <2>1 DEF Counted, CountsTrue
    <2>3. /\ request'[r].step = "enrollment" /\ request'[r].stage = request[r].stage
          /\ request'[r].total = request[r].total /\ request'[r].found = request[r].found
          /\ \A s \in Requests : s # r => request'[s] = request[s]
        BY <1>2, <2>1 DEF LockItem, Evaluations
    <2>4. request'[r] # None
        <3>1. [request[r] EXCEPT !.step = "enrollment"] \in Evaluations
            BY <2>1 DEF Evaluations
        <3> QED BY <1>2, <2>1, <3>1, EvaluationAssumption DEF LockItem
    <2> QED BY <2>1, <2>2, <2>3, <2>4, NotYetCounted
<1>3. ASSUME NEW r \in Requests, NEW i \in Items, NEW effect \in {"done", "undone", "kept"},
             NEW read \in Limits \cup {None}, NEW step \in {"item", "enrollment"},
             Begin(r, i, effect, read, step)
      PROVE  Counted'
    <2> DEFINE e == [item |-> i, effect |-> effect, limit |-> read, step |-> step,
                     stage |-> 0, total |-> 0, found |-> 0, saw |-> FALSE]
    <2>1. e \in Evaluations /\ e.step = step /\ e.stage = 0 /\ e.total = 0 /\ e.found = 0
        BY DEF Evaluations
    <2>2. request' = [request EXCEPT ![r] = e] /\ UNCHANGED <<courseVars, learnerVars>>
        BY <1>3 DEF Begin
    <2> HIDE DEF e
    <2>3. request'[r] = e /\ \A s \in Requests : s # r => request'[s] = request[s]
        BY <2>2 DEF Counted, Shape, TypeOK
    <2> QED BY <2>1, <2>2, <2>3, NotYetCounted, EvaluationAssumption
<1>4. ASSUME NEW r \in Requests, NEW l \in Lessons, NEW b \in BOOLEAN,
             CompleteLesson(r, l) \/ UpdateLessonProgress(r, l, b)
      PROVE  Counted'
    BY <1>3, <1>4 DEF CompleteLesson, UpdateLessonProgress, Items
<1>5. ASSUME NEW r \in Requests, NEW q \in Quizzes, NEW b \in BOOLEAN, SubmitAttempt(r, q, b)
      PROVE  Counted'
    <2>1. q \in Items /\ limit[q] \in Limits \cup {None}
        BY DEF Items, Counted, Shape, TypeOK
    <2> DEFINE effect == IF b THEN "done" ELSE "kept"
               step == IF limit[q] = None THEN "enrollment" ELSE "item"
    <2>2. Begin(r, q, effect, limit[q], step)
        BY <1>5 DEF SubmitAttempt
    <2>3. effect \in {"done", "undone", "kept"} /\ step \in {"item", "enrollment"}
        OBVIOUS
    <2> HIDE DEF effect, step
    <2> QED BY <1>3, <2>1, <2>2, <2>3
<1>6. ASSUME NEW r \in Requests, NEW a \in Assignments, SubmitAssignment(r, a)
      PROVE  Counted'
    BY <1>3, <1>6 DEF SubmitAssignment, Items
<1>7. CASE LearnerNext
    BY <1>1, <1>2, <1>4, <1>5, <1>6, <1>7, LockCounts, CountCounts, CommitCounts DEF LearnerNext
<1>8. ASSUME UNCHANGED <<request, done, enrollment, state, required, edits>>
      PROVE  Counted'
    <2>1. UNCHANGED <<request, done>> /\ \A k : Needed(k)' = Needed(k)
        BY <1>8 DEF Needed
    <2>2. ASSUME NEW r \in Requests PROVE CountsTrue(r)'
        <3>1. Seen(r)' = Seen(r)
            BY <2>1 DEF Seen
        <3>2. \A k : NeededOf(k)' = NeededOf(k) /\ DoneOf(r, k)' = DoneOf(r, k)
            BY <2>1, <3>1 DEF NeededOf, DoneOf, Completed
        <3> QED BY <1>8, <3>2 DEF Counted, CountsTrue, Evaluating, InFlight
    <2>3. OneEvaluates' /\ FinishedIsCompleted'
        BY <1>8, <2>1 DEF Counted, OneEvaluates, Evaluating, InFlight, FinishedIsCompleted, AllDone
    <2> QED BY <2>2, <2>3 DEF Counted
<1>9. CASE IssueCertificate \/ RevokeCertificate
    BY <1>8, <1>9 DEF IssueCertificate, RevokeCertificate, courseVars
<1>10. CASE EditNext
    <2>1. edits' # 0 /\ UNCHANGED request
        BY <1>10 DEF EditNext, Publish, Delete, SetRequired, SetLimit, Edit, Counted, Shape, TypeOK
    <2> QED BY <2>1 DEF Counted, CountsTrue, OneEvaluates, Evaluating, InFlight, FinishedIsCompleted
<1>11. CASE UNCHANGED vars
    BY <1>8, <1>11 DEF vars, courseVars, learnerVars
<1> QED BY <1>7, <1>9, <1>10, <1>11 DEF Next

-----------------------------------------------------------------------------
(* The theorems *)

\* A course nobody has touched.
LEMMA InitInv == Init => IInv
<1> SUFFICES ASSUME Init
             PROVE  IInv
    OBVIOUS
<1>1. Shape
  <2>1. state \in [Items -> {"hidden", "live", "gone"}]
      BY DEF Init
  <2>2. edits \in 0..MaxEdits
      BY CourseAssumption DEF Init
  <2>3. tries \in [Quizzes -> Nat] /\ request \in [Requests -> Evaluations \cup {None}]
      BY DEF Init
  <2>4. Counting
      BY DEF Init, Counting, InFlight
  <2>5. QED
      BY <2>1, <2>2, <2>3, <2>4 DEF Init, Shape, TypeOK
<1>2. PeakHolds
  <2> SUFFICES ASSUME NEW q \in Quizzes, peak[q] # None
               PROVE  limit[q] # None /\ limit[q] <= peak[q]
      BY DEF PeakHolds
  <2>1. limit[q] = peak[q] /\ peak[q] \in Limits
      BY DEF Init
  <2>2. peak[q] \in Nat
      BY <2>1, CourseAssumption
  <2>3. QED
      BY <2>1, <2>2
<1>3. ReadHolds /\ WaitsWithLimit /\ HeldByOne /\ RoomLeft
    BY DEF Init, ReadHolds, WaitsWithLimit, HeldByOne, RoomLeft, Holding, InFlight
<1>4. AttemptsWithinLimit
  <2> SUFFICES ASSUME NEW q \in Quizzes, peak[q] # None
               PROVE  tries[q] <= peak[q]
      BY DEF AttemptsWithinLimit
  <2>1. tries[q] = 0 /\ peak[q] \in Limits
      BY DEF Init
  <2>2. peak[q] \in Nat
      BY <2>1, CourseAssumption
  <2>3. QED
      BY <2>1, <2>2
<1>5. QED
    BY <1>1, <1>2, <1>3, <1>4 DEF IInv

\* Every step keeps the invariant.
LEMMA NextInv == IInv /\ [Next]_vars => IInv'
<1> SUFFICES ASSUME IInv, [Next]_vars
             PROVE  IInv'
    OBVIOUS
<1>1. ASSUME NEW r \in Requests, NEW l \in Lessons, CompleteLesson(r, l)
      PROVE  IInv'
  <2>1. l \in Items /\ l \notin Quizzes
      BY CourseAssumption DEF Items
  <2>2. QED
      BY <1>1, <2>1, BeginKeeps DEF CompleteLesson
<1>2. ASSUME NEW r \in Requests, NEW l \in Lessons, NEW b \in BOOLEAN, UpdateLessonProgress(r, l, b)
      PROVE  IInv'
  <2>1. l \in Items /\ l \notin Quizzes
      BY CourseAssumption DEF Items
  <2>2. QED
      BY <1>2, <2>1, BeginKeeps DEF UpdateLessonProgress
<1>3. ASSUME NEW r \in Requests, NEW q \in Quizzes, NEW b \in BOOLEAN, SubmitAttempt(r, q, b)
      PROVE  IInv'
  <2>1. q \in Items /\ limit[q] \in Limits \cup {None}
      BY DEF Items, IInv, Shape, TypeOK
  <2> DEFINE effect == IF b THEN "done" ELSE "kept"
             step == IF limit[q] = None THEN "enrollment" ELSE "item"
  <2>2. Begin(r, q, effect, limit[q], step)
      BY <1>3 DEF SubmitAttempt
  <2>3. effect \in {"done", "undone", "kept"} /\ step \in {"item", "enrollment"}
      OBVIOUS
  <2>4. step = "enrollment" <=> limit[q] = None
      OBVIOUS
  <2> HIDE DEF effect, step
  <2>5. QED
      BY <2>1, <2>2, <2>3, <2>4, BeginKeeps
<1>4. ASSUME NEW r \in Requests, NEW a \in Assignments, SubmitAssignment(r, a)
      PROVE  IInv'
  <2>1. a \in Items /\ a \notin Quizzes
      BY CourseAssumption DEF Items
  <2>2. QED
      BY <1>4, <2>1, BeginKeeps DEF SubmitAssignment
<1>5. CASE LearnerNext
    BY <1>1, <1>2, <1>3, <1>4, <1>5, LockItemKeeps, EvaluatingKeeps, CommitKeeps, RollbackKeeps
    DEF LearnerNext
<1>6. CASE IssueCertificate \/ RevokeCertificate
  <2>1. UNCHANGED <<request, tries, limit, peak>>
      BY <1>6 DEF IssueCertificate, RevokeCertificate, courseVars
  <2>2. QED
      BY <1>6, <2>1, CertificateType, OthersKeep DEF IInv
<1>7. CASE EditNext
  <2>1. Quizzes \subseteq Items
      BY DEF Items
  <2>2. QED
      BY <1>7, <2>1, EditKeeps, SetLimitKeeps DEF EditNext
<1>8. CASE UNCHANGED vars
  <2>1. Shape'
      BY <1>8 DEF IInv, Shape, TypeOK, Counting, InFlight, vars, courseVars, learnerVars
  <2>2. QED
      BY <1>8, <2>1, OthersKeep DEF vars, courseVars, learnerVars
<1>9. QED
    BY <1>5, <1>6, <1>7, <1>8 DEF Next

\* The values of the variables, however many requests and edits there are.
THEOREM LearningTypeOK == Spec => []TypeOK
<1>1. IInv => TypeOK
    BY DEF IInv, Shape
<1>2. QED
    BY InitInv, NextInv, <1>1, PTL DEF Spec

\* submitAttempt reads max_attempts before its transaction and counts under the
\* quiz's row lock: requests sent at once never exceed the highest limit.
THEOREM AttemptsLimited == Spec => []AttemptsWithinLimit
<1>1. IInv => AttemptsWithinLimit
    BY DEF IInv
<1>2. QED
    BY InitInv, NextInv, <1>1, PTL DEF Spec

\* evaluateAndSync completes the enrollment and issues the certificate in one
\* transaction, and a revoked certificate is replaced, never taken away.
THEOREM CertificateFollows == Spec => []CertificateFollowsCompletion
<1>1. Init => CertificateFollowsCompletion
    BY DEF Init, CertificateFollowsCompletion
<1>2. IInv /\ CertificateFollowsCompletion /\ [Next]_vars => CertificateFollowsCompletion'
  <2> SUFFICES ASSUME IInv, CertificateFollowsCompletion, [Next]_vars
               PROVE  CertificateFollowsCompletion'
      OBVIOUS
  <2> enrollment \in {"active", "completed"} /\ certificate \in {"none", "active", "revoked"}
      BY DEF IInv, Shape, TypeOK
  <2>1. ASSUME UNCHANGED <<enrollment, certificate>>
        PROVE  CertificateFollowsCompletion'
      BY <2>1 DEF CertificateFollowsCompletion
  <2>2. ASSUME NEW r \in Requests, Commit(r)
        PROVE  CertificateFollowsCompletion'
      BY <2>2 DEF Commit, Issuable, Issue, CertificateFollowsCompletion
  <2>3. CASE LearnerNext
    <3>1. \/ \E r \in Requests : Commit(r)
          \/ UNCHANGED <<enrollment, certificate>>
        BY <2>3 DEF LearnerNext, CompleteLesson, UpdateLessonProgress, SubmitAttempt,
            SubmitAssignment, Begin, LockItem, LockEnrollment, Count, Rollback, learnerVars
    <3>2. QED
        BY <2>1, <2>2, <3>1
  <2>4. CASE IssueCertificate \/ RevokeCertificate
      BY <2>4 DEF IssueCertificate, RevokeCertificate, CertificateFollowsCompletion
  <2>5. CASE EditNext
    <3>1. UNCHANGED <<enrollment, certificate>>
        BY <2>5 DEF EditNext, Publish, Delete, SetRequired, SetLimit, Edit, learnerVars
    <3>2. QED
        BY <2>1, <3>1
  <2>6. CASE UNCHANGED vars
      BY <2>1, <2>6 DEF vars, learnerVars
  <2>7. QED
      BY <2>3, <2>4, <2>5, <2>6 DEF Next
<1>3. QED
    BY InitInv, NextInv, <1>1, <1>2, PTL DEF Spec

\* The three together: the claim the run checks of a course in progress.
THEOREM LearningConsistentHolds == Spec => []LearningConsistent
<1>1. TypeOK /\ AttemptsWithinLimit /\ CertificateFollowsCompletion => LearningConsistent
    BY DEF LearningConsistent
<1>2. QED
    BY LearningTypeOK, AttemptsLimited, CertificateFollows, <1>1, PTL
\* evaluateAndSync locks the enrollment before it counts: of the requests that hand in
\* the last items together, the one that commits last completes the course.
THEOREM LastItemCountsHolds == Spec => []LastItemCounts
<1>1. Init => Counted
    <2> SUFFICES ASSUME Init PROVE Counted
        OBVIOUS
    <2>1. Shape
        BY InitInv DEF IInv
    <2>2. ~AllDone(done)
        BY DEF Init, AllDone
    <2> QED BY <2>1, <2>2 DEF Init, Counted, CountsTrue, OneEvaluates, Evaluating, InFlight,
                              FinishedIsCompleted
<1>2. IInv /\ Counted /\ [Next]_vars => Counted'
    BY NextInv, EveryStepCounts DEF IInv
<1>3. Counted => LastItemCounts
    BY DEF Counted, FinishedIsCompleted, LastItemCounts
<1> QED BY InitInv, NextInv, <1>1, <1>2, <1>3, PTL DEF Spec

-----------------------------------------------------------------------------
(* Classrooms: the inductive invariant                                      *)

Times == Slots \cup {Keep}
ClassRow == [state : {"none", "there", "deleted"}, status : {"scheduled", "live", "cancelled"},
             start : Times, end : Times, began : Nat]
AttendanceRow == [joined : Nat, left : Nat, seconds : Nat]

\* What a request relies on from its read on: the schedule or the joining that it read is
\* still there unless another request was about the row at the time.
VisitSound(r) ==
    /\ r = Away \/ r.op \in {"update", "delete", "start", "join", "leave", "leaving"}
    /\ r.op = "update" =>
           /\ r.on \in Classes /\ class[r.on].state # "none" /\ r.start \in Times /\ r.end \in Times
           /\ r.on \notin crossed => Allowed(r.on, r.start, r.end)
    /\ r.op \in {"delete", "start"} =>
           /\ r.on \in Classes /\ class[r.on].state # "none" /\ r.since \in Nat \ {0}
           /\ r.op = "start" /\ r.on \notin crossed => class[r.on].state = "there"
    /\ r.op \in {"join", "leave"} =>
           r.on \in Seats /\ class[r.on[1]].began > 0 /\ r.since \in Nat \ {0}
    /\ r.op = "leaving" =>
           /\ r.on \in Seats /\ r.since \in Nat \ {0} /\ r.joined \in Nat
           /\ attendance[r.on] # NoRow
           /\ r.on \notin crossed => attendance[r.on].joined = r.joined /\ r.joined <= r.since

CrossingsKnown ==
    \A v, w \in Visits :
        v # w /\ visit[v] # Away /\ visit[w] # Away /\ visit[v].on = visit[w].on =>
            visit[v].on \in crossed

\* A session that is live or deleted exists, and one that went live has begun.
ClassesBegun ==
    \A s \in Classes : /\ class[s].state = "none" => class[s] = NoClass
                       /\ class[s].status = "live" => class[s].began > 0

ClassroomsIInv ==
    /\ class \in [Classes -> ClassRow] /\ attendance \in [Seats -> AttendanceRow]
    /\ visit = [v \in Visits |-> visit[v]] /\ crossed \subseteq Classes \cup Seats
    /\ clock \in Nat \ {0}
    /\ \A a \in Seats : attendance[a].joined <= clock
    /\ \A v \in Visits : VisitSound(visit[v])
    /\ CrossingsKnown /\ ClassesBegun /\ SessionsSound /\ AttendanceSound

\* No session is scheduled.
LEMMA ClassroomsInitInvariant == ClassroomsInit => ClassroomsIInv
<1> SUFFICES ASSUME ClassroomsInit PROVE ClassroomsIInv
    OBVIOUS
<1> USE DEF ClassroomsInit
<1>1. class \in [Classes -> ClassRow] /\ attendance \in [Seats -> AttendanceRow]
    BY DEF ClassRow, AttendanceRow, NoClass, NoRow, Times, Keep
<1>2. \A v \in Visits : visit[v] = Away /\ VisitSound(visit[v])
    BY DEF VisitSound, Away
<1>3. ClassesBegun /\ SessionsSound /\ AttendanceSound
    BY DEF ClassesBegun, SessionsSound, AttendanceSound, NoClass
<1>4. \A a \in Seats : attendance[a].joined <= clock
    BY DEF NoRow
<1> QED BY <1>1, <1>2, <1>3, <1>4 DEF ClassroomsIInv, CrossingsKnown

\* The rows that two requests in flight are about.
CrossingRows ==
    {visit[v].on : v \in {w \in Visits : visit[w] # Away /\
        \E x \in Visits \ {w} : visit[x] # Away /\ visit[x].on = visit[w].on}}

CrossingNoted == crossed' = crossed \cup CrossingRows'

\* Every step notes the crossings of the requests it leaves in flight.
LEMMA CrossingsStep ==
    ASSUME ClassroomsIInv, CrossingNoted, \A v \in Visits : VisitSound(visit[v])'
    PROVE  CrossingsKnown' /\ crossed' \subseteq Classes \cup Seats /\ crossed \subseteq crossed'
<1>1. \A v \in Visits : visit'[v] # Away => visit'[v].on \in Classes \cup Seats
    BY DEF VisitSound
<1>2. CrossingsKnown'
    BY DEF CrossingsKnown, CrossingRows, CrossingNoted
<1>3. CrossingRows' \subseteq Classes \cup Seats
    BY <1>1 DEF CrossingRows
<1> QED BY <1>2, <1>3 DEF CrossingNoted, ClassroomsIInv

\* What another request relies on is kept, unless the step writes the row it is about.
LEMMA OthersRelyOn ==
    ASSUME ClassroomsIInv, crossed \subseteq crossed', NEW v \in Visits, visit'[v] = visit[v],
           \A s \in Classes : /\ class[s].state # "none" => class'[s].state # "none"
                              /\ class[s].began > 0 => class'[s].began > 0,
           \A s \in Classes : visit[v].op \in {"update", "start"} /\ visit[v].on = s /\ s \notin crossed' =>
               /\ class'[s].start = class[s].start /\ class'[s].end = class[s].end
               /\ class'[s].state = class[s].state,
           \A a \in Seats : attendance[a] # NoRow => attendance'[a] # NoRow,
           \A a \in Seats : visit[v].op = "leaving" /\ visit[v].on = a /\ a \notin crossed' =>
               attendance'[a].joined = attendance[a].joined
    PROVE  VisitSound(visit[v])'
<1>0. PICK r : r = visit[v]
    OBVIOUS
<1>1. VisitSound(r)
    BY <1>0 DEF ClassroomsIInv
<1>2. r.op \in {"join", "leave"} => r.on[1] \in Classes
    BY <1>1 DEF VisitSound, Seats
<1>3. r.op = "update" =>
          /\ r.on \in Classes /\ class'[r.on].state # "none" /\ r.start \in Times /\ r.end \in Times
          /\ r.on \notin crossed' => Allowed(r.on, r.start, r.end)'
    BY <1>0, <1>1 DEF VisitSound, Allowed
<1>4. r.op \in {"delete", "start"} =>
          /\ r.on \in Classes /\ class'[r.on].state # "none" /\ r.since \in Nat \ {0}
          /\ r.op = "start" /\ r.on \notin crossed' => class'[r.on].state = "there"
    BY <1>0, <1>1 DEF VisitSound
<1>5. r.op \in {"join", "leave"} =>
          r.on \in Seats /\ class'[r.on[1]].began > 0 /\ r.since \in Nat \ {0}
    BY <1>1, <1>2 DEF VisitSound
<1>6. r.op = "leaving" =>
          /\ r.on \in Seats /\ r.since \in Nat \ {0} /\ r.joined \in Nat
          /\ attendance'[r.on] # NoRow
          /\ r.on \notin crossed' => attendance'[r.on].joined = r.joined /\ r.joined <= r.since
    BY <1>0, <1>1 DEF VisitSound
<1>7. r = Away \/ r.op \in {"update", "delete", "start", "join", "leave", "leaving"}
    BY <1>1 DEF VisitSound
<1>8. VisitSound(r)'
    BY <1>3, <1>4, <1>5, <1>6, <1>7 DEF VisitSound
<1> QED BY <1>0, <1>8

\* A request begins, reads or stops, or time passes.
LEMMA QuietVisit ==
    ASSUME ClassroomsIInv, CrossingNoted, UNCHANGED <<class, attendance>>,
           clock' \in Nat, clock <= clock',
           (visit = [v \in Visits |-> visit[v]])',
           \A v \in Visits : visit'[v] = visit[v] \/ VisitSound(visit[v])'
    PROVE  ClassroomsIInv'
<1>1. crossed \subseteq crossed'
    BY DEF CrossingNoted
<1>2. \A v \in Visits : VisitSound(visit[v])'
    BY <1>1, OthersRelyOn
<1>3. CrossingsKnown' /\ crossed' \subseteq Classes \cup Seats
    BY <1>2, CrossingsStep
<1>4. clock' \in Nat \ {0} /\ \A a \in Seats : attendance'[a].joined <= clock'
    BY DEF ClassroomsIInv, AttendanceRow
<1>5. ClassesBegun' /\ SessionsSound' /\ AttendanceSound'
    BY <1>1 DEF ClassroomsIInv, ClassesBegun, SessionsSound, AttendanceSound
<1> QED BY <1>2, <1>3, <1>4, <1>5 DEF ClassroomsIInv

\* A request ends.
LEMMA VisitOver ==
    ASSUME ClassroomsIInv, NEW v \in Visits, Ends(v)
    PROVE  /\ (visit = [w \in Visits |-> visit[w]])' /\ visit'[v] = Away /\ VisitSound(visit[v])'
           /\ \A w \in Visits : w # v => visit'[w] = visit[w]
<1>1. visit = [w \in Visits |-> visit[w]] /\ visit' = [visit EXCEPT ![v] = Away]
    BY DEF ClassroomsIInv, Ends
<1>2. visit'[v] = Away
    BY <1>1
<1> QED BY <1>1, <1>2 DEF VisitSound, Away

\* Whoever reads, decides by what is there.
LEMMA VisitReads ==
    ASSUME ClassroomsIInv, CrossingNoted, NEW v \in Visits,
           \/ \E s \in Classes :
               \/ \E start, end \in Slots \cup {Keep} : UpdateSessionReads(v, s, start, end)
               \/ \E op \in {"delete", "start"} : SessionReads(v, s, op)
           \/ \E a \in Seats, event \in {"join", "leave"} : RecordAttendance(v, a, event)
           \/ LeaveReads(v) \/ VisitEnds(v)
    PROVE  ClassroomsIInv'
<1>1. /\ visit = [w \in Visits |-> visit[w]] /\ clock \in Nat \ {0} /\ ClassesBegun
      /\ attendance \in [Seats -> AttendanceRow] /\ \A a \in Seats : attendance[a].joined <= clock
      /\ \A w \in Visits : VisitSound(visit[w])
    BY DEF ClassroomsIInv
<1>2. ASSUME NEW s \in Classes, NEW start \in Slots \cup {Keep}, NEW end \in Slots \cup {Keep},
             UpdateSessionReads(v, s, start, end)
      PROVE  ClassroomsIInv'
    <2>1. /\ There(s) /\ Allowed(s, start, end) /\ UNCHANGED <<class, attendance, clock>>
          /\ visit' = [visit EXCEPT ![v] = [op |-> "update", on |-> s, start |-> start, end |-> end]]
        BY <1>2 DEF UpdateSessionReads, Begins
    <2>2. visit'[v] = [op |-> "update", on |-> s, start |-> start, end |-> end]
        BY <1>1, <2>1
    <2>3. VisitSound(visit[v])'
        BY <2>1, <2>2 DEF VisitSound, There, Allowed, Times
    <2>4. /\ (visit = [w \in Visits |-> visit[w]])'
          /\ \A w \in Visits : visit'[w] = visit[w] \/ VisitSound(visit[w])'
        BY <1>1, <2>1, <2>3
    <2> QED BY <1>1, <2>1, <2>4, QuietVisit
<1>3. ASSUME NEW s \in Classes, NEW op \in {"delete", "start"}, SessionReads(v, s, op)
      PROVE  ClassroomsIInv'
    <2>1. /\ There(s) /\ UNCHANGED <<class, attendance, clock>>
          /\ visit' = [visit EXCEPT ![v] = [op |-> op, on |-> s, since |-> clock]]
        BY <1>3 DEF SessionReads, Begins
    <2>2. visit'[v] = [op |-> op, on |-> s, since |-> clock]
        BY <1>1, <2>1
    <2>3. VisitSound(visit[v])'
        BY <1>1, <2>1, <2>2 DEF VisitSound, There
    <2>4. /\ (visit = [w \in Visits |-> visit[w]])'
          /\ \A w \in Visits : visit'[w] = visit[w] \/ VisitSound(visit[w])'
        BY <1>1, <2>1, <2>3
    <2> QED BY <1>1, <2>1, <2>4, QuietVisit
<1>4. ASSUME NEW a \in Seats, NEW event \in {"join", "leave"}, RecordAttendance(v, a, event)
      PROVE  ClassroomsIInv'
    <2>1. /\ class[a[1]].status = "live" /\ UNCHANGED <<class, attendance, clock>>
          /\ visit' = [visit EXCEPT ![v] = [op |-> event, on |-> a, since |-> clock]]
        BY <1>4 DEF RecordAttendance, Begins
    <2>2. visit'[v] = [op |-> event, on |-> a, since |-> clock]
        BY <1>1, <2>1
    <2>3. class'[a[1]].began > 0
        BY <1>1, <2>1 DEF ClassesBegun, Seats
    <2>4. VisitSound(visit[v])'
        BY <1>1, <2>1, <2>2, <2>3 DEF VisitSound
    <2>5. /\ (visit = [w \in Visits |-> visit[w]])'
          /\ \A w \in Visits : visit'[w] = visit[w] \/ VisitSound(visit[w])'
        BY <1>1, <2>1, <2>4
    <2> QED BY <1>1, <2>1, <2>5, QuietVisit
<1>5. ASSUME LeaveReads(v) PROVE ClassroomsIInv'
    <2>0. PICK a : a = visit[v].on
        OBVIOUS
    <2>1. /\ visit[v].op = "leave" /\ attendance[a] # NoRow /\ UNCHANGED <<class, attendance, clock>>
          /\ visit' = [visit EXCEPT ![v] = [op |-> "leaving", on |-> a, since |-> clock,
                                            joined |-> attendance[a].joined]]
        BY <1>5, <2>0 DEF LeaveReads
    <2>2. visit'[v] = [op |-> "leaving", on |-> a, since |-> clock, joined |-> attendance[a].joined]
        BY <1>1, <2>1
    <2>3. a \in Seats
        BY <1>1, <2>0, <2>1 DEF VisitSound
    <2>4. attendance[a].joined \in Nat /\ attendance[a].joined <= clock
        BY <1>1, <2>3 DEF AttendanceRow
    <2>5. VisitSound(visit[v])'
        BY <1>1, <2>1, <2>2, <2>3, <2>4 DEF VisitSound
    <2>6. /\ (visit = [w \in Visits |-> visit[w]])'
          /\ \A w \in Visits : visit'[w] = visit[w] \/ VisitSound(visit[w])'
        BY <1>1, <2>1, <2>5
    <2> QED BY <1>1, <2>1, <2>6, QuietVisit
<1>6. ASSUME VisitEnds(v) PROVE ClassroomsIInv'
    <2>1. Ends(v) /\ UNCHANGED <<class, attendance, clock>>
        BY <1>6 DEF VisitEnds
    <2>2. /\ (visit = [w \in Visits |-> visit[w]])'
          /\ \A w \in Visits : visit'[w] = visit[w] \/ VisitSound(visit[w])'
        BY <2>1, VisitOver
    <2> QED BY <1>1, <2>1, <2>2, QuietVisit
<1> QED BY <1>2, <1>3, <1>4, <1>5, <1>6

\* A session is written by its creation or by a request that is about it: what other requests
\* rely on is theirs alone only if nobody else is about the row.
LEMMA SessionWritten ==
    ASSUME ClassroomsIInv, CrossingNoted, UNCHANGED <<attendance, clock>>,
           NEW s \in Classes, class' = [class EXCEPT ![s] = class'[s]], class'[s] \in ClassRow,
           class'[s].state # "none",
           class[s].began > 0 \/ class'[s].status = "live" => class'[s].began > 0,
           s \notin crossed' => /\ class'[s].start < class'[s].end
                                /\ class'[s].state = "deleted" => class'[s].status = "cancelled",
           \/ class[s].state = "none" /\ visit' = visit
           \/ \E v \in Visits : visit[v] # Away /\ visit[v].on = s /\ Ends(v)
    PROVE  ClassroomsIInv'
<1>1. /\ visit = [w \in Visits |-> visit[w]] /\ class \in [Classes -> ClassRow]
      /\ attendance \in [Seats -> AttendanceRow] /\ \A w \in Visits : VisitSound(visit[w])
      /\ ClassesBegun /\ SessionsSound /\ AttendanceSound /\ CrossingsKnown
    BY DEF ClassroomsIInv
<1>2. crossed \subseteq crossed'
    BY DEF CrossingNoted
<1>3. class' \in [Classes -> ClassRow] /\ \A c \in Classes : c # s => class'[c] = class[c]
    BY <1>1
<1>4. /\ (visit = [w \in Visits |-> visit[w]])'
      /\ \A w \in Visits : visit'[w] = visit[w] \/ visit'[w] = Away
    BY <1>1 DEF Ends
<1>5. \A c \in Classes : /\ class[c].state # "none" => class'[c].state # "none"
                         /\ class[c].began > 0 => class'[c].began > 0
    BY <1>3
<1>6. ASSUME NEW w \in Visits PROVE VisitSound(visit[w])'
    <2>1. CASE visit'[w] = Away
        BY <2>1 DEF VisitSound, Away
    <2>2. CASE visit'[w] # Away
        <3>1. visit'[w] = visit[w]
            BY <1>4, <2>2
        <3>2. ASSUME visit[w].op \in {"update", "start"}, visit[w].on = s, s \notin crossed'
              PROVE  FALSE
            <4>1. class[s].state # "none"
                BY <1>1, <3>2 DEF VisitSound
            <4>2. PICK v \in Visits : visit[v] # Away /\ visit[v].on = s /\ Ends(v)
                BY <4>1
            <4>3. v # w
                BY <1>1, <2>2, <4>2 DEF Ends
            <4> QED BY <1>1, <1>2, <2>2, <3>1, <3>2, <4>2, <4>3 DEF CrossingsKnown
        <3>3. \A c \in Classes : visit[w].op \in {"update", "start"} /\ visit[w].on = c /\ c \notin crossed' =>
                  /\ class'[c].start = class[c].start /\ class'[c].end = class[c].end
                  /\ class'[c].state = class[c].state
            BY <1>3, <3>2
        <3> QED BY <1>2, <1>5, <3>1, <3>3, OthersRelyOn
    <2> QED BY <2>1, <2>2
<1>7. CrossingsKnown' /\ crossed' \subseteq Classes \cup Seats
    BY <1>6, CrossingsStep
<1>8. ClassesBegun'
    BY <1>1, <1>3 DEF ClassesBegun
<1>9. SessionsSound'
    BY <1>1, <1>2, <1>3 DEF SessionsSound
<1>10. AttendanceSound'
    <2>1. \A a \in Seats : a[1] \in Classes
        BY DEF Seats
    <2> QED BY <1>1, <1>2, <1>5, <2>1 DEF AttendanceSound
<1> QED BY <1>3, <1>4, <1>6, <1>7, <1>8, <1>9, <1>10 DEF ClassroomsIInv

\* Sessions are scheduled, moved, deleted and started.
LEMMA SessionStep ==
    ASSUME ClassroomsIInv, CrossingNoted,
           \/ \E s \in Classes, start, end \in Slots : CreateSession(s, start, end)
           \/ \E v \in Visits : UpdateSession(v) \/ DeleteSession(v) \/ StartSession(v)
    PROVE  ClassroomsIInv'
<1>1. /\ visit = [w \in Visits |-> visit[w]] /\ class \in [Classes -> ClassRow]
      /\ \A w \in Visits : VisitSound(visit[w]) /\ clock \in Nat \ {0}
      /\ ClassesBegun /\ SessionsSound
    BY DEF ClassroomsIInv
<1>2. crossed \subseteq crossed'
    BY DEF CrossingNoted
<1>3. ASSUME NEW s \in Classes, NEW start \in Slots, NEW end \in Slots, CreateSession(s, start, end)
      PROVE  ClassroomsIInv'
    <2>1. /\ class[s].state = "none" /\ start < end /\ UNCHANGED <<attendance, visit, clock>>
          /\ class' = [class EXCEPT ![s] = [state |-> "there", status |-> "scheduled", start |-> start,
                                            end |-> end, began |-> Keep]]
        BY <1>3 DEF CreateSession, ValidSchedule
    <2>2. class'[s] = [state |-> "there", status |-> "scheduled", start |-> start, end |-> end,
                       began |-> Keep]
        BY <1>1, <2>1
    <2>3. class'[s] \in ClassRow /\ class[s] = NoClass
        BY <1>1, <2>1, <2>2 DEF ClassRow, Times, Keep, ClassesBegun
    <2>4. class' = [class EXCEPT ![s] = class'[s]] /\ ~(class[s].began > 0)
        <3>1. class' = [class EXCEPT ![s] = class'[s]]
            BY <1>1, <2>1, <2>2
        <3>2. class[s].began = 0
            BY <2>3 DEF NoClass, Keep
        <3> QED BY <3>1, <3>2
    <2>5. /\ class'[s].state = "there" /\ class'[s].status = "scheduled"
          /\ class'[s].start = start /\ class'[s].end = end
        BY <2>2
    <2>6. class'[s].start < class'[s].end
        BY <2>1, <2>5
    <2>7. UNCHANGED <<attendance, clock>> /\ visit' = visit
        BY <2>1
    <2>8. class[s].state = "none"
        BY <2>1
    <2> QED BY <2>3, <2>4, <2>5, <2>6, <2>7, <2>8, SessionWritten
<1>4. ASSUME NEW v \in Visits, UpdateSession(v) PROVE ClassroomsIInv'
    <2>0. PICK s : s = visit[v].on
        OBVIOUS
    <2>1. /\ visit[v].op = "update" /\ Ends(v) /\ UNCHANGED <<attendance, clock>>
          /\ class' = [class EXCEPT ![s].start = Merge(visit[v].start, class[s].start),
                                    ![s].end = Merge(visit[v].end, class[s].end)]
        BY <1>4, <2>0 DEF UpdateSession
    <2>2. /\ s \in Classes /\ class[s].state # "none" /\ visit[v].start \in Times /\ visit[v].end \in Times
          /\ s \notin crossed => Allowed(s, visit[v].start, visit[v].end)
          /\ visit[v] # Away
        BY <1>1, <2>0, <2>1 DEF VisitSound, Away
    <2>3. PICK row \in ClassRow : row = class[s]
        BY <1>1, <2>2
    <2>4. PICK new : new = [row EXCEPT !.start = Merge(visit[v].start, row.start),
                                       !.end = Merge(visit[v].end, row.end)]
        OBVIOUS
    <2>5. /\ new \in ClassRow /\ new.state = row.state /\ new.status = row.status /\ new.began = row.began
          /\ new.start = Merge(visit[v].start, row.start) /\ new.end = Merge(visit[v].end, row.end)
        BY <2>2, <2>3, <2>4 DEF ClassRow, Merge
    <2>6. class' = [class EXCEPT ![s] = new]
        BY <1>1, <2>1, <2>2, <2>3, <2>4 DEF ClassRow
    <2>7. class'[s] = new /\ class' = [class EXCEPT ![s] = class'[s]]
        BY <1>1, <2>2, <2>6
    <2>8. s \notin crossed' => /\ new.start < new.end
                               /\ new.state = "deleted" => new.status = "cancelled"
        <3>1. ASSUME s \notin crossed'
              PROVE  /\ row.start < row.end /\ (row.state = "deleted" => row.status = "cancelled")
                     /\ Allowed(s, visit[v].start, visit[v].end)
            BY <1>1, <1>2, <2>2, <2>3, <3>1 DEF SessionsSound
        <3> QED BY <2>3, <2>5, <3>1 DEF Allowed, Merge, ValidSchedule
    <2>9. new.status = "live" \/ class[s].began > 0 => new.began > 0
        BY <1>1, <2>2, <2>3, <2>5 DEF ClassesBegun
    <2>10. \E w \in Visits : visit[w] # Away /\ visit[w].on = s /\ Ends(w)
        BY <2>0, <2>1, <2>2
    <2> QED BY <2>1, <2>2, <2>3, <2>5, <2>7, <2>8, <2>9, <2>10, SessionWritten
<1>5. ASSUME NEW v \in Visits, DeleteSession(v) PROVE ClassroomsIInv'
    <2>0. PICK s : s = visit[v].on
        OBVIOUS
    <2>1. /\ visit[v].op = "delete" /\ Ends(v) /\ UNCHANGED <<attendance, clock>>
          /\ class' = [class EXCEPT ![s].state = "deleted", ![s].status = "cancelled"]
        BY <1>5, <2>0 DEF DeleteSession
    <2>2. s \in Classes /\ class[s].state # "none" /\ visit[v] # Away
        BY <1>1, <2>0, <2>1 DEF VisitSound, Away
    <2>3. PICK row \in ClassRow : row = class[s]
        BY <1>1, <2>2
    <2>4. PICK new : new = [row EXCEPT !.state = "deleted", !.status = "cancelled"]
        OBVIOUS
    <2>5. /\ new \in ClassRow /\ new.state = "deleted" /\ new.status = "cancelled" /\ new.began = row.began
          /\ new.start = row.start /\ new.end = row.end
        BY <2>3, <2>4 DEF ClassRow
    <2>6. class' = [class EXCEPT ![s] = new]
        BY <1>1, <2>1, <2>2, <2>3, <2>4 DEF ClassRow
    <2>7. class'[s] = new /\ class' = [class EXCEPT ![s] = class'[s]]
        BY <1>1, <2>2, <2>6
    <2>8. s \notin crossed' => row.start < row.end
        BY <1>1, <1>2, <2>2, <2>3 DEF SessionsSound
    <2>9. \E w \in Visits : visit[w] # Away /\ visit[w].on = s /\ Ends(w)
        BY <2>0, <2>1, <2>2
    <2> QED BY <2>1, <2>2, <2>3, <2>5, <2>7, <2>8, <2>9, SessionWritten
<1>6. ASSUME NEW v \in Visits, StartSession(v) PROVE ClassroomsIInv'
    <2>0. PICK s : s = visit[v].on
        OBVIOUS
    <2>1. /\ visit[v].op = "start" /\ Ends(v) /\ UNCHANGED <<attendance, clock>>
          /\ \E now \in visit[v].since .. clock :
                 class' = [class EXCEPT ![s].status = "live", ![s].began = now]
        BY <1>6, <2>0 DEF StartSession, TimeOf
    <2>2. /\ s \in Classes /\ class[s].state # "none" /\ visit[v] # Away
          /\ visit[v].since \in Nat \ {0}
          /\ s \notin crossed => class[s].state = "there"
        BY <1>1, <2>0, <2>1 DEF VisitSound, Away
    <2>3. PICK now \in visit[v].since .. clock :
              class' = [class EXCEPT ![s].status = "live", ![s].began = now]
        BY <2>1
    <2>4. PICK row \in ClassRow : row = class[s]
        BY <1>1, <2>2
    <2>5. PICK new : new = [row EXCEPT !.status = "live", !.began = now]
        OBVIOUS
    <2>6. now \in Nat /\ now > 0
        BY <1>1, <2>2, <2>3
    <2>7. /\ new \in ClassRow /\ new.state = row.state /\ new.status = "live" /\ new.began = now
          /\ new.start = row.start /\ new.end = row.end
        BY <2>4, <2>5, <2>6 DEF ClassRow
    <2>8. class' = [class EXCEPT ![s] = new]
        BY <1>1, <2>2, <2>3, <2>4, <2>5 DEF ClassRow
    <2>9. class'[s] = new /\ class' = [class EXCEPT ![s] = class'[s]]
        BY <1>1, <2>2, <2>8
    <2>10. s \notin crossed' => row.start < row.end /\ row.state = "there"
        BY <1>1, <1>2, <2>2, <2>4 DEF SessionsSound
    <2>11. \E w \in Visits : visit[w] # Away /\ visit[w].on = s /\ Ends(w)
        BY <2>0, <2>1, <2>2
    <2> QED BY <2>1, <2>2, <2>4, <2>6, <2>7, <2>9, <2>10, <2>11, SessionWritten
<1> QED BY <1>3, <1>4, <1>5, <1>6

\* The attendance of a learner is written by a request that is about it.
LEMMA AttendanceWritten ==
    ASSUME ClassroomsIInv, CrossingNoted, UNCHANGED <<class, clock>>,
           NEW a \in Seats, attendance' = [attendance EXCEPT ![a] = attendance'[a]],
           attendance'[a] \in AttendanceRow, 0 < attendance'[a].joined, attendance'[a].joined <= clock,
           class[a[1]].began > 0,
           attendance'[a].left > 0 /\ a \notin crossed' =>
               attendance'[a].left = attendance'[a].joined + attendance'[a].seconds,
           \E v \in Visits : visit[v] # Away /\ visit[v].on = a /\ Ends(v)
    PROVE  ClassroomsIInv'
<1>1. /\ visit = [w \in Visits |-> visit[w]] /\ attendance \in [Seats -> AttendanceRow]
      /\ \A w \in Visits : VisitSound(visit[w]) /\ \A b \in Seats : attendance[b].joined <= clock
      /\ ClassesBegun /\ SessionsSound /\ AttendanceSound /\ CrossingsKnown
    BY DEF ClassroomsIInv
<1>2. crossed \subseteq crossed'
    BY DEF CrossingNoted
<1>3. /\ attendance' \in [Seats -> AttendanceRow]
      /\ \A b \in Seats : b # a => attendance'[b] = attendance[b]
    BY <1>1
<1>4. attendance'[a] # NoRow
    BY DEF NoRow
<1>5. PICK v \in Visits : visit[v] # Away /\ visit[v].on = a /\ Ends(v)
    OBVIOUS
<1>6. /\ (visit = [w \in Visits |-> visit[w]])' /\ visit'[v] = Away
      /\ \A w \in Visits : w # v => visit'[w] = visit[w]
    BY <1>1, <1>5 DEF Ends
<1>7. ASSUME NEW w \in Visits PROVE VisitSound(visit[w])'
    <2>1. CASE w = v
        BY <1>6, <2>1 DEF VisitSound, Away
    <2>2. CASE w # v
        <3>1. ASSUME visit[w].op = "leaving", visit[w].on = a, a \notin crossed' PROVE FALSE
            <4>1. visit[w] # Away
                BY <3>1 DEF Away
            <4> QED BY <1>1, <1>2, <1>5, <2>2, <3>1, <4>1 DEF CrossingsKnown
        <3>2. \A b \in Seats : visit[w].op = "leaving" /\ visit[w].on = b /\ b \notin crossed' =>
                  attendance'[b].joined = attendance[b].joined
            BY <1>3, <3>1
        <3>3. \A b \in Seats : attendance[b] # NoRow => attendance'[b] # NoRow
            BY <1>3, <1>4
        <3>4. visit'[w] = visit[w]
            BY <1>6, <2>2
        <3> QED BY <1>2, <3>2, <3>3, <3>4, OthersRelyOn
    <2> QED BY <2>1, <2>2
<1>8. CrossingsKnown' /\ crossed' \subseteq Classes \cup Seats
    BY <1>7, CrossingsStep
<1>9. ClassesBegun' /\ SessionsSound'
    BY <1>1, <1>2 DEF ClassesBegun, SessionsSound
<1>10. AttendanceSound'
    BY <1>1, <1>2, <1>3 DEF AttendanceSound
<1>11. \A b \in Seats : attendance'[b].joined <= clock'
    BY <1>1, <1>3
<1>12. class' \in [Classes -> ClassRow] /\ clock' \in Nat \ {0}
    BY DEF ClassroomsIInv
<1> QED BY <1>3, <1>6, <1>7, <1>8, <1>9, <1>10, <1>11, <1>12 DEF ClassroomsIInv

\* A learner joins at a time no later than now, and leaves no earlier than he joined.
LEMMA AttendanceStep ==
    ASSUME ClassroomsIInv, CrossingNoted, NEW v \in Visits, RecordJoin(v) \/ RecordLeave(v)
    PROVE  ClassroomsIInv'
<1>1. /\ attendance \in [Seats -> AttendanceRow] /\ VisitSound(visit[v]) /\ clock \in Nat \ {0}
      /\ AttendanceSound /\ \A b \in Seats : attendance[b].joined <= clock
    BY DEF ClassroomsIInv
<1>2. crossed \subseteq crossed'
    BY DEF CrossingNoted
<1>3. PICK a : a = visit[v].on
    OBVIOUS
<1>4. CASE RecordJoin(v)
    <2>1. visit[v].op = "join" /\ Ends(v) /\ UNCHANGED <<class, clock>>
        BY <1>4 DEF RecordJoin
    <2>2. PICK now \in visit[v].since .. clock :
              attendance' = [attendance EXCEPT ![a] = [joined |-> now, left |-> 0, seconds |-> 0]]
        BY <1>3, <1>4 DEF RecordJoin, TimeOf
    <2>3. a \in Seats /\ class[a[1]].began > 0 /\ visit[v].since \in Nat \ {0} /\ visit[v] # Away
        BY <1>1, <1>3, <2>1 DEF VisitSound, Away
    <2>4. now \in Nat /\ 0 < now /\ now <= clock
        BY <1>1, <2>2, <2>3
    <2>5. attendance'[a] = [joined |-> now, left |-> 0, seconds |-> 0]
          /\ attendance' = [attendance EXCEPT ![a] = attendance'[a]]
        BY <1>1, <2>2, <2>3
    <2>6. attendance'[a] \in AttendanceRow
        BY <2>4, <2>5 DEF AttendanceRow
    <2>7. \E w \in Visits : visit[w] # Away /\ visit[w].on = a /\ Ends(w)
        BY <1>3, <2>1, <2>3
    <2> QED BY <2>1, <2>3, <2>4, <2>5, <2>6, <2>7, AttendanceWritten
<1>5. CASE RecordLeave(v)
    <2>1. visit[v].op = "leaving" /\ Ends(v) /\ UNCHANGED <<class, clock>>
        BY <1>5 DEF RecordLeave
    <2>2. PICK now \in visit[v].since .. clock :
              attendance' = [attendance EXCEPT ![a].left = now,
                  ![a].seconds = IF visit[v].joined < now THEN now - visit[v].joined ELSE 0]
        BY <1>3, <1>5 DEF RecordLeave, TimeOf
    <2>3. /\ a \in Seats /\ visit[v].since \in Nat \ {0} /\ visit[v].joined \in Nat /\ visit[v] # Away
          /\ attendance[a] # NoRow
          /\ a \notin crossed => attendance[a].joined = visit[v].joined /\ visit[v].joined <= visit[v].since
        BY <1>1, <1>3, <2>1 DEF VisitSound, Away
    <2>4. now \in Nat /\ 0 < now /\ now <= clock /\ visit[v].since <= now
        BY <1>1, <2>2, <2>3
    <2>5. class[a[1]].began > 0 /\ attendance[a].joined > 0
        BY <1>1, <2>3 DEF AttendanceSound
    <2>6. PICK row \in AttendanceRow : row = attendance[a]
        BY <1>1, <2>3
    <2>7. PICK seconds : seconds = IF visit[v].joined < now THEN now - visit[v].joined ELSE 0
        OBVIOUS
    <2>8. seconds \in Nat /\ (a \notin crossed' => now = row.joined + seconds)
        BY <1>2, <2>3, <2>4, <2>6, <2>7
    <2>9. PICK new : new = [row EXCEPT !.left = now, !.seconds = seconds]
        OBVIOUS
    <2>10. new \in AttendanceRow /\ new.joined = row.joined /\ new.left = now /\ new.seconds = seconds
        BY <2>4, <2>6, <2>8, <2>9 DEF AttendanceRow
    <2>11. attendance' = [attendance EXCEPT ![a] = new]
        BY <1>1, <2>2, <2>3, <2>6, <2>7, <2>9 DEF AttendanceRow
    <2>12. attendance'[a] = new /\ attendance' = [attendance EXCEPT ![a] = attendance'[a]]
        BY <1>1, <2>3, <2>11
    <2>13. \E w \in Visits : visit[w] # Away /\ visit[w].on = a /\ Ends(w)
        BY <1>3, <2>1, <2>3
    <2>14. row.joined > 0 /\ row.joined <= clock
        BY <1>1, <2>3, <2>5, <2>6
    <2> QED BY <2>1, <2>3, <2>5, <2>8, <2>10, <2>12, <2>13, <2>14, AttendanceWritten
<1> QED BY <1>4, <1>5

\* Every step of a request or of the clock.
LEMMA ClassroomsStep == ClassroomsIInv /\ [ClassroomsNext]_classroomVars => ClassroomsIInv'
<1>1. ASSUME ClassroomsIInv, ClassroomsNext PROVE ClassroomsIInv'
    <2>1. CrossingNoted
        BY <1>1 DEF ClassroomsNext, CrossingNoted, CrossingRows
    <2>2. ASSUME ClockTicks PROVE ClassroomsIInv'
        <3>1. clock' = clock + 1 /\ UNCHANGED <<class, attendance, visit>> /\ clock \in Nat
              /\ (visit = [v \in Visits |-> visit[v]])'
            BY <1>1, <2>2 DEF ClockTicks, ClassroomsIInv
        <3> QED BY <1>1, <2>1, <3>1, QuietVisit
    <2> QED BY <1>1, <2>1, <2>2, VisitReads, SessionStep, AttendanceStep DEF ClassroomsNext
<1>2. ASSUME ClassroomsIInv, UNCHANGED classroomVars PROVE ClassroomsIInv'
    BY <1>2 DEF classroomVars, ClassroomsIInv, VisitSound, Allowed, CrossingsKnown, ClassesBegun,
                SessionsSound, AttendanceSound
<1> QED BY <1>1, <1>2

\* Whatever requests cross, a session or an attendance that only one request at a time was about
\* holds what was checked: it begins before it ends, and the time counted is the time attended.
THEOREM ClassroomsConsistentHolds == ClassroomsSpec => []ClassroomsConsistent
<1>1. ClassroomsIInv => ClassroomsConsistent
    BY DEF ClassroomsIInv, ClassroomsConsistent, ClassroomsTypeOK, ClassRow, AttendanceRow, Times
<1> QED BY ClassroomsInitInvariant, ClassroomsStep, <1>1, PTL DEF ClassroomsSpec

-----------------------------------------------------------------------------
(* Coursework                                                               *)

\* A score that the paper can give and that is passed as some passing score says.
Fair(score, maximum, passed) ==
    /\ score <= maximum
    /\ passed => \E p \in PassingScores : PassedAt(score, maximum, p)

QuizRow == [row : Authored, passing : PassingScores, limit : AttemptLimits]
QuestionRow == {NoQuestion} \cup [points : Points, order : Orders, key : Keys]
SittingRow == {Resting} \cup
    [step : {"opened"}, learner : Learners, passing : PassingScores, limit : AttemptLimits] \cup
    [step : {"marked"}, learner : Learners, limit : AttemptLimits, maximum : Nat, score : Nat,
     passed : BOOLEAN]

\* What a sitting will store was marked against one reading of the questions.
QuizIInv ==
    /\ quiz \in QuizRow /\ questions \in [QuestionIds -> QuestionRow]
    /\ sittings \in [Handins -> SittingRow]
    /\ \A c \in Handins : sittings[c].step = "marked" =>
           Fair(sittings[c].score, sittings[c].maximum, sittings[c].passed)
    /\ ScoreWithinPaper

AssignmentRow == [row : Authored, policy : {"latest", "highest"}, maximum : Scores]
SubmissionRow == [learner : Learners, version : 1..MaxVersions, score : Scores \cup {NoScore}]
HandingRow == {Resting} \cup [step : {"opened"}, learner : Learners] \cup
    [step : {"numbered"}, learner : Learners, version : 1..MaxVersions]
GradingRow == {Resting} \cup
    [step : {"judged"}, learner : Learners, version : 1..MaxVersions,
     before : Scores \cup {NoScore}, score : Scores]

\* One call at a time holds the assignment row, so the number it took stays free; there is one
\* submission of a version; and the grades that were given have a greatest.
AssignmentIInv ==
    /\ assignment \in AssignmentRow /\ submissions \subseteq SubmissionRow
    /\ handing \in [Handins -> HandingRow] /\ grading \in [Markers -> GradingRow]
    /\ \A c, d \in Handins : handing[c].step = "numbered" /\ handing[d].step = "numbered" => c = d
    /\ \A s, t \in submissions : SameWork(s, t) => s = t
    /\ \E n \in Nat : \A s \in submissions : s.score <= n
    /\ EveryHandInKept /\ GradeIsAudited

ProgressRow == [last : Nat, furthest : Nat, watched : 0..Duration, pages : 0..100, percent : 0..100]
ReportRow == {Resting} \cup [step : {"read"}, on : Learners \X Kinds, row : ProgressRow]

\* n reports lead no further than this.
Played(row, n) == row.last <= row.furthest /\ row.furthest <= 5 * n

\* What a report read is bounded by the reports there were, so by those there are.
ProgressIInv ==
    /\ progress \in [Learners \X Kinds -> ProgressRow] /\ reports \in [Learners \X Kinds -> Nat]
    /\ watching \in [Handins -> ReportRow]
    /\ \A x \in Learners \X Kinds : Played(progress[x], reports[x])
    /\ \A c \in Handins : watching[c].step = "read" =>
           Played(watching[c].row, reports[watching[c].on])

CourseworkIInv ==
    /\ publishing \in [quiz : BOOLEAN, assignment : BOOLEAN]
    /\ QuizIInv /\ AssignmentIInv /\ ProgressIInv

\* Nothing is authored, handed in or reported.
LEMMA CourseworkInitInvariant == CourseworkInit => CourseworkIInv
<1> SUFFICES ASSUME CourseworkInit PROVE CourseworkIInv
    OBVIOUS
<1> USE DEF CourseworkInit
<1>1. publishing \in [quiz : BOOLEAN, assignment : BOOLEAN]
    OBVIOUS
<1>2. QuizIInv
    <2>1. quiz \in QuizRow
        <3>1. PICK p \in PassingScores, m \in AttemptLimits :
                  quiz = [row |-> Draft, passing |-> p, limit |-> m]
            OBVIOUS
        <3>2. Draft \in Authored
            BY DEF Draft, Authored
        <3> QED BY <3>1, <3>2 DEF QuizRow
    <2>4. questions \in [QuestionIds -> QuestionRow]
        BY DEF QuestionRow
    <2>2. \A c \in Handins : sittings[c].step = "idle"
        BY DEF Resting
    <2>3. sittings \in [Handins -> SittingRow]
        BY DEF SittingRow
    <2> QED BY <2>1, <2>2, <2>3, <2>4 DEF QuizIInv, ScoreWithinPaper
<1>3. AssignmentIInv
    <2>1. assignment \in AssignmentRow
        <3>1. PICK p \in {"latest", "highest"}, m \in Scores :
                  assignment = [row |-> Draft, policy |-> p, maximum |-> m]
            OBVIOUS
        <3>2. Draft \in Authored
            BY DEF Draft, Authored
        <3> QED BY <3>1, <3>2 DEF AssignmentRow
    <2>2. \A c \in Handins : handing[c].step = "idle"
        BY DEF Resting
    <2>3. handing \in [Handins -> HandingRow] /\ grading \in [Markers -> GradingRow]
        BY DEF HandingRow, GradingRow
    <2>4. \E n \in Nat : \A s \in submissions : s.score <= n
        OBVIOUS
    <2> QED BY <2>1, <2>2, <2>3, <2>4 DEF AssignmentIInv, EveryHandInKept, GradeIsAudited
<1>4. ProgressIInv
    <2>1. NoProgress \in ProgressRow /\ Played(NoProgress, 0)
        BY CourseworkAssumption DEF NoProgress, ProgressRow, Played
    <2>2. \A c \in Handins : watching[c].step = "idle"
        BY DEF Resting
    <2>3. watching \in [Handins -> ReportRow]
        BY DEF ReportRow
    <2> HIDE DEF NoProgress
    <2> QED BY <2>1, <2>2, <2>3 DEF ProgressIInv
<1> QED BY <1>1, <1>2, <1>3, <1>4 DEF CourseworkIInv

(* The quiz *)

\* What a paper is worth is a number, and no answers earn more.
LEMMA PaperWorth ==
    ASSUME NEW paper \in [QuestionIds -> QuestionRow], NEW answers \in [QuestionIds -> Keys]
    PROVE  /\ MaximumOf(paper) \in Nat /\ ScoreOf(paper, answers) \in Nat
           /\ ScoreOf(paper, answers) <= MaximumOf(paper)
<1> DEFINE worth == [q \in QuestionIds |-> paper[q].points]
           earned == [q \in QuestionIds |-> IF answers[q] = paper[q].key THEN paper[q].points ELSE 0]
<1>1. Asked(paper) \in SUBSET QuestionIds
    BY DEF Asked
<1>2. IsFiniteSet(QuestionIds)
    BY CourseworkAssumption
<1>3. IsFiniteSet(Asked(paper))
    BY <1>1, <1>2, FS_Subset, Zenon
<1>4. \A q \in QuestionIds : paper[q].points \in Nat
    <2>1. SUFFICES ASSUME NEW q \in QuestionIds PROVE paper[q].points \in Nat
        OBVIOUS
    <2>2. PICK row : row = paper[q]
        OBVIOUS
    <2>3. row = NoQuestion \/ row \in [points : Points, order : Orders, key : Keys]
        BY <2>2 DEF QuestionRow
    <2>4. CASE row = NoQuestion
        BY <2>2, <2>4 DEF NoQuestion
    <2>5. CASE row \in [points : Points, order : Orders, key : Keys]
        <3>1. row.points \in Points
            BY <2>5
        <3> QED BY <2>2, <3>1, CourseworkAssumption
    <2> QED BY <2>3, <2>4, <2>5
<1>5. \A q \in QuestionIds : worth[q] \in Nat /\ earned[q] \in Nat /\ earned[q] <= worth[q]
    BY <1>4
<1>6. MaximumOf(paper) = SumFunctionOnSet(worth, Asked(paper))
    BY DEF MaximumOf
<1>7. ScoreOf(paper, answers) = SumFunctionOnSet(earned, Asked(paper))
    BY DEF ScoreOf
<1> HIDE DEF worth, earned
<1>8. \A q \in QuestionIds : worth[q] \in Int /\ earned[q] \in Int
    BY <1>5
<1>9. SumFunctionOnSet(worth, Asked(paper)) \in Nat
    BY <1>1, <1>2, <1>5, SumNat
<1>10. SumFunctionOnSet(earned, Asked(paper)) \in Nat
    BY <1>1, <1>2, <1>5, SumNat
<1>11. SumFunctionOnSet(earned, Asked(paper)) <= SumFunctionOnSet(worth, Asked(paper))
    BY <1>1, <1>3, <1>5, <1>8, SumAtMost
<1> QED BY <1>6, <1>7, <1>9, <1>10, <1>11

LEMMA QuizStep ==
    ASSUME QuizIInv, QuizNext
    PROVE  QuizIInv'
<1> USE DEF QuizIInv
<1>1. ASSUME NEW q \in QuestionIds, NEW p \in Points, NEW o \in Orders, NEW k \in Keys,
             WriteQuestion(q, p, o, k)
      PROVE  QuizIInv'
    <2>1. questions' \in [QuestionIds -> QuestionRow]
        BY <1>1 DEF WriteQuestion, QuestionRow
    <2> QED BY <1>1, <2>1 DEF WriteQuestion, ScoreWithinPaper
<1>2. ASSUME NEW q \in QuestionIds, DeleteQuestion(q) PROVE QuizIInv'
    <2>1. questions' \in [QuestionIds -> QuestionRow]
        BY <1>2 DEF DeleteQuestion, QuestionRow
    <2> QED BY <1>2, <2>1 DEF DeleteQuestion, ScoreWithinPaper
<1>3. ASSUME NEW p \in PassingScores, NEW m \in AttemptLimits, UpdateQuiz(p, m) PROVE QuizIInv'
    BY <1>3 DEF UpdateQuiz, QuizRow, ScoreWithinPaper
<1>4. CASE FindQuiz
    BY <1>4 DEF FindQuiz, quizVars, ScoreWithinPaper
<1>5. CASE PublishQuiz
    <2>1. quiz' \in QuizRow
        BY <1>5 DEF PublishQuiz, QuizRow, Authored
    <2> QED BY <1>5, <2>1 DEF PublishQuiz, ScoreWithinPaper
<1>6. CASE DeleteQuiz
    <2>1. quiz' \in QuizRow
        BY <1>6 DEF DeleteQuiz, QuizRow, Authored
    <2> QED BY <1>6, <2>1 DEF DeleteQuiz, ScoreWithinPaper
<1>7. ASSUME NEW c \in Handins, NEW l \in Learners, OpenQuiz(c, l) PROVE QuizIInv'
    <2>1. sittings' \in [Handins -> SittingRow] /\ sittings'[c].step = "opened"
        BY <1>7 DEF OpenQuiz, QuizRow, SittingRow
    <2>2. \A d \in Handins : d # c => sittings'[d] = sittings[d]
        BY <1>7 DEF OpenQuiz
    <2> QED BY <1>7, <2>1, <2>2 DEF OpenQuiz, ScoreWithinPaper
<1>8. ASSUME NEW c \in Handins, NEW answers \in [QuestionIds -> Keys], MarkSitting(c, answers)
      PROVE  QuizIInv'
    <2>1. PICK most, score : most = MaximumOf(questions) /\ score = ScoreOf(questions, answers)
        OBVIOUS
    <2>2. most \in Nat /\ score \in Nat /\ score <= most
        BY <2>1, PaperWorth
    <2>3. sittings[c] \in SittingRow /\ sittings[c].step = "opened"
        BY <1>8 DEF MarkSitting
    <2>4. sittings[c].learner \in Learners /\ sittings[c].limit \in AttemptLimits
          /\ sittings[c].passing \in PassingScores
        BY <2>3 DEF SittingRow, Resting
    <2>5. PICK passed \in BOOLEAN : passed = PassedAt(score, most, sittings[c].passing)
        <3>1. PassedAt(score, most, sittings[c].passing) \in BOOLEAN
            <4>1. CASE most = 0
                <5>1. PassedAt(score, most, sittings[c].passing) = (sittings[c].passing = 0)
                    BY <4>1 DEF PassedAt
                <5> QED BY <5>1
            <4>2. CASE most # 0
                BY <4>2 DEF PassedAt
            <4> QED BY <4>1, <4>2
        <3> QED BY <3>1
    <2>6. sittings' = [sittings EXCEPT ![c] =
              [step |-> "marked", learner |-> sittings[c].learner, limit |-> sittings[c].limit,
               maximum |-> most, score |-> score, passed |-> passed]]
        BY <1>8, <2>1, <2>5 DEF MarkSitting
    <2>7. Fair(score, most, passed)
        BY <2>2, <2>4, <2>5 DEF Fair
    <2>8. sittings' \in [Handins -> SittingRow]
        BY <2>2, <2>4, <2>6 DEF SittingRow
    <2>9. \A d \in Handins : sittings'[d].step = "marked" =>
              Fair(sittings'[d].score, sittings'[d].maximum, sittings'[d].passed)
        BY <2>6, <2>7
    <2> QED BY <1>8, <2>8, <2>9 DEF MarkSitting, ScoreWithinPaper
<1>9. ASSUME NEW c \in Handins, StoreAttempt(c) PROVE QuizIInv'
    <2>1. sittings' \in [Handins -> SittingRow] /\ sittings'[c].step = "idle"
        BY <1>9 DEF StoreAttempt, SittingRow, Resting
    <2>2. \A d \in Handins : d # c => sittings'[d] = sittings[d]
        BY <1>9 DEF StoreAttempt
    <2>3. Fair(AttemptOf(c).score, AttemptOf(c).maximum, AttemptOf(c).passed)
        BY <1>9 DEF StoreAttempt, AttemptOf
    <2>4. attempts' \subseteq attempts \cup {AttemptOf(c)}
        BY <1>9 DEF StoreAttempt
    <2>5. ScoreWithinPaper'
        BY <2>3, <2>4 DEF ScoreWithinPaper, Fair
    <2> QED BY <1>9, <2>1, <2>2, <2>5 DEF StoreAttempt
<1> QED BY <1>1, <1>2, <1>3, <1>4, <1>5, <1>6, <1>7, <1>8, <1>9 DEF QuizNext

(* The assignment *)

\* The latest version is a number that no version is above.
LEMMA LatestIsLast ==
    ASSUME AssignmentIInv, NEW l
    PROVE  /\ LatestVersion(l) \in Nat /\ \A v \in VersionsOf(l) : v \in Nat /\ v <= LatestVersion(l)
           /\ LatestVersion(l) \in {0} \cup VersionsOf(l)
<1>1. PICK S : S = {0} \cup VersionsOf(l)
    OBVIOUS
<1>2. S \in SUBSET Nat /\ S # {} /\ S \subseteq 0..MaxVersions
    BY <1>1, CourseworkAssumption DEF AssignmentIInv, SubmissionRow, VersionsOf
<1>3. IsFiniteSet(0..MaxVersions)
    BY CourseworkAssumption, FS_Interval
<1>4. IsFiniteSet(S)
    BY <1>2, <1>3, FS_Subset, Zenon
<1>5. \E m \in S : \A x \in S : x <= m
    BY <1>2, <1>4, Greatest
<1>6. \E m \in S : \A x \in S : m >= x
    BY <1>2, <1>5
<1>7. Max(S) \in S /\ \A x \in S : Max(S) >= x
    BY <1>6 DEF Max
<1> QED BY <1>1, <1>2, <1>7 DEF LatestVersion

LEMMA AssignmentStep ==
    ASSUME AssignmentIInv, AssignmentNext
    PROVE  AssignmentIInv'
<1> USE DEF AssignmentIInv
<1>0. ASSUME assignment' \in AssignmentRow, UNCHANGED <<submissions, handing, grading, graded>>
      PROVE  AssignmentIInv'
    BY <1>0 DEF EveryHandInKept, VersionTaken, VersionsOf, GradeIsAudited
<1>1. ASSUME NEW p \in {"latest", "highest"}, NEW m \in Scores, UpdateAssignment(p, m)
      PROVE  AssignmentIInv'
    <2>1. assignment' \in AssignmentRow
        BY <1>1 DEF UpdateAssignment, AssignmentRow
    <2> QED BY <1>0, <1>1, <2>1 DEF UpdateAssignment
<1>2. CASE FindAssignment
    BY <1>0, <1>2 DEF FindAssignment, assignmentVars
<1>3. CASE PublishAssignment
    <2>1. assignment' \in AssignmentRow
        BY <1>3 DEF PublishAssignment, AssignmentRow, Authored
    <2> QED BY <1>0, <1>3, <2>1 DEF PublishAssignment
<1>4. CASE DeleteAssignment
    <2>1. assignment' \in AssignmentRow
        BY <1>4 DEF DeleteAssignment, AssignmentRow, Authored
    <2> QED BY <1>0, <1>4, <2>1 DEF DeleteAssignment
<1>5. ASSUME NEW c \in Handins, NEW l \in Learners, OpenAssignment(c, l) PROVE AssignmentIInv'
    <2>1. handing' \in [Handins -> HandingRow] /\ handing'[c].step = "opened"
        BY <1>5 DEF OpenAssignment, HandingRow
    <2>2. \A d \in Handins : d # c => handing'[d] = handing[d]
        BY <1>5 DEF OpenAssignment
    <2>3. UNCHANGED <<assignment, submissions, grading, graded>>
        BY <1>5 DEF OpenAssignment
    <2>4. \A d \in Handins : handing'[d].step = "numbered" => handing[d].step = "numbered" /\ d # c
        BY <2>1, <2>2
    <2>5. EveryHandInKept'
        BY <2>2, <2>3, <2>4 DEF EveryHandInKept, VersionTaken, VersionsOf
    <2> QED BY <2>1, <2>2, <2>3, <2>4, <2>5 DEF GradeIsAudited
<1>6. ASSUME NEW c \in Handins, NumberVersion(c) PROVE AssignmentIInv'
    <2>1. PICK l, v : l = handing[c].learner /\ v = LatestVersion(l) + 1
        OBVIOUS
    <2>2. handing[c] \in HandingRow /\ handing[c].step = "opened"
        BY <1>6 DEF NumberVersion
    <2>3. l \in Learners
        BY <2>1, <2>2 DEF HandingRow, Resting
    <2>4. v \in 1..MaxVersions /\ v \notin VersionsOf(l)
        BY <1>6, <2>1, LatestIsLast, CourseworkAssumption DEF NumberVersion
    <2>5. handing' = [handing EXCEPT ![c] = [step |-> "numbered", learner |-> l, version |-> v]]
        BY <1>6, <2>1 DEF NumberVersion
    <2>6. handing' \in [Handins -> HandingRow]
        BY <2>3, <2>4, <2>5 DEF HandingRow
    <2>7. UNCHANGED <<assignment, submissions, grading, graded>>
        BY <1>6 DEF NumberVersion
    <2>8. \A d \in Handins : handing[d].step # "numbered"
        BY <1>6 DEF NumberVersion, AssignmentFree
    <2>9. \A d \in Handins : handing'[d].step = "numbered" => d = c
        BY <2>5, <2>8
    <2>10. EveryHandInKept'
        BY <2>4, <2>5, <2>7, <2>9 DEF EveryHandInKept, VersionTaken, VersionsOf
    <2> QED BY <2>6, <2>7, <2>9, <2>10 DEF GradeIsAudited
<1>7. ASSUME NEW c \in Handins, StoreSubmission(c) PROVE AssignmentIInv'
    <2>1. PICK s : s = [learner |-> handing[c].learner, version |-> handing[c].version,
                        score |-> NoScore]
        OBVIOUS
    <2>2. handing[c] \in HandingRow /\ handing[c].step = "numbered"
        BY <1>7 DEF StoreSubmission
    <2>3. s \in SubmissionRow
        BY <2>1, <2>2 DEF HandingRow, SubmissionRow, Resting
    <2>4. submissions' = submissions \cup {s}
        BY <1>7, <2>1, <2>2 DEF StoreSubmission, EveryHandInKept
    <2>5. \A t \in submissions : ~SameWork(s, t) /\ ~SameWork(t, s)
        BY <2>1, <2>2 DEF EveryHandInKept, VersionTaken, VersionsOf, SameWork
    <2>6. \A t, u \in submissions' : SameWork(t, u) => t = u
        BY <2>4, <2>5
    <2>7. \E n \in Nat : \A t \in submissions' : t.score <= n
        <3>1. PICK n \in Nat : \A t \in submissions : t.score <= n
            OBVIOUS
        <3>2. s.score <= n
            BY <2>1 DEF NoScore
        <3> QED BY <2>4, <3>1, <3>2
    <2>8. handing' \in [Handins -> HandingRow] /\ handing'[c].step = "idle"
        BY <1>7 DEF StoreSubmission, HandingRow, Resting
    <2>9. \A d \in Handins : d # c => handing'[d] = handing[d]
        BY <1>7 DEF StoreSubmission
    <2>10. \A d \in Handins : handing'[d].step # "numbered"
        BY <2>2, <2>8, <2>9
    <2>11. UNCHANGED <<assignment, grading, graded>>
        BY <1>7 DEF StoreSubmission
    <2>12. GradeIsAudited'
        BY <2>1, <2>4, <2>11 DEF GradeIsAudited
    <2> QED BY <2>3, <2>4, <2>6, <2>7, <2>8, <2>10, <2>11, <2>12 DEF EveryHandInKept
<1>8. ASSUME NEW g \in Markers, NEW s \in submissions, NEW n \in Scores, OpenSubmission(g, s, n)
      PROVE  AssignmentIInv'
    <2>1. s \in SubmissionRow
        OBVIOUS
    <2>2. grading' \in [Markers -> GradingRow]
        BY <1>8, <2>1 DEF OpenSubmission, SubmissionRow, GradingRow
    <2> QED BY <1>8, <2>2 DEF OpenSubmission, EveryHandInKept, VersionTaken, VersionsOf,
                              GradeIsAudited
<1>9. ASSUME NEW g \in Markers, StoreGrade(g) PROVE AssignmentIInv'
    <2>1. PICK w : w = grading[g]
        OBVIOUS
    <2>2. w \in GradingRow /\ w.step = "judged"
        BY <1>9, <2>1 DEF StoreGrade
    <2>3. w.score \in Scores
        BY <2>2 DEF GradingRow, Resting
    <2> DEFINE Regraded(s) == IF SameWork(s, w) THEN [s EXCEPT !.score = w.score] ELSE s
    <2>4. submissions' = {Regraded(s) : s \in submissions}
        BY <1>9, <2>1 DEF StoreGrade
    <2>5. \A s \in submissions :
              /\ Regraded(s) \in SubmissionRow
              /\ Regraded(s).learner = s.learner /\ Regraded(s).version = s.version
              /\ SameWork(s, w) => Regraded(s).score = w.score
              /\ ~SameWork(s, w) => Regraded(s) = s
        <3>1. SUFFICES ASSUME NEW s \in submissions
              PROVE  /\ Regraded(s) \in SubmissionRow
                     /\ Regraded(s).learner = s.learner /\ Regraded(s).version = s.version
                     /\ SameWork(s, w) => Regraded(s).score = w.score
                     /\ ~SameWork(s, w) => Regraded(s) = s
            OBVIOUS
        <3>2. s \in SubmissionRow
            OBVIOUS
        <3> QED BY <2>3, <3>2 DEF SubmissionRow
    <2> HIDE DEF Regraded
    <2>6. submissions' \subseteq SubmissionRow
        BY <2>4, <2>5
    <2>7. \A t, u \in submissions' : SameWork(t, u) => t = u
        <3>1. SUFFICES ASSUME NEW s \in submissions, NEW t \in submissions,
                              SameWork(Regraded(s), Regraded(t))
                       PROVE  Regraded(s) = Regraded(t)
            BY <2>4
        <3>2. SameWork(s, t)
            BY <2>5, <3>1 DEF SameWork
        <3> QED BY <3>2
    <2>8. \E n \in Nat : \A t \in submissions' : t.score <= n
        <3>1. PICK n \in Nat : \A t \in submissions : t.score <= n
            OBVIOUS
        <3>2. w.score \in Nat
            BY <2>3, CourseworkAssumption
        <3>3. \A t \in submissions : t.score <= n + w.score /\ w.score <= n + w.score
            <4>1. \A t \in submissions : t.score \in Int
                <5>1. \A t \in submissions : t.score \in Scores \cup {NoScore}
                    BY DEF SubmissionRow
                <5>2. NoScore \in Int /\ Scores \subseteq Int
                    BY CourseworkAssumption DEF NoScore
                <5> QED BY <5>1, <5>2
            <4> QED BY <3>1, <3>2, <4>1
        <3>4. n + w.score \in Nat
            BY <3>2
        <3>5. \A t \in submissions : Regraded(t).score <= n + w.score
            BY <2>5, <3>3
        <3> QED BY <2>4, <3>4, <3>5
    <2>9. \A l : VersionsOf(l)' = VersionsOf(l)
        BY <2>4, <2>5 DEF VersionsOf
    <2>10. grading' \in [Markers -> GradingRow] /\ UNCHANGED <<assignment, handing>>
        BY <1>9 DEF StoreGrade, GradingRow
    <2>11. EveryHandInKept'
        BY <2>9, <2>10 DEF EveryHandInKept, VersionTaken
    <2>12. GradeIsAudited'
        <3>1. SUFFICES ASSUME NEW s \in submissions, Regraded(s).score # NoScore
                       PROVE  \E r \in graded' : SameWork(r, Regraded(s)) /\ r.score = Regraded(s).score
            BY <2>4 DEF GradeIsAudited
        <3>2. graded' = {r \in graded : ~SameWork(r, w)} \cup {AuditedGrade(g)}
            BY <1>9, <2>1 DEF StoreGrade
        <3>3. CASE SameWork(s, w)
            <4>1. AuditedGrade(g) \in graded'
                BY <3>2
            <4>2. SameWork(AuditedGrade(g), Regraded(s)) /\ AuditedGrade(g).score = w.score
                BY <2>1, <2>5, <3>3 DEF AuditedGrade, SameWork
            <4> QED BY <2>5, <3>3, <4>1, <4>2
        <3>4. CASE ~SameWork(s, w)
            <4>1. PICK r \in graded : SameWork(r, s) /\ r.score = s.score
                BY <2>5, <3>1, <3>4 DEF GradeIsAudited
            <4>2. r \in graded'
                BY <3>2, <3>4, <4>1 DEF SameWork
            <4> QED BY <2>5, <3>4, <4>1, <4>2
        <3> QED BY <3>3, <3>4
    <2> QED BY <2>6, <2>7, <2>8, <2>10, <2>11, <2>12
<1> QED BY <1>1, <1>2, <1>3, <1>4, <1>5, <1>6, <1>7, <1>8, <1>9 DEF AssignmentNext

(* Progress *)

\* A quotient of naturals is one.
LEMMA Quotient == \A a \in Nat, b \in Nat \ {0} : a \div b \in Nat
OBVIOUS

\* A report of a video keeps the row within its type and adds at most five seconds.
LEMMA WatchedPlayed ==
    ASSUME NEW row \in ProgressRow, NEW n \in Nat, Played(row, n), NEW position \in Nat
    PROVE  Watched(row, position) \in ProgressRow /\ Played(Watched(row, position), n + 1)
<1> DEFINE last == IF CanAdvance(row, position) THEN position ELSE row.last
           seen == IF CanAdvance(row, position)
                   THEN AtMost(Duration, AtLeast(row.watched, position)) ELSE row.watched
           part == (seen * 200 + Duration) \div (2 * Duration)
<1>1. /\ row.last \in Nat /\ row.furthest \in Nat /\ row.watched \in 0..Duration
      /\ row.pages \in 0..100 /\ Duration \in Nat \ {0}
    BY CourseworkAssumption DEF ProgressRow
<1>2. last \in Nat /\ last <= row.furthest + 5
    BY <1>1 DEF CanAdvance, Played
<1>3. seen \in 0..Duration
    BY <1>1 DEF AtMost, AtLeast
<1>4. part \in Nat
    <2>1. seen * 200 + Duration \in Nat /\ 2 * Duration \in Nat \ {0}
        BY <1>1, <1>3
    <2> HIDE DEF seen
    <2> QED BY <2>1, Quotient
<1>5. Watched(row, position) =
          [row EXCEPT !.last = last, !.watched = seen, !.furthest = AtLeast(row.furthest, last),
                      !.percent = AtMost(100, part)]
    BY DEF Watched
<1> HIDE DEF last, seen, part
<1>6. AtMost(100, part) \in 0..100 /\ AtLeast(row.furthest, last) \in Nat
    BY <1>1, <1>2, <1>4 DEF AtMost, AtLeast
<1>7. Watched(row, position) \in ProgressRow
    BY <1>1, <1>2, <1>3, <1>5, <1>6 DEF ProgressRow
<1>8. last <= AtLeast(row.furthest, last) /\ AtLeast(row.furthest, last) <= 5 * (n + 1)
    BY <1>1, <1>2 DEF AtLeast, Played
<1>9. /\ Watched(row, position).last = last
      /\ Watched(row, position).furthest = AtLeast(row.furthest, last)
    BY <1>5 DEF ProgressRow
<1> QED BY <1>7, <1>8, <1>9 DEF Played

LEMMA PagesPlayed ==
    ASSUME NEW row \in ProgressRow, NEW n \in Nat, Played(row, n), NEW pages \in Nat
    PROVE  PagesRead(row, pages) \in ProgressRow /\ Played(PagesRead(row, pages), n + 1)
<1>1. PICK most : most = AtMost(100, AtLeast(row.pages, pages))
    OBVIOUS
<1>2. most \in 0..100
    BY <1>1 DEF ProgressRow, AtMost, AtLeast
<1>3. PagesRead(row, pages) = [row EXCEPT !.pages = most, !.percent = most]
    BY <1>1 DEF PagesRead
<1>4. PagesRead(row, pages) \in ProgressRow
    BY <1>2, <1>3 DEF ProgressRow
<1>5. PagesRead(row, pages).last = row.last /\ PagesRead(row, pages).furthest = row.furthest
    BY <1>3 DEF ProgressRow
<1>6. row.furthest \in Nat
    BY DEF ProgressRow
<1> QED BY <1>4, <1>5, <1>6 DEF Played

\* Storing a row that one report more explains.
LEMMA ReportStep ==
    ASSUME ProgressIInv, NEW c \in Handins, NEW row \in ProgressRow, watching[c].step = "read",
           Played(row, reports[watching[c].on] + 1), StoreProgress(c, row)
    PROVE  ProgressIInv'
<1> USE DEF ProgressIInv
<1>1. PICK x : x = watching[c].on
    OBVIOUS
<1>2. x \in Learners \X Kinds
    BY <1>1 DEF ReportRow, Resting
<1>3. /\ progress' = [progress EXCEPT ![x] = row]
      /\ reports' = [reports EXCEPT ![x] = reports[x] + 1]
      /\ watching' = [watching EXCEPT ![c] = Resting]
    BY <1>1 DEF StoreProgress
<1>4. /\ progress' \in [Learners \X Kinds -> ProgressRow] /\ reports' \in [Learners \X Kinds -> Nat]
      /\ watching' \in [Handins -> ReportRow]
    BY <1>2, <1>3 DEF ReportRow
<1>5. \A y \in Learners \X Kinds : reports[y] \in Nat /\ reports'[y] \in Nat /\ reports[y] <= reports'[y]
    BY <1>2, <1>3
<1>6. \A y \in Learners \X Kinds : Played(progress'[y], reports'[y])
    BY <1>1, <1>2, <1>3
<1>7. ASSUME NEW d \in Handins, watching'[d].step = "read"
      PROVE  Played(watching'[d].row, reports'[watching'[d].on])
    <2>1. watching'[d] = watching[d]
        BY <1>3, <1>7 DEF Resting
    <2>2. watching[d] \in ReportRow /\ watching[d].step = "read"
        BY <1>7, <2>1
    <2>3. watching[d].on \in Learners \X Kinds /\ watching[d].row \in ProgressRow
        BY <2>2 DEF ReportRow, Resting
    <2>4. watching[d].row.furthest \in Nat
        BY <2>3 DEF ProgressRow
    <2>5. Played(watching[d].row, reports[watching[d].on])
        BY <2>2
    <2> QED BY <1>5, <2>1, <2>3, <2>4, <2>5 DEF Played
<1> QED BY <1>4, <1>6, <1>7

LEMMA ProgressStep ==
    ASSUME ProgressIInv, ProgressNext
    PROVE  ProgressIInv'
<1> USE DEF ProgressIInv
<1>1. ASSUME NEW c \in Handins, NEW x \in Learners \X Kinds, ReadProgress(c, x)
      PROVE  ProgressIInv'
    <2>1. watching' = [watching EXCEPT ![c] = [step |-> "read", on |-> x, row |-> progress[x]]]
        BY <1>1 DEF ReadProgress
    <2>2. watching' \in [Handins -> ReportRow]
        BY <2>1 DEF ReportRow
    <2>3. \A d \in Handins : watching'[d].step = "read" =>
              Played(watching'[d].row, reports[watching'[d].on])
        BY <2>1
    <2> QED BY <1>1, <2>2, <2>3 DEF ReadProgress
<1>2. ASSUME NEW c \in Handins, watching[c].step = "read"
      PROVE  /\ watching[c].row \in ProgressRow /\ reports[watching[c].on] \in Nat
             /\ Played(watching[c].row, reports[watching[c].on])
    <2>1. watching[c] \in ReportRow
        OBVIOUS
    <2>2. watching[c].row \in ProgressRow /\ watching[c].on \in Learners \X Kinds
        BY <1>2, <2>1 DEF ReportRow, Resting
    <2> QED BY <1>2, <2>2
<1>3. ASSUME NEW c \in Handins, NEW s \in Seconds, ReportVideo(c, s) PROVE ProgressIInv'
    <2>1. PICK position : position = AtMost(Duration, s)
        OBVIOUS
    <2>2. position \in Nat
        BY <2>1, CourseworkAssumption DEF AtMost
    <2>3. watching[c].step = "read" /\ StoreProgress(c, Watched(watching[c].row, position))
        BY <1>3, <2>1 DEF ReportVideo, Reporting
    <2>4. /\ Watched(watching[c].row, position) \in ProgressRow
          /\ Played(Watched(watching[c].row, position), reports[watching[c].on] + 1)
        BY <1>2, <2>2, <2>3, WatchedPlayed
    <2> QED BY <2>3, <2>4, ReportStep
<1>4. ASSUME NEW c \in Handins, NEW p \in {50, 100}, ReportDocument(c, p) PROVE ProgressIInv'
    <2>1. watching[c].step = "read" /\ StoreProgress(c, PagesRead(watching[c].row, p))
        BY <1>4 DEF ReportDocument, Reporting
    <2>2. /\ PagesRead(watching[c].row, p) \in ProgressRow
          /\ Played(PagesRead(watching[c].row, p), reports[watching[c].on] + 1)
        BY <1>2, <2>1, PagesPlayed
    <2> QED BY <2>1, <2>2, ReportStep
<1> QED BY <1>1, <1>3, <1>4 DEF ProgressNext

(* The theorems *)

LEMMA CourseworkStep ==
    ASSUME CourseworkIInv, [CourseworkNext]_courseworkVars
    PROVE  CourseworkIInv'
<1> USE DEF CourseworkIInv
<1>0. /\ UNCHANGED quizVars => QuizIInv'
      /\ UNCHANGED assignmentVars => AssignmentIInv'
      /\ UNCHANGED progressVars => ProgressIInv'
    <2>1. ASSUME UNCHANGED quizVars PROVE QuizIInv'
        BY <2>1 DEF quizVars, QuizIInv, ScoreWithinPaper
    <2>2. ASSUME UNCHANGED assignmentVars PROVE AssignmentIInv'
        BY <2>2 DEF assignmentVars, AssignmentIInv, EveryHandInKept, VersionTaken, VersionsOf,
                    GradeIsAudited
    <2>3. ASSUME UNCHANGED progressVars PROVE ProgressIInv'
        BY <2>3 DEF progressVars, ProgressIInv
    <2> QED BY <2>1, <2>2, <2>3
<1>1. CASE QuizNext /\ UNCHANGED <<assignmentVars, progressVars>>
    <2>1. publishing' \in [quiz : BOOLEAN, assignment : BOOLEAN]
        BY <1>1 DEF QuizNext, WriteQuestion, DeleteQuestion, UpdateQuiz, FindQuiz, PublishQuiz,
                    DeleteQuiz, OpenQuiz, MarkSitting, StoreAttempt
    <2> QED BY <1>0, <1>1, <2>1, QuizStep
<1>2. CASE AssignmentNext /\ UNCHANGED <<quizVars, progressVars>>
    <2>1. publishing' \in [quiz : BOOLEAN, assignment : BOOLEAN]
        BY <1>2 DEF AssignmentNext, UpdateAssignment, FindAssignment, PublishAssignment,
                    DeleteAssignment, OpenAssignment, NumberVersion, StoreSubmission,
                    OpenSubmission, StoreGrade
    <2> QED BY <1>0, <1>2, <2>1, AssignmentStep
<1>3. CASE ProgressNext /\ UNCHANGED <<quizVars, publishing, assignmentVars>>
    BY <1>0, <1>3, ProgressStep
<1>4. CASE UNCHANGED courseworkVars
    BY <1>0, <1>4 DEF courseworkVars
<1> QED BY <1>1, <1>2, <1>3, <1>4 DEF CourseworkNext

LEMMA CourseworkSound == CourseworkIInv => CourseworkConsistent
<1> SUFFICES ASSUME CourseworkIInv PROVE CourseworkConsistent
    OBVIOUS
<1> USE DEF CourseworkIInv
<1>1. /\ quiz.row \in Authored /\ quiz.passing \in PassingScores /\ quiz.limit \in AttemptLimits
      /\ \A q \in QuestionIds : questions[q] = NoQuestion
            \/ questions[q] \in [points : Points, order : Orders, key : Keys]
    BY DEF QuizIInv, QuizRow, QuestionRow
<1>2. /\ assignment.row \in Authored
      /\ assignment.policy \in {"latest", "highest"} /\ assignment.maximum \in Scores
      /\ \A s \in submissions : /\ s.learner \in Learners
                                /\ s.version \in 1..MaxVersions
                                /\ s.score \in Scores \cup {NoScore}
    BY DEF AssignmentIInv, AssignmentRow, SubmissionRow
<1>3. \A x \in DOMAIN progress : /\ progress[x].percent \in 0..100
                                 /\ progress[x].watched \in 0..Duration
    BY DEF ProgressIInv, ProgressRow
<1>4. \A c \in Handins : /\ sittings[c].step \in {"idle", "opened", "marked"}
                         /\ handing[c].step \in {"idle", "opened", "numbered"}
                         /\ watching[c].step \in {"idle", "read"}
    <2>1. \A c \in Handins : sittings[c] \in SittingRow
        BY DEF QuizIInv
    <2>2. \A c \in Handins : handing[c] \in HandingRow
        BY DEF AssignmentIInv
    <2>3. \A c \in Handins : watching[c] \in ReportRow
        BY DEF ProgressIInv
    <2> QED BY <2>1, <2>2, <2>3 DEF SittingRow, HandingRow, ReportRow, Resting
<1>5. \A g \in Markers : grading[g].step \in {"idle", "judged"}
    BY DEF AssignmentIInv, GradingRow, Resting
<1>6. CourseworkTypeOK
    BY <1>1, <1>2, <1>3, <1>4, <1>5 DEF CourseworkTypeOK
<1>7. FurthestIsPlayed
    <2>1. \A l \in Learners : Played(progress[<<l, "video">>], reports[<<l, "video">>])
        BY DEF ProgressIInv, Kinds
    <2> QED BY <2>1 DEF Played, FurthestIsPlayed
<1> QED BY <1>6, <1>7 DEF QuizIInv, AssignmentIInv, CourseworkConsistent

LEMMA CourseworkInvariant == CourseworkSpec => []CourseworkIInv
<1>1. CourseworkIInv /\ [CourseworkNext]_courseworkVars => CourseworkIInv'
    BY CourseworkStep
<1> QED BY CourseworkInitInvariant, <1>1, PTL DEF CourseworkSpec

\* Whatever authors, learners and graders do at once, an attempt scores no more than its paper is
\* worth, a version is handed in once, a grade is the one last audited, and the furthest position
\* was played.
THEOREM CourseworkConsistentHolds == CourseworkSpec => []CourseworkConsistent
BY CourseworkInvariant, CourseworkSound, PTL

\* A graded submission under the policy "highest": some are best.
LEMMA SomeBest ==
    ASSUME AssignmentIInv, NEW l, NEW s \in HandedInBy(l), s.score # NoScore
    PROVE  BestGraded(l) # {}
<1>1. PICK T : T = {t.score : t \in {u \in HandedInBy(l) : u.score # NoScore}}
    OBVIOUS
<1>2. PICK n \in Nat : \A t \in submissions : t.score <= n
    BY DEF AssignmentIInv
<1>3. \A t \in HandedInBy(l) : t \in submissions /\ (t.score \in Nat \/ t.score = -1)
    BY CourseworkAssumption DEF HandedInBy, AssignmentIInv, SubmissionRow, NoScore
<1>4. T \in SUBSET Nat /\ T \subseteq 0..n /\ T # {}
    BY <1>1, <1>2, <1>3 DEF NoScore
<1>5. IsFiniteSet(T)
    <2>1. IsFiniteSet(0..n)
        BY FS_Interval
    <2> QED BY <1>4, <2>1, FS_Subset, Zenon
<1>6. PICK m \in T : \A x \in T : x <= m
    BY <1>4, <1>5, Greatest
<1>7. PICK t \in HandedInBy(l) : t.score # NoScore /\ t.score = m
    BY <1>1, <1>6
<1>8. \A u \in HandedInBy(l) : u.score <= m
    BY <1>1, <1>3, <1>4, <1>6 DEF NoScore
<1> QED BY <1>7, <1>8 DEF BestGraded

\* With no other submissions than before and an ungraded one, the best are the best before.
LEMMA BestStays ==
    ASSUME AssignmentIInv, assignment.policy = "highest", assignment' = assignment,
           submissions \subseteq submissions',
           \A s \in submissions' \ submissions : s.score = NoScore,
           NEW l \in Learners, NEW n \in FinalScore(l) \ {NoScore}
    PROVE  n \in FinalScore(l)'
<1>1. BestGraded(l) # {} /\ n \in {s.score : s \in BestGraded(l)}
    <2>1. CASE BestGraded(l) # {}
        BY <2>1 DEF FinalScore
    <2>2. CASE BestGraded(l) = {}
        <3>1. n \in {s.score : s \in {t \in HandedInBy(l) : t.version = LatestVersion(l)}}
            BY <2>2 DEF FinalScore
        <3>2. PICK s \in HandedInBy(l) : s.score = n
            BY <3>1
        <3> QED BY <2>2, <3>2, SomeBest
    <2> QED BY <2>1, <2>2
<1>2. PICK s \in BestGraded(l) : s.score = n
    BY <1>1
<1>3. s \in HandedInBy(l) /\ \A t \in HandedInBy(l) : t.score <= s.score
    BY <1>2 DEF BestGraded
<1>4. s.score \in Nat
    BY <1>2, <1>3, CourseworkAssumption DEF AssignmentIInv, SubmissionRow, HandedInBy
<1>5. \A t \in HandedInBy(l)' : t.score <= s.score
    BY <1>3, <1>4 DEF HandedInBy, NoScore
<1>6. s \in BestGraded(l)'
    BY <1>2, <1>3, <1>5 DEF BestGraded, HandedInBy
<1> QED BY <1>2, <1>6 DEF FinalScore

\* No step of CourseworkNext takes back what it must not.
LEMMA NothingTakenBackStep ==
    ASSUME CourseworkIInv, CourseworkIInv', [CourseworkNext]_courseworkVars
    PROVE  /\ \A c \in Handins :
                /\ quiz.row.deleted /\ sittings[c] = Resting => sittings'[c] = Resting
                /\ assignment.row.deleted /\ handing[c] = Resting => handing'[c] = Resting
           /\ assignment.policy = "highest" /\ assignment' = assignment
                 /\ submissions \subseteq submissions'
              => \A l \in Learners : \A n \in FinalScore(l) \ {NoScore} : n \in FinalScore(l)'
<1> USE DEF CourseworkIInv
<1>1. QuizNext \/ UNCHANGED <<quiz, sittings>>
    BY DEF CourseworkNext, courseworkVars, quizVars
<1>2. AssignmentNext \/ UNCHANGED <<submissions, handing>>
    BY DEF CourseworkNext, courseworkVars, assignmentVars
<1>3. ASSUME NEW c \in Handins, quiz.row.deleted, sittings[c] = Resting
      PROVE  sittings'[c] = Resting
    <2>1. \A d \in Handins, l \in Learners : OpenQuiz(d, l) => ~quiz.row.deleted
        BY DEF OpenQuiz, Visible
    <2>2. \A d \in Handins, answers \in [QuestionIds -> Keys] : MarkSitting(d, answers) =>
              d # c /\ sittings'[c] = sittings[c]
        BY <1>3 DEF MarkSitting, Resting, QuizIInv
    <2>3. \A d \in Handins : StoreAttempt(d) => d # c /\ sittings'[c] = sittings[c]
        BY <1>3 DEF StoreAttempt, Resting, QuizIInv
    <2> QED BY <1>1, <1>3, <2>1, <2>2, <2>3
            DEF QuizNext, WriteQuestion, DeleteQuestion, UpdateQuiz, FindQuiz, quizVars, PublishQuiz,
                DeleteQuiz
<1>4. ASSUME NEW c \in Handins, assignment.row.deleted, handing[c] = Resting
      PROVE  handing'[c] = Resting
    <2>1. \A d \in Handins, l \in Learners : OpenAssignment(d, l) => ~assignment.row.deleted
        BY DEF OpenAssignment, Visible
    <2>2. \A d \in Handins : NumberVersion(d) => d # c /\ handing'[c] = handing[c]
        BY <1>4 DEF NumberVersion, Resting, AssignmentIInv
    <2>3. \A d \in Handins : StoreSubmission(d) => d # c /\ handing'[c] = handing[c]
        BY <1>4 DEF StoreSubmission, Resting, AssignmentIInv
    <2> QED BY <1>2, <1>4, <2>1, <2>2, <2>3
            DEF AssignmentNext, UpdateAssignment, FindAssignment, assignmentVars, PublishAssignment,
                DeleteAssignment, OpenSubmission, StoreGrade
<1>5. ASSUME submissions \subseteq submissions'
      PROVE  \A s \in submissions' \ submissions : s.score = NoScore
    <2>1. ASSUME NEW c \in Handins, StoreSubmission(c)
          PROVE  \A s \in submissions' \ submissions : s.score = NoScore
        BY <2>1 DEF StoreSubmission
    <2>2. ASSUME NEW g \in Markers, StoreGrade(g) PROVE submissions' = submissions
        <3>1. SUFFICES ASSUME NEW t \in submissions' PROVE t \in submissions
            BY <1>5
        <3>2. PICK s \in submissions :
                  t = IF SameWork(s, grading[g]) THEN [s EXCEPT !.score = grading[g].score] ELSE s
            BY <2>2, <3>1 DEF StoreGrade
        <3>3. s \in SubmissionRow /\ s \in submissions'
            BY <1>5 DEF AssignmentIInv
        <3>4. SameWork(t, s)
            BY <3>2, <3>3 DEF SubmissionRow, SameWork
        <3>5. t = s
            BY <3>1, <3>3, <3>4 DEF AssignmentIInv
        <3> QED BY <3>5
    <2> QED BY <1>2, <2>1, <2>2
            DEF AssignmentNext, UpdateAssignment, FindAssignment, assignmentVars, PublishAssignment,
                DeleteAssignment, OpenAssignment, NumberVersion, OpenSubmission
<1> QED BY <1>3, <1>4, <1>5, BestStays

\* A deleted quiz or assignment is handed to no learner again, not even by a publication that found
\* it before, and handing in again costs nobody the grade shown under "highest".
THEOREM NothingTakenBackHolds == CourseworkSpec => NothingTakenBack
<1>1. CourseworkIInv /\ CourseworkIInv' /\ [CourseworkNext]_courseworkVars =>
          [\A c \in Handins :
              /\ quiz.row.deleted /\ sittings[c] = Resting => sittings'[c] = Resting
              /\ assignment.row.deleted /\ handing[c] = Resting => handing'[c] = Resting
          ]_courseworkVars
    BY NothingTakenBackStep
<1>2. CourseworkIInv /\ CourseworkIInv' /\ [CourseworkNext]_courseworkVars =>
          [/\ assignment.policy = "highest" /\ assignment' = assignment
           /\ submissions \subseteq submissions'
           => \A l \in Learners : \A n \in FinalScore(l) \ {NoScore} :
                 n \in FinalScore(l)']_courseworkVars
    BY NothingTakenBackStep
<1> QED BY CourseworkInvariant, <1>1, <1>2, PTL
        DEF CourseworkSpec, NothingTakenBack, DeletedStaysHidden, BestGradeKept
=============================================================================
