------------------------ MODULE PaymentLifecycleProofs ------------------------
(* The payment of an order, for any number of orders, attempts, collections *)
(* and handlers.  What each handler still knows when it comes back, and     *)
(* that one attempt of an order is alive at a time, make the properties of  *)
(* PaymentLifecycle inductive.                                              *)
EXTENDS PaymentLifecycle, TLAPS

-----------------------------------------------------------------------------
(* The inductive invariant                                                  *)

\* Handler h is between the first and the last transaction of a payment request.
Requests(h, a) == job[h].step \in {"asking", "opening", "rejecting"} /\ job[h].a = a

Taken == {"paid", "cancelled", "expired", "late_paid"}

\* An attempt that can still become payable, or was decided.
Live(a) == attempt[a] \notin {"none", "failed"} \/ \E h \in Handlers : Requests(h, a)

OneRequest ==
    \A h, k \in Handlers : \A a \in Attempts : Requests(h, a) /\ Requests(k, a) => h = k

OneLive ==
    \A a, b \in Attempts : OrderOf(a) = OrderOf(b) /\ Live(a) /\ Live(b) => a = b

\* An attempt is decided only with its order.
AttemptsFollowOrder ==
    \A a \in Attempts :
        /\ attempt[a] = "paid" => order[OrderOf(a)] = "confirmed"
        /\ attempt[a] \in Taken => order[OrderOf(a)] # "pending_payment"
        /\ attempt[a] \in Taken \cup {"pending"} => link[a] # "none"
        /\ collected[a] > 0 => attempt[a] # "none"

\* An attempt has the provider it was made for, and no link before it is made.
Requested ==
    \A a \in Attempts :
        /\ attempt[a] # "none" => provider[a] \in Providers
        /\ attempt[a] = "none" => link[a] = "none"

\* An order is confirmed by a collection of its own.
ConfirmedByOwn == \A o \in Orders : confirmedBy[o] # None => Payer(confirmedBy[o]) = o

\* From its delivery on, a handler holds the collection that confirmed the order.
Delivering == {"fulfilling", "failing", "flagging", "finalizing"}

\* What a handler was told stays true until it writes it down.
JobFits(h) ==
    LET j == job[h] IN
    /\ j.step # "idle" => attempt[j.a] # "none"
    /\ j.c # None => j.c[2] <= collected[AttemptOf(j.c)]
    /\ j.step \in {"asking", "rejecting"} => attempt[j.a] = "created" /\ link[j.a] = "none"
    /\ j.step = "opening" =>
          /\ attempt[j.a] \in Open \/ order[OrderOf(j.a)] # "pending_payment"
          /\ provider[j.a] = "payos" => link[j.a] # "none"
    /\ j.step \in {"checked", "closing", "finishing"} => link[j.a] # "none"
    /\ j.step = "finishing" /\ provider[j.a] = "payos" => link[j.a] = "closed"
    /\ j.step \in Delivering => confirmedBy[Payer(j.c)] = j.c

JobsFitRows == \A h \in Handlers : JobFits(h)

IInv ==
    /\ TypeOK /\ EvidenceFitsOrder /\ ConfirmedByPaid /\ BenefitFollowsOrder
    /\ CasesFollowFulfillment /\ PayOsClosedFirst /\ OneRequest /\ OneLive /\ AttemptsFollowOrder /\ Requested
    /\ ConfirmedByOwn /\ JobsFitRows

-----------------------------------------------------------------------------
(* Orders, attempts and collections                                         *)

\* An attempt belongs to an order of the shop.
LEMMA AttemptFacts == \A a \in Attempts : OrderOf(a) \in Orders /\ a # None
BY NoneIsNothing DEF Attempts, OrderOf

\* Attempts of one order differ by their number.
LEMMA NumberedAttempts ==
    \A o \in Orders : \A n \in 1..MaxAttempts : <<o, n>> \in Attempts /\ OrderOf(<<o, n>>) = o
BY DEF Attempts, OrderOf

\* No open attempt of an order is any of its attempts.
LEMMA NoneOpenFacts ==
    ASSUME NEW o \in Orders, NoneOpen(o), NEW a \in Attempts, OrderOf(a) = o
    PROVE  attempt[a] \notin Open
BY DEF NoneOpen, Attempts, OrderOf

\* A collection belongs to an attempt and through it to an order.
LEMMA CollectionFacts ==
    \A c \in Collections :
        /\ AttemptOf(c) \in Attempts /\ Payer(c) = OrderOf(AttemptOf(c)) /\ Payer(c) \in Orders
        /\ c[2] \in 1..MaxCollections /\ c # None
BY AttemptFacts, NoneIsNothing DEF Collections, AttemptOf, Payer

\* What a provider collected on an attempt is numbered.
LEMMA NumberedCollections ==
    \A a \in Attempts : \A n \in 1..MaxCollections :
        <<a, n>> \in Collections /\ AttemptOf(<<a, n>>) = a /\ <<a, n>>[2] = n
BY DEF Collections, AttemptOf

-----------------------------------------------------------------------------
(* Types                                                                    *)

RowsOK ==
    /\ order \in [Orders -> OrderStatus]
    /\ fulfillment \in [Orders -> {"not_started", "failed", "fulfilled"}]
    /\ confirmedBy \in [Orders -> Collections \cup {None}]
    /\ reservation \in [Orders -> {"reserved", "consumed", "released", "expired"}]
    /\ attempt \in [Attempts -> AttemptStatus]
    /\ provider \in [Attempts -> Providers \cup {None}]
    /\ windowOver \subseteq Attempts
    /\ link \in [Attempts -> {"none", "open", "closed"}]
    /\ collected \in [Attempts -> 0..MaxCollections]
    /\ settled \in [Collections -> {"none", "matched", "duplicate", "late"}]
    /\ retryCase \in [Orders -> {"none", "open", "resolved"}]
    /\ review \subseteq Attempts
    /\ seenCase \subseteq Handlers \X Orders
    /\ crashes \in 0..MaxCrashes

WithCollection == {"booking", "fulfilling", "failing", "flagging", "finalizing"}

JobOK(j) ==
    /\ j \in Jobs
    /\ j.step # "idle" => j.a \in Attempts
    /\ j.step \in WithCollection => j.c \in Collections

JobsOK == job \in [Handlers -> Jobs] /\ \A h \in Handlers : JobOK(job[h])

\* The types of the rows and of the jobs are the types of the state.
LEMMA TypeParts == TypeOK <=> RowsOK /\ JobsOK
BY DEF TypeOK, RowsOK, JobsOK, JobOK, WithCollection

\* A handler's next job is well formed: it keeps its attempt.
LEMMA JobSteps ==
    ASSUME JobsOK, NEW h \in Handlers, job[h].step # "idle"
    PROVE  /\ job[h].a \in Attempts
           /\ Ends(h) => JobsOK'
           /\ \A s \in Steps \ WithCollection : Moves(h, s) => JobsOK'
           /\ \A s \in Steps : job[h].c \in Collections /\ Moves(h, s) => JobsOK'
<1> USE DEF JobsOK, JobOK
<1>1. job[h].a \in Attempts
    OBVIOUS
<1>2. Ends(h) => JobsOK'
    BY DEF Ends, Idle, Jobs, Steps, Operations, WithCollection
<1>3. ASSUME NEW s \in Steps \ WithCollection, Moves(h, s) PROVE JobsOK'
    BY <1>1, <1>3 DEF Moves, Jobs, WithCollection
<1>4. ASSUME NEW s \in Steps, job[h].c \in Collections, Moves(h, s) PROVE JobsOK'
    BY <1>1, <1>4 DEF Moves, Jobs, WithCollection
<1> QED BY <1>1, <1>2, <1>3, <1>4

\* It takes an answer with it, or the collection it was told of.
LEMMA JobLearns ==
    ASSUME JobsOK, NEW h \in Handlers, job[h].step # "idle", NEW s \in Steps
    PROVE  /\ \A said \in Answers :
                s \notin WithCollection
                    /\ job' = [job EXCEPT ![h].step = s, ![h].said = said] => JobsOK'
           /\ \A c \in Collections :
                job' = [job EXCEPT ![h].step = s, ![h].c = c] => JobsOK'
<1> USE DEF JobsOK, JobOK
<1>0. job[h] \in Jobs /\ job[h].a \in Attempts
    OBVIOUS
<1>1. ASSUME NEW said \in Answers, s \notin WithCollection,
             job' = [job EXCEPT ![h].step = s, ![h].said = said]
      PROVE  JobsOK'
    <2>1. /\ DOMAIN job' = Handlers /\ job' = [k \in Handlers |-> job'[k]]
          /\ \A k \in Handlers : k # h => job'[k] = job[k]
        BY <1>1
    <2>2. /\ job'[h] \in Jobs /\ job'[h].step = s /\ job'[h].a = job[h].a
        BY <1>0, <1>1 DEF Jobs
    <2> QED BY <1>0, <1>1, <2>1, <2>2
<1>2. ASSUME NEW c \in Collections, job' = [job EXCEPT ![h].step = s, ![h].c = c]
      PROVE  JobsOK'
    <2>1. /\ DOMAIN job' = Handlers /\ job' = [k \in Handlers |-> job'[k]]
          /\ \A k \in Handlers : k # h => job'[k] = job[k]
        BY <1>2
    <2>2. /\ job'[h] \in Jobs /\ job'[h].step = s /\ job'[h].a = job[h].a
          /\ job'[h].c = c
        BY <1>0, <1>2 DEF Jobs
    <2> QED BY <1>0, <1>2, <2>1, <2>2
<1> QED BY <1>1, <1>2

\* A new job is well formed.
LEMMA JobStarts ==
    ASSUME JobsOK, NEW h \in Handlers, NEW s \in Steps, NEW op \in Operations,
           NEW a \in Attempts, NEW c \in Collections \cup {None},
           s \in WithCollection => c \in Collections, Starts(h, s, op, a, c)
    PROVE  JobsOK'
BY DEF JobsOK, JobOK, Starts, Jobs, WithCollection

\* Payment requests keep the types.
LEMMA RequestTypes == ASSUME RowsOK, JobsOK, NEW h \in Handlers, RequestNext(h)
                     PROVE  RowsOK' /\ JobsOK'
<1> USE DEF RowsOK, orderVars, externalVars, caseVars
<1>2. ASSUME NEW o \in Orders, NEW p \in Providers, Prepare(h, o, p) PROVE RowsOK' /\ JobsOK'
    <2>1. PICK n \in 1..MaxAttempts :
            /\ attempt' = [attempt EXCEPT ![<<o, n>>] = "created"]
            /\ provider' = [provider EXCEPT ![<<o, n>>] = p]
            /\ Starts(h, "asking", "request", <<o, n>>, None)
        BY <1>2 DEF Prepare
    <2>2. JobsOK'
        BY <2>1, NumberedAttempts, JobStarts DEF Steps, Operations, WithCollection
    <2>3. RowsOK'
        BY <1>2, <2>1, NumberedAttempts DEF Prepare, AttemptStatus
    <2> QED BY <2>2, <2>3
<1>3. CASE ProviderCreates(h)
    <2>1. JobsOK'
        BY <1>3, JobSteps DEF ProviderCreates, At, Steps, WithCollection
    <2> QED BY <1>3, <2>1, JobSteps DEF ProviderCreates, At
<1>4. CASE CreateUnanswered(h)
    <2>1. JobsOK'
        BY <1>4, JobSteps DEF CreateUnanswered, At, Steps, WithCollection
    <2> QED BY <1>4, <2>1, JobSteps DEF CreateUnanswered, At
<1>5. CASE ProviderRejects(h)
    <2>1. JobsOK'
        BY <1>5, JobSteps DEF ProviderRejects, At, Steps, WithCollection
    <2> QED BY <1>5, <2>1 DEF ProviderRejects
<1>6. CASE CompleteProviderRequest(h)
    <2>1. JobsOK'
        BY <1>6, JobSteps DEF CompleteProviderRequest, At
    <2> QED BY <1>6, <2>1 DEF CompleteProviderRequest, AttemptStatus
<1>7. CASE RecordProviderFailure(h)
    <2>1. JobsOK'
        BY <1>7, JobSteps DEF RecordProviderFailure, At
    <2> QED BY <1>7, <2>1 DEF RecordProviderFailure, AttemptStatus
<1> QED BY <1>2, <1>3, <1>4, <1>5, <1>6, <1>7 DEF RequestNext

\* Cancellation and expiry keep the types.
LEMMA ClosingTypes == ASSUME RowsOK, JobsOK, NEW h \in Handlers, ClosingNext(h)
                     PROVE  RowsOK' /\ JobsOK'
<1> USE DEF RowsOK, orderVars, externalVars, caseVars
<1>2. ASSUME NEW a \in Attempts, PrepareCancel(h, a) \/ SelectDue(h, a) PROVE RowsOK' /\ JobsOK'
    <2>1. JobsOK'
        BY <1>2, JobStarts DEF PrepareCancel, SelectDue, Steps, Operations, WithCollection
    <2> QED BY <1>2, <2>1 DEF PrepareCancel, SelectDue
<1>3. CASE CloseAtProvider(h)
    <2>1. PICK said \in Answers :
            job' = [job EXCEPT ![h].step = "finishing", ![h].said = said]
        BY <1>3 DEF CloseAtProvider, Answers
    <2>2. JobsOK'
        BY <1>3, <2>1, JobLearns DEF CloseAtProvider, At, Steps, WithCollection
    <2> QED BY <1>3, <2>2 DEF CloseAtProvider
<1>4. CASE PaidInstead(h)
    <2>1. job[h].a \in Attempts
        BY <1>4, JobSteps DEF PaidInstead, At
    <2>2. CASE Ends(h)
        BY <1>4, <2>1, <2>2, JobSteps DEF PaidInstead, At, Flags
    <2>3. CASE ~ Ends(h)
        <3>1. PICK n \in 1..collected[job[h].a] :
                job' = [job EXCEPT ![h].step = "booking", ![h].c = <<job[h].a, n>>]
            BY <1>4, <2>3 DEF PaidInstead
        <3>2. n \in 1..MaxCollections
            BY <2>1, Bounds
        <3>3. <<job[h].a, n>> \in Collections
            BY <2>1, <3>2, NumberedCollections
        <3>4. JobsOK'
            BY <1>4, <3>1, <3>3, JobLearns DEF PaidInstead, At, Steps
        <3> QED BY <1>4, <2>1, <2>3, <3>4 DEF PaidInstead, Flags
    <2> QED BY <2>2, <2>3
<1>5. CASE CloseUnanswered(h)
    <2>1. JobsOK' /\ job[h].a \in Attempts
        BY <1>5, JobSteps DEF CloseUnanswered, GivesUp, At
    <2> QED BY <1>5, <2>1 DEF CloseUnanswered, Flags
<1>6. CASE Finish(h)
    <2>1. JobsOK' /\ job[h].a \in Attempts
        BY <1>6, JobSteps DEF Finish, At
    <2>2. NextPayment(job[h]) \in AttemptStatus
        BY DEF NextPayment, AttemptStatus
    <2> QED BY <1>6, <2>1, <2>2, AttemptFacts DEF Finish, CloseOrder, OrderStatus
<1>7. CASE FinishTooLate(h)
    <2>1. JobsOK' /\ job[h].a \in Attempts
        BY <1>7, JobSteps DEF FinishTooLate, At
    <2> QED BY <1>7, <2>1 DEF FinishTooLate, Flags
<1> QED BY <1>2, <1>3, <1>4, <1>5, <1>6, <1>7 DEF ClosingNext

\* Reconciliation keeps the types.
LEMMA ReconciliationTypes ==
    ASSUME RowsOK, JobsOK, NEW h \in Handlers, ReconciliationNext(h)
    PROVE  RowsOK' /\ JobsOK'
<1> USE DEF RowsOK, orderVars, externalVars, caseVars
<1>1. ASSUME NEW a \in Attempts, SelectForReconciliation(h, a) PROVE RowsOK' /\ JobsOK'
    <2>1. \/ Starts(h, "querying", "reconciliation", a, None)
          \/ /\ confirmedBy[OrderOf(a)] \in Collections
             /\ Starts(h, "fulfilling", "reconciliation", a, confirmedBy[OrderOf(a)])
        BY <1>1, AttemptFacts DEF SelectForReconciliation, HandoffLost
    <2>2. JobsOK'
        BY <2>1, JobStarts DEF Steps, Operations, WithCollection
    <2> QED BY <1>1, <2>2 DEF SelectForReconciliation
<1>2. CASE QueryProvider(h)
    <2>1. job[h].step # "idle" /\ job[h].a \in Attempts
        BY <1>2, JobSteps DEF QueryProvider, At
    <2>2. CASE \E n \in 1..collected[job[h].a] :
                  job' = [job EXCEPT ![h].step = "checked", ![h].c = <<job[h].a, n>>]
        <3>1. PICK n \in 1..collected[job[h].a] :
                job' = [job EXCEPT ![h].step = "checked", ![h].c = <<job[h].a, n>>]
            BY <2>2
        <3>2. n \in 1..MaxCollections
            BY <2>1, Bounds
        <3>3. JobsOK'
            BY <2>1, <3>1, <3>2, NumberedCollections, JobLearns DEF Steps
        <3> QED BY <1>2, <3>3 DEF QueryProvider
    <2>3. CASE \E said \in Answers :
                  job' = [job EXCEPT ![h].step = "checked", ![h].said = said]
        BY <1>2, <2>1, <2>3, JobLearns DEF QueryProvider, Steps, WithCollection
    <2> QED BY <1>2, <2>2, <2>3 DEF QueryProvider, Answers
<1>3. CASE QueryUnanswered(h)
    <2>1. JobsOK' /\ job[h].a \in Attempts
        BY <1>3, JobSteps DEF QueryUnanswered, At
    <2> QED BY <1>3, <2>1 DEF QueryUnanswered, Flags
<1>4. CASE PersistCheckedFacts(h)
    <2>1. job[h].step # "idle" /\ job[h].a \in Attempts
        BY <1>4, JobSteps DEF PersistCheckedFacts, At
    <2>2. job[h].c = None \/ job[h].c \in Collections
        BY DEF JobsOK, JobOK, Jobs
    <2>3. JobsOK'
        BY <1>4, <2>1, <2>2, JobSteps DEF PersistCheckedFacts, Proven, Steps
    <2> QED BY <1>4, <2>1, <2>3 DEF PersistCheckedFacts, Flags, AttemptStatus
<1> QED BY <1>1, <1>2, <1>3, <1>4 DEF ReconciliationNext

\* A handler that books or delivers has a collection.
LEMMA BookingJob ==
    ASSUME JobsOK, NEW h \in Handlers, job[h].step \in WithCollection
    PROVE  /\ job[h].c \in Collections /\ job[h].a \in Attempts /\ job[h].step # "idle"
           /\ AttemptOf(job[h].c) \in Attempts
           /\ Payer(job[h].c) \in Orders /\ OrderOf(AttemptOf(job[h].c)) = Payer(job[h].c)
BY CollectionFacts DEF JobsOK, JobOK, WithCollection

\* Webhooks keep the types.
LEMMA WebhookTypes ==
    ASSUME RowsOK, JobsOK, NEW h \in Handlers, WebhookNext(h)
    PROVE  RowsOK' /\ JobsOK'
<1> USE DEF RowsOK, orderVars, externalVars, caseVars
<1>1. ASSUME NEW c \in Collections, Webhook(h, c) PROVE RowsOK' /\ JobsOK'
    <2>1. JobsOK'
        BY <1>1, CollectionFacts, JobStarts DEF Webhook, Steps, Operations, WithCollection
    <2> QED BY <1>1, <2>1 DEF Webhook
<1>2. CASE Confirm(h)
    <2>1. job[h].step \in WithCollection
        BY <1>2 DEF Confirm, Books, At, WithCollection
    <2>2. JobsOK'
        BY <1>2, <2>1, BookingJob, JobSteps DEF Confirm, Steps
    <2> QED BY <1>2, <2>1, <2>2, BookingJob DEF Confirm, Books, AttemptStatus, OrderStatus
<1>3. CASE RecordDuplicate(h)
    <2>1. job[h].step \in WithCollection
        BY <1>3 DEF RecordDuplicate, Books, At, WithCollection
    <2>2. JobsOK'
        BY <1>3, <2>1, BookingJob, JobSteps DEF RecordDuplicate
    <2> QED BY <1>3, <2>1, <2>2, BookingJob DEF RecordDuplicate, Books, Flags
<1>4. CASE RecordLate(h)
    <2>1. job[h].step \in WithCollection
        BY <1>4 DEF RecordLate, Books, At, WithCollection
    <2>2. JobsOK'
        BY <1>4, <2>1, BookingJob, JobSteps DEF RecordLate
    <2> QED BY <1>4, <2>1, <2>2, BookingJob
            DEF RecordLate, Books, Flags, AttemptStatus, OrderStatus
<1>5. CASE RecordMismatch(h) \/ Replay(h)
    <2>1. job[h].step \in WithCollection
        BY <1>5 DEF RecordMismatch, Replay, At, WithCollection
    <2>2. JobsOK'
        BY <1>5, <2>1, BookingJob, JobSteps DEF RecordMismatch, Replay, Steps
    <2> QED BY <1>5, <2>1, <2>2, BookingJob DEF RecordMismatch, Replay, Flags
<1> QED BY <1>1, <1>2, <1>3, <1>4, <1>5 DEF WebhookNext

\* Deliveries, their failures and resolutions keep the types.
LEMMA FulfillmentTypes ==
    ASSUME RowsOK, JobsOK, NEW h \in Handlers, FulfillmentNext(h)
    PROVE  RowsOK' /\ JobsOK'
<1> USE DEF RowsOK, orderVars, externalVars, caseVars
<1>1. ASSUME NEW o \in Orders, Resolve(h, o) PROVE RowsOK' /\ JobsOK'
    <2>1. confirmedBy[o] \in Collections /\ AttemptOf(confirmedBy[o]) \in Attempts
        BY <1>1, CollectionFacts DEF Resolve
    <2>2. JobsOK'
        BY <1>1, <2>1, JobStarts DEF Resolve, Steps, Operations, WithCollection
    <2> QED BY <1>1, <2>2 DEF Resolve
<1> SUFFICES ASSUME \A o \in Orders : ~ Resolve(h, o) PROVE RowsOK' /\ JobsOK'
    BY <1>1
<1>2. job[h].step \in WithCollection
    BY DEF FulfillmentNext, FulfillConfirmedPayment, FulfillmentFails,
        RecordFailure, FailureUnrecorded, FailureOvertaken, FlagUnfulfilled,
        FinalizeResolution, At, WithCollection
<1>3. CASE FulfillConfirmedPayment(h)
    <2>1. JobsOK'
        BY <1>2, <1>3, BookingJob, JobSteps DEF FulfillConfirmedPayment, Steps
    <2> QED BY <1>2, <1>3, <2>1, BookingJob DEF FulfillConfirmedPayment
<1>4. CASE FulfillmentFails(h) \/ FailureOvertaken(h)
    <2>1. JobsOK'
        BY <1>2, <1>4, BookingJob, JobSteps DEF FulfillmentFails, FailureOvertaken, Steps
    <2> QED BY <1>4, <2>1 DEF FulfillmentFails, FailureOvertaken
<1>6. ASSUME AfterFailure(h) PROVE JobsOK' /\ review' \subseteq Attempts
    <2>1. JobsOK'
        BY <1>2, <1>6, BookingJob, JobSteps DEF AfterFailure, Steps
    <2> QED BY <1>2, <1>6, <2>1, BookingJob DEF AfterFailure, Flags
<1>7. CASE RecordFailure(h)
    BY <1>2, <1>6, <1>7, BookingJob DEF RecordFailure, Reported, Touches
<1>8. CASE FailureUnrecorded(h)
    BY <1>6, <1>8 DEF FailureUnrecorded
<1>9. CASE FlagUnfulfilled(h)
    <2>1. JobsOK'
        BY <1>2, <1>9, BookingJob, JobSteps DEF FlagUnfulfilled
    <2> QED BY <1>2, <1>9, <2>1, BookingJob DEF FlagUnfulfilled, Reported, Touches
<1>10. CASE FinalizeResolution(h)
    <2>1. JobsOK'
        BY <1>2, <1>10, BookingJob, JobSteps DEF FinalizeResolution
    <2> QED BY <1>2, <1>10, <2>1, BookingJob DEF FinalizeResolution, Touches
<1> QED BY <1>3, <1>4, <1>7, <1>8, <1>9, <1>10 DEF FulfillmentNext

\* Buyers, time and crashes keep the types.
LEMMA OutsideTypes == ASSUME RowsOK, JobsOK, OutsideNext PROVE RowsOK' /\ JobsOK'
<1> USE DEF RowsOK, orderVars, externalVars, caseVars
<1>1. ASSUME NEW o \in Orders, CancelUnasked(o) PROVE RowsOK' /\ JobsOK'
    BY <1>1 DEF CancelUnasked, CloseOrder, OrderStatus, JobsOK
<1>2. ASSUME NEW a \in Attempts, Collect(a) PROVE RowsOK' /\ JobsOK'
    BY <1>2, Bounds DEF Collect, JobsOK
<1>3. ASSUME NEW a \in Attempts, WindowEnds(a) \/ LinkExpires(a) PROVE RowsOK' /\ JobsOK'
    BY <1>3 DEF WindowEnds, LinkExpires, JobsOK
<1>4. ASSUME NEW h \in Handlers, Crash(h) PROVE RowsOK' /\ JobsOK'
    <2>1. JobsOK'
        BY <1>4, JobSteps DEF Crash, At
    <2> QED BY <1>4, <2>1, Bounds DEF Crash
<1> QED BY <1>1, <1>2, <1>3, <1>4 DEF OutsideNext

\* Every step keeps the types.
LEMMA TypeStep == TypeOK /\ [Next]_vars => TypeOK'
<1> SUFFICES ASSUME TypeOK, [Next]_vars PROVE TypeOK'
    OBVIOUS
<1>1. RowsOK /\ JobsOK
    BY TypeParts
<1>2. RowsOK' /\ JobsOK'
    <2>1. ASSUME NEW h \in Handlers,
                 \/ RequestNext(h) \/ ClosingNext(h) \/ ReconciliationNext(h)
                 \/ WebhookNext(h) \/ FulfillmentNext(h)
          PROVE  RowsOK' /\ JobsOK'
        BY <1>1, <2>1, RequestTypes, ClosingTypes, ReconciliationTypes, WebhookTypes,
            FulfillmentTypes
    <2>2. CASE OutsideNext
        BY <1>1, <2>2, OutsideTypes
    <2>3. CASE UNCHANGED vars
        BY <1>1, <2>3 DEF vars, RowsOK, JobsOK
    <2> QED BY <2>1, <2>2, <2>3 DEF Next
<1> QED BY <1>2 DEF TypeOK, RowsOK, JobsOK, JobOK, WithCollection

\* Every variable has its type, and a handler that books has a collection to book.
THEOREM PaymentTypeOK == Spec => []TypeOK
<1>1. Init => TypeOK
    BY Bounds DEF Init, TypeOK, OrderStatus, AttemptStatus, Jobs, Idle, Steps, Operations
<1> QED BY <1>1, TypeStep, PTL DEF Spec

-----------------------------------------------------------------------------
(* Who writes what                                                          *)

\* A step is one handler's, or of the world outside.
LEMMA WhoSteps ==
    ASSUME [Next]_vars
    PROVE  \/ \E h \in Handlers :
                  \/ RequestNext(h) \/ ClosingNext(h) \/ ReconciliationNext(h)
                  \/ WebhookNext(h) \/ FulfillmentNext(h)
           \/ OutsideNext
           \/ UNCHANGED vars
BY DEF Next

\* The order and its settlements are written by five transactions.
LEMMA OrderWriters ==
    ASSUME [Next]_vars
    PROVE  \/ UNCHANGED <<order, confirmedBy, reservation, settled>>
           \/ \E h \in Handlers : Confirm(h) \/ RecordDuplicate(h) \/ RecordLate(h) \/ Finish(h)
           \/ \E o \in Orders : CancelUnasked(o)
<1> USE DEF orderVars
<1>1. ASSUME NEW h \in Handlers, RequestNext(h)
      PROVE  UNCHANGED <<order, confirmedBy, reservation, settled>>
    BY <1>1 DEF RequestNext, Prepare, ProviderCreates, CreateUnanswered, ProviderRejects,
        CompleteProviderRequest, RecordProviderFailure
<1>2. ASSUME NEW h \in Handlers, ClosingNext(h), ~ Finish(h)
      PROVE  UNCHANGED <<order, confirmedBy, reservation, settled>>
    BY <1>2 DEF ClosingNext, PrepareCancel, SelectDue, CloseAtProvider, PaidInstead,
        CloseUnanswered, FinishTooLate
<1>3. ASSUME NEW h \in Handlers, ReconciliationNext(h)
      PROVE  UNCHANGED <<order, confirmedBy, reservation, settled>>
    BY <1>3 DEF ReconciliationNext, SelectForReconciliation, QueryProvider, QueryUnanswered,
        PersistCheckedFacts
<1>4. ASSUME NEW h \in Handlers, WebhookNext(h),
             ~ Confirm(h), ~ RecordDuplicate(h), ~ RecordLate(h)
      PROVE  UNCHANGED <<order, confirmedBy, reservation, settled>>
    BY <1>4 DEF WebhookNext, Webhook, RecordMismatch, Replay
<1>5. ASSUME NEW h \in Handlers, FulfillmentNext(h)
      PROVE  UNCHANGED <<order, confirmedBy, reservation, settled>>
    BY <1>5 DEF FulfillmentNext, FulfillConfirmedPayment, FulfillmentFails,
        RecordFailure, FailureUnrecorded, FailureOvertaken, FlagUnfulfilled, Resolve,
        FinalizeResolution
<1>6. ASSUME OutsideNext, ~ \E o \in Orders : CancelUnasked(o)
      PROVE  UNCHANGED <<order, confirmedBy, reservation, settled>>
    BY <1>6 DEF OutsideNext, Collect, WindowEnds, LinkExpires, Crash
<1> QED BY <1>1, <1>2, <1>3, <1>4, <1>5, <1>6, WhoSteps DEF vars

\* The attempts are written by seven.
LEMMA AttemptWriters ==
    ASSUME [Next]_vars
    PROVE  \/ UNCHANGED <<attempt, provider>>
           \/ \E h \in Handlers :
                 \/ \E o \in Orders, p \in Providers : Prepare(h, o, p)
                 \/ CompleteProviderRequest(h) \/ RecordProviderFailure(h) \/ Finish(h)
                 \/ PersistCheckedFacts(h) \/ Confirm(h) \/ RecordLate(h)
<1>1. ASSUME NEW h \in Handlers, RequestNext(h), \A o \in Orders, p \in Providers : ~ Prepare(h,
            o, p),
             ~ CompleteProviderRequest(h), ~ RecordProviderFailure(h)
      PROVE  UNCHANGED <<attempt, provider>>
    BY <1>1 DEF RequestNext, ProviderCreates, CreateUnanswered, ProviderRejects
<1>2. ASSUME NEW h \in Handlers, ClosingNext(h), ~ Finish(h)
      PROVE  UNCHANGED <<attempt, provider>>
    BY <1>2 DEF ClosingNext, PrepareCancel, SelectDue, CloseAtProvider, PaidInstead,
        CloseUnanswered, FinishTooLate
<1>3. ASSUME NEW h \in Handlers, ReconciliationNext(h), ~ PersistCheckedFacts(h)
      PROVE  UNCHANGED <<attempt, provider>>
    BY <1>3 DEF ReconciliationNext, SelectForReconciliation, QueryProvider, QueryUnanswered
<1>4. ASSUME NEW h \in Handlers, WebhookNext(h), ~ Confirm(h), ~ RecordLate(h)
      PROVE  UNCHANGED <<attempt, provider>>
    BY <1>4 DEF WebhookNext, Webhook, RecordDuplicate, RecordMismatch, Replay, Books
<1>5. ASSUME NEW h \in Handlers, FulfillmentNext(h)
      PROVE  UNCHANGED <<attempt, provider>>
    BY <1>5 DEF FulfillmentNext, FulfillConfirmedPayment, FulfillmentFails,
        RecordFailure, FailureUnrecorded, FailureOvertaken, FlagUnfulfilled, Resolve,
        FinalizeResolution
<1>6. ASSUME OutsideNext
      PROVE  UNCHANGED <<attempt, provider>>
    BY <1>6 DEF OutsideNext, CancelUnasked, Collect, WindowEnds, LinkExpires, Crash
<1> QED BY <1>1, <1>2, <1>3, <1>4, <1>5, <1>6, WhoSteps DEF vars

\* The provider's links and what it collected change in seven.
LEMMA LinkWriters ==
    ASSUME [Next]_vars
    PROVE  \/ UNCHANGED <<link, collected>>
           \/ \E h \in Handlers :
                 \/ ProviderCreates(h) \/ CreateUnanswered(h) \/ CompleteProviderRequest(h)
                 \/ CloseAtProvider(h) \/ CloseUnanswered(h)
           \/ \E a \in Attempts : Collect(a) \/ LinkExpires(a)
<1> USE DEF externalVars
<1>1. ASSUME NEW h \in Handlers, RequestNext(h), ~ ProviderCreates(h), ~ CreateUnanswered(h),
             ~ CompleteProviderRequest(h)
      PROVE  UNCHANGED <<link, collected>>
    BY <1>1 DEF RequestNext, Prepare, ProviderRejects, RecordProviderFailure
<1>2. ASSUME NEW h \in Handlers, ClosingNext(h), ~ CloseAtProvider(h), ~ CloseUnanswered(h)
      PROVE  UNCHANGED <<link, collected>>
    BY <1>2 DEF ClosingNext, PrepareCancel, SelectDue, PaidInstead, Finish, FinishTooLate
<1>3. ASSUME NEW h \in Handlers, ReconciliationNext(h) PROVE UNCHANGED <<link, collected>>
    BY <1>3 DEF ReconciliationNext, SelectForReconciliation, QueryProvider, QueryUnanswered,
        PersistCheckedFacts
<1>4. ASSUME NEW h \in Handlers, WebhookNext(h) PROVE UNCHANGED <<link, collected>>
    BY <1>4 DEF WebhookNext, Webhook, Confirm, RecordDuplicate, RecordLate, RecordMismatch,
        Replay, Books
<1>5. ASSUME NEW h \in Handlers, FulfillmentNext(h) PROVE UNCHANGED <<link, collected>>
    BY <1>5 DEF FulfillmentNext, FulfillConfirmedPayment, FulfillmentFails,
        RecordFailure, FailureUnrecorded, FailureOvertaken, FlagUnfulfilled, Resolve,
        FinalizeResolution
<1>6. ASSUME OutsideNext, \A a \in Attempts : ~ Collect(a) /\ ~ LinkExpires(a)
      PROVE  UNCHANGED <<link, collected>>
    BY <1>6 DEF OutsideNext, CancelUnasked, WindowEnds, Crash
<1> QED BY <1>1, <1>2, <1>3, <1>4, <1>5, <1>6, WhoSteps DEF vars

\* Deliveries and their cases change in four.
LEMMA DeliveryWriters ==
    ASSUME [Next]_vars
    PROVE  \/ UNCHANGED <<fulfillment, retryCase>>
           \/ \E h \in Handlers :
                 \/ FulfillConfirmedPayment(h) \/ RecordFailure(h) \/ FlagUnfulfilled(h)
                 \/ FinalizeResolution(h)
<1> USE DEF orderVars, caseVars
<1>1. ASSUME NEW h \in Handlers, RequestNext(h) PROVE UNCHANGED <<fulfillment, retryCase>>
    BY <1>1 DEF RequestNext, Prepare, ProviderCreates, CreateUnanswered, ProviderRejects,
        CompleteProviderRequest, RecordProviderFailure
<1>2. ASSUME NEW h \in Handlers, ClosingNext(h) PROVE UNCHANGED <<fulfillment, retryCase>>
    BY <1>2 DEF ClosingNext, PrepareCancel, SelectDue, CloseAtProvider, PaidInstead,
        CloseUnanswered, Finish, FinishTooLate, CloseOrder
<1>3. ASSUME NEW h \in Handlers, ReconciliationNext(h) PROVE UNCHANGED <<fulfillment, retryCase>>
    BY <1>3 DEF ReconciliationNext, SelectForReconciliation, QueryProvider, QueryUnanswered,
        PersistCheckedFacts
<1>4. ASSUME NEW h \in Handlers, WebhookNext(h) PROVE UNCHANGED <<fulfillment, retryCase>>
    BY <1>4 DEF WebhookNext, Webhook, Confirm, RecordDuplicate, RecordLate, RecordMismatch,
        Replay, Books
<1>5. ASSUME NEW h \in Handlers, FulfillmentNext(h), ~ FulfillConfirmedPayment(h),
             ~ RecordFailure(h), ~ FlagUnfulfilled(h), ~ FinalizeResolution(h)
      PROVE  UNCHANGED <<fulfillment, retryCase>>
    BY <1>5 DEF FulfillmentNext, FulfillmentFails, FailureUnrecorded,
        FailureOvertaken, Resolve
<1>6. ASSUME OutsideNext PROVE UNCHANGED <<fulfillment, retryCase>>
    BY <1>6 DEF OutsideNext, CancelUnasked, Collect, WindowEnds, LinkExpires, Crash, CloseOrder
<1> QED BY <1>1, <1>2, <1>3, <1>4, <1>5, <1>6, WhoSteps DEF vars

\* Review cases are never taken away.
LEMMA ReviewGrows == ASSUME [Next]_vars PROVE review \subseteq review'
<1> USE DEF caseVars, Flags
<1>1. ASSUME NEW h \in Handlers, RequestNext(h) PROVE review \subseteq review'
    BY <1>1 DEF RequestNext, Prepare, ProviderCreates, CreateUnanswered, ProviderRejects,
        CompleteProviderRequest, RecordProviderFailure
<1>2. ASSUME NEW h \in Handlers, ClosingNext(h) PROVE review \subseteq review'
    BY <1>2 DEF ClosingNext, PrepareCancel, SelectDue, CloseAtProvider, PaidInstead,
        CloseUnanswered, Finish, FinishTooLate
<1>3. ASSUME NEW h \in Handlers, ReconciliationNext(h) PROVE review \subseteq review'
    BY <1>3 DEF ReconciliationNext, SelectForReconciliation, QueryProvider, QueryUnanswered,
        PersistCheckedFacts
<1>4. ASSUME NEW h \in Handlers, WebhookNext(h) PROVE review \subseteq review'
    BY <1>4 DEF WebhookNext, Webhook, Confirm, RecordDuplicate, RecordLate, RecordMismatch,
        Replay
<1>5. ASSUME NEW h \in Handlers, FulfillmentNext(h) PROVE review \subseteq review'
    BY <1>5 DEF FulfillmentNext, FulfillConfirmedPayment, FulfillmentFails,
        RecordFailure, FailureUnrecorded, FailureOvertaken, FlagUnfulfilled, Resolve,
        FinalizeResolution, AfterFailure
<1>6. ASSUME OutsideNext PROVE review \subseteq review'
    BY <1>6 DEF OutsideNext, CancelUnasked, Collect, WindowEnds, LinkExpires, Crash
<1> QED BY <1>1, <1>2, <1>3, <1>4, <1>5, <1>6, WhoSteps DEF vars

-----------------------------------------------------------------------------
(* Orders, settlements and benefits                                         *)

\* The parts of the invariant most steps need.
LEMMA IInvParts ==
    ASSUME IInv
    PROVE  /\ RowsOK /\ JobsOK /\ EvidenceFitsOrder /\ BenefitFollowsOrder
           /\ CasesFollowFulfillment /\ AttemptsFollowOrder
BY TypeParts DEF IInv

\* A booked collection was collected.
LEMMA BookingFits ==
    ASSUME IInv, NEW h \in Handlers, job[h].step \in WithCollection
    PROVE  job[h].c[2] <= collected[AttemptOf(job[h].c)]
BY BookingJob, CollectionFacts, TypeParts DEF IInv, JobsFitRows, JobFits

\* Providers do not take a collection back.
LEMMA CollectedGrows ==
    ASSUME IInv, [Next]_vars, NEW a \in Attempts
    PROVE  collected'[a] \in Nat /\ collected[a] \in Nat /\ collected[a] <= collected'[a]
<1> USE IInvParts, Bounds DEF RowsOK
<1>1. ASSUME NEW b \in Attempts, Collect(b) PROVE collected[a] <= collected'[a]
    BY <1>1 DEF Collect
<1>2. ASSUME ~ \E b \in Attempts : Collect(b) PROVE collected' = collected
    BY <1>2, LinkWriters DEF ProviderCreates, CreateUnanswered, CompleteProviderRequest,
        CloseAtProvider, CloseUnanswered, LinkExpires
<1>3. TypeOK'
    BY TypeStep DEF IInv
<1>4. collected'[a] \in 0..MaxCollections
    BY <1>3 DEF TypeOK
<1> QED BY <1>1, <1>2, <1>4

\* The evidence fits the order after every step.
LEMMA EvidenceStep == ASSUME IInv, [Next]_vars PROVE EvidenceFitsOrder'
<1> USE IInvParts DEF RowsOK, EvidenceFitsOrder, AttemptsFollowOrder
<1>1. \A c \in Collections : settled[c] # "none" => c[2] <= collected'[AttemptOf(c)]
    BY CollectedGrows, CollectionFacts
<1>2. CASE UNCHANGED <<order, confirmedBy, reservation, settled>>
    BY <1>1, <1>2, ReviewGrows
<1>3. ASSUME NEW h \in Handlers, Confirm(h) PROVE EvidenceFitsOrder'
    <2>1. job[h].step \in WithCollection
        BY <1>3 DEF Confirm, Books, At, WithCollection
    <2>2. order[Payer(job[h].c)] = "pending_payment" /\ confirmedBy[Payer(job[h].c)] = None
        BY <1>3, <2>1, BookingJob DEF Confirm, Undecided
    <2>3. job[h].c[2] <= collected'[AttemptOf(job[h].c)]
        BY <2>1, BookingJob, BookingFits, CollectedGrows, CollectionFacts
    <2> QED BY <1>1, <1>3, <2>1, <2>2, <2>3, BookingJob, CollectionFacts, ReviewGrows
            DEF Confirm, Books, NotBooked
<1>4. ASSUME NEW h \in Handlers, RecordDuplicate(h) PROVE EvidenceFitsOrder'
    <2>1. job[h].step \in WithCollection
        BY <1>4 DEF RecordDuplicate, Books, At, WithCollection
    <2>2. order[Payer(job[h].c)] = "confirmed"
        BY <1>4, <2>1, BookingJob DEF RecordDuplicate, IsDuplicate
    <2>3. job[h].c[2] <= collected'[AttemptOf(job[h].c)]
        BY <2>1, BookingJob, BookingFits, CollectedGrows, CollectionFacts
    <2> QED BY <1>1, <1>4, <2>1, <2>2, <2>3, BookingJob, CollectionFacts
            DEF RecordDuplicate, Books, NotBooked, Flags, orderVars
<1>5. ASSUME NEW h \in Handlers, RecordLate(h) PROVE EvidenceFitsOrder'
    <2>1. job[h].step \in WithCollection
        BY <1>5 DEF RecordLate, Books, At, WithCollection
    <2>2. order[Payer(job[h].c)] \in Closed
        BY <1>5, <2>1, BookingJob DEF RecordLate, IsLate
    <2>3. job[h].c[2] <= collected'[AttemptOf(job[h].c)]
        BY <2>1, BookingJob, BookingFits, CollectedGrows, CollectionFacts
    <2> QED BY <1>1, <1>5, <2>1, <2>2, <2>3, BookingJob, CollectionFacts
            DEF RecordLate, Books, NotBooked, Flags, Closed
<1>6. ASSUME NEW h \in Handlers, Finish(h) PROVE EvidenceFitsOrder'
    <2>1. job[h].a \in Attempts
        BY <1>6, JobSteps DEF Finish, At
    <2> QED BY <1>1, <1>6, <2>1, AttemptFacts, CollectionFacts, ReviewGrows
            DEF Finish, CloseOrder, Undecided
<1>7. ASSUME NEW o \in Orders, CancelUnasked(o) PROVE EvidenceFitsOrder'
    BY <1>1, <1>7, CollectionFacts, ReviewGrows DEF CancelUnasked, CloseOrder
<1> QED BY <1>2, <1>3, <1>4, <1>5, <1>6, <1>7, OrderWriters

\* An order once confirmed stays so, and one once decided is not pending again.
LEMMA OrderMoves ==
    ASSUME IInv, [Next]_vars, NEW o \in Orders
    PROVE  /\ order[o] = "confirmed" => order'[o] = "confirmed"
           /\ order[o] # "pending_payment" => order'[o] # "pending_payment"
           /\ \/ order'[o] = order[o]
              \/ order[o] = "pending_payment" /\ order'[o] \in {"confirmed"} \cup Closed
              \/ order[o] \in Closed /\ order'[o] = "late_payment_review"
<1> USE IInvParts DEF RowsOK, Closed
<1>1. ASSUME NEW h \in Handlers, Confirm(h)
      PROVE  order'[o] = order[o] \/ (order[o] = "pending_payment" /\ order'[o] = "confirmed")
    <2>1. job[h].step \in WithCollection
        BY <1>1 DEF Confirm, Books, At, WithCollection
    <2> QED BY <1>1, <2>1, BookingJob DEF Confirm, Undecided
<1>2. ASSUME NEW h \in Handlers, RecordLate(h)
      PROVE  order'[o] = order[o] \/ (order[o] \in Closed /\ order'[o] = "late_payment_review")
    <2>1. job[h].step \in WithCollection
        BY <1>2 DEF RecordLate, Books, At, WithCollection
    <2> QED BY <1>2, <2>1, BookingJob DEF RecordLate, IsLate
<1>3. ASSUME NEW h \in Handlers, Finish(h)
      PROVE  order'[o] = order[o] \/ (order[o] = "pending_payment" /\ order'[o] \in Closed)
    <2>1. job[h].a \in Attempts
        BY <1>3, JobSteps DEF Finish, At
    <2> QED BY <1>3, <2>1, AttemptFacts DEF Finish, CloseOrder, Undecided
<1>4. ASSUME NEW q \in Orders, CancelUnasked(q)
      PROVE  order'[o] = order[o] \/ (order[o] = "pending_payment" /\ order'[o] \in Closed)
    BY <1>4 DEF CancelUnasked, CloseOrder
<1>5. \/ order'[o] = order[o]
      \/ order[o] = "pending_payment" /\ order'[o] \in {"confirmed"} \cup Closed
      \/ order[o] \in Closed /\ order'[o] = "late_payment_review"
    BY <1>1, <1>2, <1>3, <1>4, OrderWriters DEF RecordDuplicate, orderVars
<1> QED BY <1>5

\* Benefits and the voucher follow the order after every step.
LEMMA BenefitStep == ASSUME IInv, [Next]_vars PROVE BenefitFollowsOrder'
<1> USE IInvParts DEF RowsOK, BenefitFollowsOrder
<1>1. \A o \in Orders : fulfillment'[o] # "not_started" => order'[o] = "confirmed"
    <2>1. ASSUME NEW h \in Handlers, FulfillConfirmedPayment(h) \/ RecordFailure(h),
                NEW o \in Orders
          PROVE  fulfillment'[o] # "not_started" => order[o] = "confirmed"
        <3>1. job[h].step \in WithCollection
            BY <2>1 DEF FulfillConfirmedPayment, RecordFailure, At, WithCollection
        <3> QED BY <2>1, <3>1, BookingJob DEF FulfillConfirmedPayment, RecordFailure, Canonical
    <2>2. ASSUME \A h \in Handlers : ~ FulfillConfirmedPayment(h) /\ ~ RecordFailure(h)
          PROVE  fulfillment' = fulfillment
        BY <2>2, DeliveryWriters DEF FlagUnfulfilled, FinalizeResolution, orderVars
    <2> QED BY <2>1, <2>2, OrderMoves
<1> DEFINE Follows == \A o \in Orders :
        /\ reservation[o] = "consumed" <=> order[o] = "confirmed"
        /\ reservation[o] = "reserved" <=> order[o] = "pending_payment"
<1>2. Follows'
    <2>1. CASE UNCHANGED <<order, confirmedBy, reservation, settled>>
        BY <2>1
    <2>2. ASSUME NEW h \in Handlers, Confirm(h) \/ RecordDuplicate(h) \/ RecordLate(h)
          PROVE Follows'
        <3>1. job[h].step \in WithCollection
            BY <2>2 DEF Confirm, RecordDuplicate, RecordLate, Books, At, WithCollection
        <3> QED BY <2>2, <3>1, BookingJob
                DEF Confirm, RecordDuplicate, RecordLate, Books, IsLate, Closed, orderVars
    <2>3. ASSUME NEW h \in Handlers, Finish(h) PROVE Follows'
        <3>1. job[h].a \in Attempts
            BY <2>3, JobSteps DEF Finish, At
        <3> QED BY <2>3, <3>1, AttemptFacts DEF Finish, CloseOrder
    <2>4. ASSUME NEW o \in Orders, CancelUnasked(o) PROVE Follows'
        BY <2>4 DEF CancelUnasked, CloseOrder
    <2> QED BY <2>1, <2>2, <2>3, <2>4, OrderWriters
<1> QED BY <1>1, <1>2

\* What is delivered stays delivered.
LEMMA DeliveredStays ==
    ASSUME IInv, [Next]_vars, NEW o \in Orders, fulfillment[o] = "fulfilled"
    PROVE  fulfillment'[o] = "fulfilled"
<1> USE IInvParts DEF RowsOK
<1>1. ASSUME NEW h \in Handlers, FulfillConfirmedPayment(h) \/ RecordFailure(h)
      PROVE  fulfillment'[o] = "fulfilled"
    BY <1>1 DEF FulfillConfirmedPayment, RecordFailure, Unfulfilled
<1> QED BY <1>1, DeliveryWriters DEF FlagUnfulfilled, FinalizeResolution, orderVars

\* Cases follow the delivery after every step.
LEMMA CasesStep == ASSUME IInv, [Next]_vars PROVE CasesFollowFulfillment'
<1> USE IInvParts DEF RowsOK, CasesFollowFulfillment
<1>1. CASE UNCHANGED <<fulfillment, retryCase>>
    BY <1>1, OrderMoves
<1>2. ASSUME NEW h \in Handlers, FulfillConfirmedPayment(h) PROVE CasesFollowFulfillment'
    BY <1>2, OrderMoves DEF FulfillConfirmedPayment, caseVars
<1>3. ASSUME NEW h \in Handlers, RecordFailure(h) PROVE CasesFollowFulfillment'
    <2>1. job[h].step \in WithCollection
        BY <1>3 DEF RecordFailure, At, WithCollection
    <2> QED BY <1>3, <2>1, BookingJob, OrderMoves
            DEF RecordFailure, Canonical, Reported, Unfulfilled
<1>4. ASSUME NEW h \in Handlers, FlagUnfulfilled(h) PROVE CasesFollowFulfillment'
    <2>1. job[h].step = "flagging" /\ job[h].step \in WithCollection
        BY <1>4 DEF FlagUnfulfilled, At, WithCollection
    <2>2. order[Payer(job[h].c)] = "confirmed"
        <3>1. confirmedBy[Payer(job[h].c)] = job[h].c
            BY <2>1 DEF IInv, JobsFitRows, JobFits, Delivering
        <3> QED BY <2>1, <3>1, BookingJob, CollectionFacts DEF EvidenceFitsOrder
    <2> QED BY <1>4, <2>1, <2>2, BookingJob, OrderMoves DEF FlagUnfulfilled, Reported, orderVars
<1>5. ASSUME NEW h \in Handlers, FinalizeResolution(h) PROVE CasesFollowFulfillment'
    <2>1. job[h].step \in WithCollection
        BY <1>5 DEF FinalizeResolution, At, WithCollection
    <2> QED BY <1>5, <2>1, BookingJob, OrderMoves
            DEF FinalizeResolution, Unfulfilled, Canonical, orderVars
<1> QED BY <1>1, <1>2, <1>3, <1>4, <1>5, DeliveryWriters

-----------------------------------------------------------------------------
(* Attempts and links                                                       *)

\* A handler that is at work works on an attempt that was made.
LEMMA WorkingJob ==
    ASSUME IInv, NEW h \in Handlers, job[h].step # "idle"
    PROVE  job[h].a \in Attempts /\ OrderOf(job[h].a) \in Orders /\ attempt[job[h].a] # "none"
BY JobSteps, IInvParts, AttemptFacts DEF IInv, JobsFitRows, JobFits

\* An attempt that is booked was made: something was collected on it.
LEMMA BookedAttempt ==
    ASSUME IInv, NEW h \in Handlers, job[h].step \in WithCollection
    PROVE  attempt[AttemptOf(job[h].c)] # "none"
<1>1. job[h].c[2] <= collected[AttemptOf(job[h].c)] /\ job[h].c[2] \in 1..MaxCollections
    BY BookingFits, BookingJob, IInvParts, CollectionFacts
<1>2. AttemptOf(job[h].c) \in Attempts /\ collected[AttemptOf(job[h].c)] \in Nat
    BY BookingJob, IInvParts, Bounds DEF RowsOK
<1>3. collected[AttemptOf(job[h].c)] > 0
    BY <1>1, <1>2, Bounds
<1> QED BY <1>2, <1>3, IInvParts DEF AttemptsFollowOrder

\* A payment request writes a row that was not there.
LEMMA PrepareFacts ==
    ASSUME IInv, NEW h \in Handlers, NEW o \in Orders, NEW p \in Providers, Prepare(h, o, p)
    PROVE  \E a \in Attempts :
              /\ OrderOf(a) = o /\ attempt[a] = "none" /\ order[o] = "pending_payment"
              /\ \A b \in Attempts : OrderOf(b) = o => attempt[b] \notin Open
              /\ attempt' = [attempt EXCEPT ![a] = "created"]
              /\ provider' = [provider EXCEPT ![a] = p]
              /\ Starts(h, "asking", "request", a, None)
              /\ UNCHANGED <<order, link, collected>>
<1>1. PICK n \in 1..MaxAttempts :
        /\ attempt[<<o, n>>] = "none"
        /\ attempt' = [attempt EXCEPT ![<<o, n>>] = "created"]
        /\ provider' = [provider EXCEPT ![<<o, n>>] = p]
        /\ Starts(h, "asking", "request", <<o, n>>, None)
    BY DEF Prepare
<1>2. <<o, n>> \in Attempts /\ OrderOf(<<o, n>>) = o
    BY NumberedAttempts
<1>3. \A b \in Attempts : OrderOf(b) = o => attempt[b] \notin Open
    BY NoneOpenFacts DEF Prepare
<1>4. order[o] = "pending_payment" /\ UNCHANGED <<order, link, collected>>
    BY DEF Prepare, orderVars, externalVars
<1> QED BY <1>1, <1>2, <1>3, <1>4

\* Neither an attempt, nor its provider, nor its link goes away.
LEMMA AttemptStays ==
    ASSUME IInv, [Next]_vars, NEW a \in Attempts, attempt[a] # "none"
    PROVE  attempt'[a] # "none" /\ provider'[a] = provider[a]
<1> USE IInvParts DEF RowsOK
<1>1. ASSUME NEW h \in Handlers, NEW o \in Orders, NEW p \in Providers, Prepare(h, o, p)
      PROVE  attempt'[a] # "none" /\ provider'[a] = provider[a]
    BY <1>1, PrepareFacts
<1>2. ASSUME NEW h \in Handlers, CompleteProviderRequest(h) \/ RecordProviderFailure(h)
      PROVE  attempt'[a] # "none" /\ provider'[a] = provider[a]
    BY <1>2 DEF CompleteProviderRequest, RecordProviderFailure
<1>3. ASSUME NEW h \in Handlers, Finish(h)
      PROVE  attempt'[a] # "none" /\ provider'[a] = provider[a]
    BY <1>3 DEF Finish, NextPayment
<1>4. ASSUME NEW h \in Handlers, PersistCheckedFacts(h)
      PROVE  attempt'[a] # "none" /\ provider'[a] = provider[a]
    BY <1>4 DEF PersistCheckedFacts
<1>5. ASSUME NEW h \in Handlers, Confirm(h) \/ RecordLate(h)
      PROVE  attempt'[a] # "none" /\ provider'[a] = provider[a]
    BY <1>5 DEF Confirm, RecordLate, Books
<1> QED BY <1>1, <1>2, <1>3, <1>4, <1>5, AttemptWriters

\* A link that was opened is open or closed ever after.
LEMMA LinkStays ==
    ASSUME IInv, [Next]_vars, NEW a \in Attempts, link[a] # "none"
    PROVE  link'[a] # "none"
<1> USE IInvParts DEF RowsOK
<1>1. ASSUME NEW h \in Handlers,
             ProviderCreates(h) \/ CreateUnanswered(h) \/ CompleteProviderRequest(h)
      PROVE  link'[a] # "none"
    BY <1>1 DEF ProviderCreates, CreateUnanswered, CompleteProviderRequest
<1>2. ASSUME NEW h \in Handlers, CloseAtProvider(h) \/ CloseUnanswered(h)
      PROVE  link'[a] # "none"
    BY <1>2 DEF CloseAtProvider, CloseUnanswered
<1>3. ASSUME NEW b \in Attempts, Collect(b) \/ LinkExpires(b) PROVE link'[a] # "none"
    BY <1>3 DEF Collect, LinkExpires
<1> QED BY <1>1, <1>2, <1>3, LinkWriters

\* An attempt becomes pending only when the provider is known to have its link.
LEMMA PendingHasLink ==
    ASSUME IInv, [Next]_vars, NEW a \in Attempts, attempt'[a] \in Taken \cup {"pending"}
    PROVE  link'[a] # "none"
<1> USE IInvParts DEF RowsOK, Taken
<1>1. CASE link[a] # "none"
    BY <1>1, LinkStays
<1>2. CASE link[a] = "none"
    <2>1. attempt[a] \notin Taken \cup {"pending"} /\ attempt'[a] # attempt[a]
        BY <1>2 DEF AttemptsFollowOrder
    <2>2. ASSUME NEW h \in Handlers, NEW o \in Orders, NEW p \in Providers, Prepare(h, o, p)
          PROVE  FALSE
        BY <2>1, <2>2, PrepareFacts
    <2>3. ASSUME NEW h \in Handlers, CompleteProviderRequest(h) PROVE link'[a] # "none"
        <3>1. job[h].step = "opening" /\ job[h].a \in Attempts
            BY <2>3, JobSteps DEF CompleteProviderRequest, At
        <3>2. job[h].a = a
            BY <2>1, <2>3, <3>1 DEF CompleteProviderRequest
        <3>3. provider[a] # "payos"
            BY <1>2, <3>1, <3>2 DEF IInv, JobsFitRows, JobFits
        <3>4. provider[a] = "vnpay"
            <4>1. attempt[a] # "none"
                BY <3>1, <3>2, WorkingJob
            <4> QED BY <3>3, <4>1 DEF IInv, Requested, Providers
        <3> QED BY <2>1, <2>3, <3>2, <3>4 DEF CompleteProviderRequest
    <2>4. ASSUME NEW h \in Handlers, RecordProviderFailure(h) PROVE FALSE
        BY <2>1, <2>4 DEF RecordProviderFailure
    <2>5. ASSUME NEW h \in Handlers, Finish(h) PROVE FALSE
        <3>1. job[h].a \in Attempts
            BY <2>5, JobSteps DEF Finish, At
        <3> QED BY <2>1, <2>5, <3>1 DEF Finish, Undecided
    <2>6. ASSUME NEW h \in Handlers, PersistCheckedFacts(h) PROVE FALSE
        <3>1. job[h].step = "checked" /\ job[h].a \in Attempts
            BY <2>6, JobSteps DEF PersistCheckedFacts, At
        <3>2. link[job[h].a] # "none"
            BY <3>1 DEF IInv, JobsFitRows, JobFits
        <3> QED BY <1>2, <2>1, <2>6, <3>1, <3>2 DEF PersistCheckedFacts
    <2>7. ASSUME NEW h \in Handlers, Confirm(h) \/ RecordLate(h) PROVE FALSE
        <3>1. job[h].step \in WithCollection
            BY <2>7 DEF Confirm, RecordLate, Books, At, WithCollection
        <3> QED BY <2>1, <2>7, <3>1, BookingJob DEF Confirm, RecordLate, Undecided, IsLate, Closed
    <2> QED BY <2>1, <2>2, <2>3, <2>4, <2>5, <2>6, <2>7, AttemptWriters
<1> QED BY <1>1, <1>2

\* Attempts follow their order after every step.
LEMMA AttemptsStep == ASSUME IInv, [Next]_vars PROVE AttemptsFollowOrder'
<1> USE IInvParts DEF RowsOK
<1> SUFFICES ASSUME NEW a \in Attempts
             PROVE  /\ attempt'[a] = "paid" => order'[OrderOf(a)] = "confirmed"
                    /\ attempt'[a] \in Taken => order'[OrderOf(a)] # "pending_payment"
                    /\ attempt'[a] \in Taken \cup {"pending"} => link'[a] # "none"
                    /\ collected'[a] > 0 => attempt'[a] # "none"
    BY DEF AttemptsFollowOrder
<1>1. attempt'[a] \in Taken \cup {"pending"} => link'[a] # "none"
    BY PendingHasLink
<1>2. collected'[a] > 0 => attempt'[a] # "none"
    <2>1. CASE collected'[a] = collected[a]
        BY <2>1, AttemptStays DEF AttemptsFollowOrder
    <2>2. CASE collected'[a] # collected[a]
        <3>1. Collect(a)
            BY <2>2, LinkWriters DEF ProviderCreates, CreateUnanswered, CompleteProviderRequest,
                CloseAtProvider, CloseUnanswered, LinkExpires, Collect
        <3> QED BY <3>1, AttemptStays DEF Collect
    <2> QED BY <2>1, <2>2
<1>3. /\ attempt'[a] = "paid" => order'[OrderOf(a)] = "confirmed"
      /\ attempt'[a] \in Taken => order'[OrderOf(a)] # "pending_payment"
    <2>1. CASE attempt'[a] = attempt[a]
        BY <2>1, OrderMoves, AttemptFacts DEF AttemptsFollowOrder
    <2>2. ASSUME NEW h \in Handlers, NEW o \in Orders, NEW p \in Providers, Prepare(h, o, p),
                 attempt'[a] # attempt[a]
          PROVE  attempt'[a] \notin Taken
        BY <2>2, PrepareFacts DEF Taken
    <2>3. ASSUME NEW h \in Handlers, attempt'[a] # attempt[a],
                 \/ CompleteProviderRequest(h) \/ RecordProviderFailure(h)
                 \/ PersistCheckedFacts(h)
          PROVE  attempt'[a] \notin Taken
        BY <2>3 DEF CompleteProviderRequest, RecordProviderFailure, PersistCheckedFacts, Taken
    <2>4. ASSUME NEW h \in Handlers, Finish(h), attempt'[a] # attempt[a]
          PROVE  attempt'[a] # "paid" /\ order'[OrderOf(a)] # "pending_payment"
        BY <2>4, AttemptFacts DEF Finish, CloseOrder, NextPayment
    <2>5. ASSUME NEW h \in Handlers, Confirm(h), attempt'[a] # attempt[a]
          PROVE  order'[OrderOf(a)] = "confirmed"
        BY <2>5, AttemptFacts DEF Confirm, Payer
    <2>6. ASSUME NEW h \in Handlers, RecordLate(h), attempt'[a] # attempt[a]
          PROVE  attempt'[a] # "paid" /\ order'[OrderOf(a)] # "pending_payment"
        BY <2>6, AttemptFacts DEF RecordLate
    <2> QED BY <2>1, <2>2, <2>3, <2>4, <2>5, <2>6, AttemptWriters DEF Taken
<1> QED BY <1>1, <1>2, <1>3

\* The provider of an attempt is known after every step.
LEMMA RequestedStep == ASSUME IInv, [Next]_vars PROVE Requested'
<1> USE IInvParts DEF RowsOK
<1>1. ASSUME NEW a \in Attempts, attempt[a] # "none" PROVE provider'[a] \in Providers
    BY <1>1, AttemptStays DEF IInv, Requested
<1>2. ASSUME NEW a \in Attempts, attempt[a] = "none", attempt'[a] # "none"
      PROVE  provider'[a] \in Providers
    <2>1. ASSUME NEW h \in Handlers, NEW o \in Orders, NEW p \in Providers, Prepare(h, o, p)
          PROVE  provider'[a] \in Providers
        BY <1>2, <2>1, PrepareFacts
    <2>2. ASSUME NEW h \in Handlers,
                 \/ CompleteProviderRequest(h) \/ RecordProviderFailure(h) \/ Finish(h)
                 \/ PersistCheckedFacts(h)
          PROVE  FALSE
        <3>1. job[h].step # "idle"
            BY <2>2 DEF CompleteProviderRequest, RecordProviderFailure, Finish,
                PersistCheckedFacts, At
        <3>2. job[h].a # a
            BY <1>2, <3>1, WorkingJob
        <3> QED BY <1>2, <2>2, <3>2 DEF CompleteProviderRequest, RecordProviderFailure, Finish,
                PersistCheckedFacts
    <2>3. ASSUME NEW h \in Handlers, Confirm(h) \/ RecordLate(h) PROVE FALSE
        <3>1. job[h].step \in WithCollection
            BY <2>3 DEF Confirm, RecordLate, Books, At, WithCollection
        <3> QED BY <1>2, <2>3, <3>1, BookingJob, BookedAttempt DEF Confirm, RecordLate
    <2> QED BY <1>2, <2>1, <2>2, <2>3, AttemptWriters
<1>3. ASSUME NEW a \in Attempts, attempt'[a] = "none" PROVE link'[a] = "none"
    <2>1. attempt[a] = "none" /\ link[a] = "none"
        BY <1>3, AttemptStays DEF IInv, Requested
    <2>2. ASSUME NEW h \in Handlers,
                 \/ ProviderCreates(h) \/ CreateUnanswered(h) \/ CompleteProviderRequest(h)
                 \/ CloseAtProvider(h) \/ CloseUnanswered(h)
          PROVE  link'[a] = "none"
        <3>1. job[h].step # "idle"
            BY <2>2 DEF ProviderCreates, CreateUnanswered, CompleteProviderRequest,
                CloseAtProvider, CloseUnanswered, At
        <3>2. job[h].a # a
            BY <2>1, <3>1, WorkingJob
        <3> QED BY <2>1, <2>2, <3>2 DEF ProviderCreates, CreateUnanswered,
                CompleteProviderRequest, CloseAtProvider, CloseUnanswered
    <2>3. ASSUME NEW b \in Attempts, Collect(b) \/ LinkExpires(b) PROVE link'[a] = "none"
        BY <2>1, <2>3 DEF Collect, LinkExpires
    <2> QED BY <2>1, <2>2, <2>3, LinkWriters
<1> QED BY <1>1, <1>2, <1>3 DEF Requested

\* An order keeps the collection that confirmed it.
LEMMA ConfirmedByStays ==
    ASSUME IInv, [Next]_vars, NEW o \in Orders
    PROVE  /\ confirmedBy[o] # None => confirmedBy'[o] = confirmedBy[o]
           /\ confirmedBy'[o] # None => Payer(confirmedBy'[o]) = o
<1> USE IInvParts DEF RowsOK
<1>1. ASSUME NEW h \in Handlers, Confirm(h)
      PROVE  /\ confirmedBy[o] # None => confirmedBy'[o] = confirmedBy[o]
             /\ confirmedBy'[o] # None => Payer(confirmedBy'[o]) = o
    <2>1. job[h].step \in WithCollection
        BY <1>1 DEF Confirm, Books, At, WithCollection
    <2>2. confirmedBy[Payer(job[h].c)] = None
        BY <1>1, <2>1, BookingJob DEF Confirm, Undecided, EvidenceFitsOrder
    <2> QED BY <1>1, <2>1, <2>2, BookingJob DEF Confirm, IInv, ConfirmedByOwn
<1>2. ASSUME \A h \in Handlers : ~ Confirm(h) PROVE confirmedBy' = confirmedBy
    BY <1>2, OrderWriters DEF RecordDuplicate, RecordLate, Finish, CancelUnasked, CloseOrder,
        orderVars
<1> QED BY <1>1, <1>2 DEF IInv, ConfirmedByOwn

\* An attempt moves as the table's trigger lets it: what was decided moves once more
\* only for money that came late.
LEMMA AttemptMoves ==
    ASSUME IInv, [Next]_vars, NEW a \in Attempts
    PROVE  \/ attempt'[a] = attempt[a]
           \/ attempt[a] = "none" /\ attempt'[a] = "created"
           \/ attempt[a] = "created" /\ attempt'[a] \in {"pending", "failed"}
           \/ attempt[a] = "pending" /\ attempt'[a] \in {"paid", "failed"} \cup Closed
           \/ attempt[a] \in Closed /\ attempt'[a] = "late_paid"
<1> USE IInvParts DEF RowsOK
<1> SUFFICES ASSUME attempt'[a] # attempt[a]
             PROVE  \/ attempt[a] = "none" /\ attempt'[a] = "created"
                    \/ attempt[a] = "created" /\ attempt'[a] \in {"pending", "failed"}
                    \/ attempt[a] = "pending" /\ attempt'[a] \in {"paid", "failed"} \cup Closed
                    \/ attempt[a] \in Closed /\ attempt'[a] = "late_paid"
    OBVIOUS
<1>1. ASSUME NEW h \in Handlers, NEW o \in Orders, NEW p \in Providers, Prepare(h, o, p)
      PROVE  attempt[a] = "none" /\ attempt'[a] = "created"
    BY <1>1, PrepareFacts
<1>2. ASSUME NEW h \in Handlers,
             CompleteProviderRequest(h) \/ RecordProviderFailure(h) \/ PersistCheckedFacts(h)
      PROVE  attempt[a] = "created" /\ attempt'[a] \in {"pending", "failed"}
    BY <1>2 DEF CompleteProviderRequest, Completable, RecordProviderFailure, PersistCheckedFacts
<1>3. ASSUME NEW h \in Handlers, Finish(h)
      PROVE  attempt[a] = "pending" /\ attempt'[a] \in {"failed"} \cup Closed
    BY <1>3 DEF Finish, Undecided, NextPayment, Closed
<1>4. ASSUME NEW h \in Handlers, Confirm(h)
      PROVE  attempt[a] = "pending" /\ attempt'[a] = "paid"
    BY <1>4 DEF Confirm, Undecided
<1>5. ASSUME NEW h \in Handlers, RecordLate(h)
      PROVE  attempt[a] \in Closed /\ attempt'[a] = "late_paid"
    BY <1>5 DEF RecordLate, IsLate
<1> QED BY <1>1, <1>2, <1>3, <1>4, <1>5, AttemptWriters

\* The attempt of a confirmed order stays paid after every step.
LEMMA ConfirmedByPaidStep == ASSUME IInv, [Next]_vars PROVE ConfirmedByPaid'
<1> USE IInvParts DEF RowsOK
<1> SUFFICES ASSUME NEW o \in Orders, confirmedBy'[o] # None
             PROVE  attempt'[AttemptOf(confirmedBy'[o])] = "paid"
    BY DEF ConfirmedByPaid
<1>1. CASE confirmedBy[o] # None
    <2>1. confirmedBy'[o] = confirmedBy[o] /\ AttemptOf(confirmedBy[o]) \in Attempts
        BY <1>1, ConfirmedByStays, CollectionFacts
    <2>2. attempt[AttemptOf(confirmedBy[o])] = "paid"
        BY <1>1 DEF IInv, ConfirmedByPaid
    <2> QED BY <2>1, <2>2, AttemptMoves DEF Closed
<1>2. CASE confirmedBy[o] = None
    <2>1. PICK h \in Handlers : Confirm(h)
        BY <1>2, OrderWriters DEF RecordDuplicate, RecordLate, Finish, CancelUnasked, CloseOrder,
            orderVars
    <2>2. job[h].step \in WithCollection
        BY <2>1 DEF Confirm, Books, At, WithCollection
    <2>3. confirmedBy'[o] = job[h].c
        BY <1>2, <2>1, <2>2, BookingJob DEF Confirm
    <2> QED BY <2>1, <2>2, <2>3, BookingJob, CollectionFacts DEF Confirm
<1> QED BY <1>1, <1>2

\* The link of a cancelled or expired PayOS attempt stays closed.
LEMMA ClosedLinkStays ==
    ASSUME IInv, [Next]_vars, NEW a \in Attempts,
           provider[a] = "payos", link[a] = "closed"
    PROVE  link'[a] = "closed"
<1> USE IInvParts DEF RowsOK
<1>1. ASSUME NEW h \in Handlers, ProviderCreates(h) \/ CreateUnanswered(h)
      PROVE  link'[a] = "closed"
    <2>1. job[h].step = "asking" /\ job[h].a \in Attempts
        BY <1>1, JobSteps DEF ProviderCreates, CreateUnanswered, At
    <2>2. link[job[h].a] = "none"
        BY <2>1 DEF IInv, JobsFitRows, JobFits
    <2> QED BY <1>1, <2>1, <2>2 DEF ProviderCreates, CreateUnanswered
<1>2. ASSUME NEW h \in Handlers, CompleteProviderRequest(h) PROVE link'[a] = "closed"
    BY <1>2 DEF CompleteProviderRequest
<1>3. ASSUME NEW h \in Handlers, CloseAtProvider(h) \/ CloseUnanswered(h)
      PROVE  link'[a] = "closed"
    BY <1>3 DEF CloseAtProvider, CloseUnanswered
<1>4. ASSUME NEW b \in Attempts, Collect(b) \/ LinkExpires(b) PROVE link'[a] = "closed"
    BY <1>4 DEF Collect, LinkExpires
<1> QED BY <1>1, <1>2, <1>3, <1>4, LinkWriters

\* PayOS is closed before the order, after every step.
LEMMA ClosedFirstStep == ASSUME IInv, [Next]_vars PROVE PayOsClosedFirst'
<1> USE IInvParts DEF RowsOK
<1> SUFFICES ASSUME NEW a \in Attempts, attempt'[a] \in Closed, provider'[a] = "payos"
             PROVE  link'[a] = "closed"
    BY DEF PayOsClosedFirst
<1>1. attempt[a] # "none" /\ provider[a] = "payos"
    <2>1. ASSUME attempt[a] = "none" PROVE FALSE
        <3>1. ASSUME NEW h \in Handlers, NEW o \in Orders, NEW p \in Providers, Prepare(h, o, p)
              PROVE  FALSE
            BY <2>1, <3>1, PrepareFacts DEF Closed
        <3>2. ASSUME NEW h \in Handlers,
                     \/ CompleteProviderRequest(h) \/ RecordProviderFailure(h)
                     \/ PersistCheckedFacts(h) \/ Confirm(h) \/ RecordLate(h)
              PROVE  FALSE
            BY <2>1, <3>2 DEF CompleteProviderRequest, RecordProviderFailure, PersistCheckedFacts,
                Confirm, RecordLate, Closed
        <3>3. ASSUME NEW h \in Handlers, Finish(h) PROVE FALSE
            BY <2>1, <3>3 DEF Finish, Undecided, Closed
        <3> QED BY <2>1, <3>1, <3>2, <3>3, AttemptWriters DEF Closed
    <2> QED BY <2>1, AttemptStays
<1>2. CASE attempt[a] \in Closed
    BY <1>1, <1>2, ClosedLinkStays DEF IInv, PayOsClosedFirst
<1>3. CASE attempt[a] \notin Closed
    <2>1. ASSUME NEW h \in Handlers, NEW o \in Orders, NEW p \in Providers, Prepare(h, o, p)
          PROVE  FALSE
        BY <1>3, <2>1, PrepareFacts DEF Closed
    <2>2. ASSUME NEW h \in Handlers,
                 \/ CompleteProviderRequest(h) \/ RecordProviderFailure(h)
                 \/ PersistCheckedFacts(h) \/ Confirm(h) \/ RecordLate(h)
          PROVE  FALSE
        BY <1>3, <2>2 DEF CompleteProviderRequest, RecordProviderFailure, PersistCheckedFacts,
            Confirm, RecordLate, Closed
    <2>3. ASSUME NEW h \in Handlers, Finish(h) PROVE link'[a] = "closed"
        <3>1. job[h].step = "finishing" /\ job[h].a = a
            BY <1>3, <2>3 DEF Finish, At
        <3>2. link[a] = "closed"
            BY <1>1, <3>1 DEF IInv, JobsFitRows, JobFits
        <3> QED BY <1>1, <3>2, ClosedLinkStays
    <2> QED BY <1>3, <2>1, <2>2, <2>3, AttemptWriters
<1> QED BY <1>2, <1>3

-----------------------------------------------------------------------------
(* Handlers                                                                 *)

\* What each form of a step makes of the handlers.
LEMMA JobViews ==
    ASSUME JobsOK, NEW h \in Handlers
    PROVE  /\ Ends(h) => job'[h] = Idle
           /\ \A s, op, a, c : Starts(h, s, op, a, c) =>
                 job'[h] = [step |-> s, op |-> op, a |-> a, c |-> c, said |-> "none"]
           /\ \A s : Moves(h, s) =>
                 job'[h].step = s /\ job'[h].a = job[h].a /\ job'[h].c = job[h].c
           /\ \A s, said : job' = [job EXCEPT ![h].step = s, ![h].said = said] =>
                 job'[h].step = s /\ job'[h].a = job[h].a /\ job'[h].c = job[h].c
           /\ \A s, c : job' = [job EXCEPT ![h].step = s, ![h].c = c] =>
                 job'[h].step = s /\ job'[h].a = job[h].a /\ job'[h].c = c
<1>1. job[h] \in Jobs
    BY DEF JobsOK
<1>2. Ends(h) => job'[h] = Idle
    BY DEF Ends, JobsOK
<1>3. \A s, op, a, c : Starts(h, s, op, a, c) =>
          job'[h] = [step |-> s, op |-> op, a |-> a, c |-> c, said |-> "none"]
    BY DEF Starts, JobsOK
<1>4. \A s : Moves(h, s) =>
          job'[h].step = s /\ job'[h].a = job[h].a /\ job'[h].c = job[h].c
    BY <1>1 DEF Moves, JobsOK, Jobs
<1>5. \A s, said : job' = [job EXCEPT ![h].step = s, ![h].said = said] =>
          job'[h].step = s /\ job'[h].a = job[h].a /\ job'[h].c = job[h].c
    BY <1>1 DEF JobsOK, Jobs
<1>6. \A s, c : job' = [job EXCEPT ![h].step = s, ![h].c = c] =>
          job'[h].step = s /\ job'[h].a = job[h].a /\ job'[h].c = c
    BY <1>1 DEF JobsOK, Jobs
<1> QED BY <1>2, <1>3, <1>4, <1>5, <1>6

\* One handler moves at a time.
LEMMA OthersWait ==
    ASSUME JobsOK, NEW h \in Handlers, NEW k \in Handlers, k # h,
           \/ RequestNext(h) \/ ClosingNext(h) \/ ReconciliationNext(h)
           \/ WebhookNext(h) \/ FulfillmentNext(h) \/ Crash(h)
    PROVE  job'[k] = job[k]
<1> USE DEF JobsOK, Starts, Moves, Ends
<1>1. CASE RequestNext(h)
    BY <1>1 DEF RequestNext, Prepare, ProviderCreates, CreateUnanswered, ProviderRejects,
        CompleteProviderRequest, RecordProviderFailure
<1>2. CASE ClosingNext(h)
    BY <1>2 DEF ClosingNext, PrepareCancel, SelectDue, CloseAtProvider, PaidInstead,
        CloseUnanswered, GivesUp, Finish, FinishTooLate
<1>3. CASE ReconciliationNext(h)
    BY <1>3 DEF ReconciliationNext, SelectForReconciliation, QueryProvider, QueryUnanswered,
        PersistCheckedFacts
<1>4. CASE WebhookNext(h)
    BY <1>4 DEF WebhookNext, Webhook, Confirm, RecordDuplicate, RecordLate, RecordMismatch,
        Replay
<1>5. CASE FulfillmentNext(h)
    BY <1>5 DEF FulfillmentNext, FulfillConfirmedPayment, FulfillmentFails,
        RecordFailure, FailureUnrecorded, FailureOvertaken, FlagUnfulfilled, Resolve,
        FinalizeResolution, AfterFailure
<1>6. CASE Crash(h)
    BY <1>6 DEF Crash
<1> QED BY <1>1, <1>2, <1>3, <1>4, <1>5, <1>6

\* Buyers and time leave the handlers alone.
LEMMA WorldWaits ==
    ASSUME OutsideNext, \A h \in Handlers : ~ Crash(h)
    PROVE  job' = job
BY DEF OutsideNext, CancelUnasked, Collect, WindowEnds, LinkExpires

\* Two handlers that request are not on the same attempt.
LEMMA ApartRequests ==
    ASSUME IInv, NEW h \in Handlers, NEW k \in Handlers, h # k,
           job[h].step \in {"asking", "opening", "rejecting"},
           job[k].step \in {"asking", "opening", "rejecting"}
    PROVE  job[h].a # job[k].a
<1>1. job[h].a \in Attempts
    BY WorkingJob
<1> QED BY <1>1 DEF IInv, OneRequest, Requests

\* While the provider is asked to open a link, nobody else touches the attempt.
LEMMA AskingKept ==
    ASSUME IInv, [Next]_vars, NEW k \in Handlers, job[k].step \in {"asking", "rejecting"},
           job'[k] = job[k]
    PROVE  attempt'[job[k].a] = "created" /\ link'[job[k].a] = "none"
<1> DEFINE a == job[k].a
<1> USE IInvParts DEF RowsOK
<1>1. /\ a \in Attempts /\ attempt[a] = "created" /\ link[a] = "none"
    BY WorkingJob DEF IInv, JobsFitRows, JobFits
<1>2. ASSUME NEW h \in Handlers,
             \/ ProviderCreates(h) \/ CreateUnanswered(h) \/ CompleteProviderRequest(h)
             \/ RecordProviderFailure(h)
      PROVE  job[h].a # a /\ job[h].a \in Attempts
    <2>1. job[h].step \in {"asking", "opening", "rejecting"} /\ job'[h] # job[h]
        BY <1>2, JobViews DEF ProviderCreates, CreateUnanswered, CompleteProviderRequest,
            RecordProviderFailure, At, Idle
    <2> QED BY <2>1, ApartRequests, WorkingJob
<1>3. attempt'[a] = "created"
    <2>1. ASSUME NEW h \in Handlers, NEW o \in Orders, NEW p \in Providers, Prepare(h, o, p)
          PROVE  attempt'[a] = "created"
        BY <1>1, <2>1, PrepareFacts
    <2>2. ASSUME NEW h \in Handlers, CompleteProviderRequest(h) \/ RecordProviderFailure(h)
          PROVE  attempt'[a] = "created"
        BY <1>1, <1>2, <2>2 DEF CompleteProviderRequest, RecordProviderFailure
    <2>3. ASSUME NEW h \in Handlers, Finish(h) PROVE attempt'[a] = "created"
        BY <1>1, <2>3 DEF Finish, Undecided
    <2>4. ASSUME NEW h \in Handlers, PersistCheckedFacts(h) PROVE attempt'[a] = "created"
        <3>1. job[h].step = "checked"
            BY <2>4 DEF PersistCheckedFacts, At
        <3>2. link[job[h].a] # "none"
            BY <3>1 DEF IInv, JobsFitRows, JobFits
        <3> QED BY <1>1, <2>4, <3>2 DEF PersistCheckedFacts
    <2>5. ASSUME NEW h \in Handlers, Confirm(h) \/ RecordLate(h) PROVE attempt'[a] = "created"
        BY <1>1, <2>5 DEF Confirm, RecordLate, Undecided, IsLate, Closed
    <2> QED BY <1>1, <2>1, <2>2, <2>3, <2>4, <2>5, AttemptWriters
<1>4. link'[a] = "none"
    <2>1. ASSUME NEW h \in Handlers,
                 ProviderCreates(h) \/ CreateUnanswered(h) \/ CompleteProviderRequest(h)
          PROVE  link'[a] = "none"
        BY <1>1, <1>2, <2>1 DEF ProviderCreates, CreateUnanswered, CompleteProviderRequest
    <2>2. ASSUME NEW h \in Handlers, CloseAtProvider(h) \/ CloseUnanswered(h)
          PROVE  link'[a] = "none"
        <3>1. job[h].step = "closing"
            BY <2>2 DEF CloseAtProvider, CloseUnanswered, At
        <3>2. link[job[h].a] # "none"
            BY <3>1 DEF IInv, JobsFitRows, JobFits
        <3> QED BY <1>1, <2>2, <3>2 DEF CloseAtProvider, CloseUnanswered
    <2>3. ASSUME NEW b \in Attempts, Collect(b) \/ LinkExpires(b) PROVE link'[a] = "none"
        BY <1>1, <2>3 DEF Collect, LinkExpires
    <2> QED BY <1>1, <2>1, <2>2, <2>3, LinkWriters
<1> QED BY <1>3, <1>4

\* Once the provider answered, the attempt stays open until its order is decided.
LEMMA OpeningKept ==
    ASSUME IInv, [Next]_vars, NEW k \in Handlers, job[k].step = "opening", job'[k] = job[k]
    PROVE  attempt'[job[k].a] \in Open \/ order'[OrderOf(job[k].a)] # "pending_payment"
<1> DEFINE a == job[k].a
<1> USE IInvParts DEF RowsOK
<1>1. a \in Attempts /\ OrderOf(a) \in Orders
    BY WorkingJob
<1>2. CASE order[OrderOf(a)] # "pending_payment"
    BY <1>1, <1>2, OrderMoves
<1>3. CASE attempt[a] \in Open
    <2>1. ASSUME NEW h \in Handlers, NEW o \in Orders, NEW p \in Providers, Prepare(h, o, p)
          PROVE  attempt'[a] \in Open
        BY <1>1, <1>3, <2>1, PrepareFacts DEF Open
    <2>2. ASSUME NEW h \in Handlers, CompleteProviderRequest(h) \/ PersistCheckedFacts(h)
          PROVE  attempt'[a] \in Open
        BY <1>1, <1>3, <2>2 DEF CompleteProviderRequest, PersistCheckedFacts, Open
    <2>3. ASSUME NEW h \in Handlers, RecordProviderFailure(h) PROVE attempt'[a] \in Open
        <3>1. job[h].step = "rejecting"
            BY <2>3 DEF RecordProviderFailure, At
        <3>2. job[h].a # a
            BY <3>1, ApartRequests
        <3> QED BY <1>1, <1>3, <2>3, <3>2 DEF RecordProviderFailure
    <2>4. ASSUME NEW h \in Handlers, Finish(h)
          PROVE  attempt'[a] \in Open \/ order'[OrderOf(a)] # "pending_payment"
        BY <1>1, <1>3, <2>4 DEF Finish, CloseOrder
    <2>5. ASSUME NEW h \in Handlers, Confirm(h)
          PROVE  attempt'[a] \in Open \/ order'[OrderOf(a)] # "pending_payment"
        BY <1>1, <1>3, <2>5 DEF Confirm, Payer
    <2>6. ASSUME NEW h \in Handlers, RecordLate(h) PROVE attempt'[a] \in Open
        BY <1>1, <1>3, <2>6 DEF RecordLate, IsLate, Open, Closed
    <2> QED BY <1>1, <1>3, <2>1, <2>2, <2>3, <2>4, <2>5, <2>6, AttemptWriters
<1> QED BY <1>2, <1>3 DEF IInv, JobsFitRows, JobFits

\* A handler that waits keeps what it knows.
LEMMA WaitingFits ==
    ASSUME IInv, [Next]_vars, NEW k \in Handlers, job'[k] = job[k]
    PROVE  JobFits(k)'
<1> USE IInvParts
<1>0. JobFits(k) /\ job[k] \in Jobs /\ JobOK(job[k])
    BY DEF IInv, JobsFitRows, JobsOK
<1>1. job[k].step # "idle" => attempt'[job[k].a] # "none"
    BY <1>0, WorkingJob, AttemptStays
<1>2. job[k].c # None => job[k].c[2] <= collected'[AttemptOf(job[k].c)]
    <2>1. SUFFICES ASSUME job[k].c # None PROVE job[k].c[2] <= collected'[AttemptOf(job[k].c)]
        OBVIOUS
    <2>2. job[k].c \in Collections
        BY <1>0, <2>1 DEF Jobs
    <2>3. AttemptOf(job[k].c) \in Attempts /\ job[k].c[2] \in Nat
        BY <2>2, CollectionFacts
    <2>4. job[k].c[2] <= collected[AttemptOf(job[k].c)]
        BY <1>0, <2>1 DEF JobFits
    <2> QED BY <2>3, <2>4, CollectedGrows
<1>3. job[k].step \in {"asking", "rejecting"} =>
          attempt'[job[k].a] = "created" /\ link'[job[k].a] = "none"
    BY AskingKept
<1>4. job[k].step = "opening" =>
          /\ attempt'[job[k].a] \in Open \/ order'[OrderOf(job[k].a)] # "pending_payment"
          /\ provider'[job[k].a] = "payos" => link'[job[k].a] # "none"
    <2>1. SUFFICES ASSUME job[k].step = "opening", provider'[job[k].a] = "payos"
                   PROVE  link'[job[k].a] # "none"
        BY OpeningKept
    <2> QED BY <1>0, <2>1, WorkingJob, AttemptStays, LinkStays DEF JobFits
<1>5. job[k].step \in {"checked", "closing", "finishing"} => link'[job[k].a] # "none"
    BY <1>0, WorkingJob, LinkStays DEF JobFits
<1>6. job[k].step = "finishing" /\ provider'[job[k].a] = "payos" => link'[job[k].a] = "closed"
    BY <1>0, WorkingJob, AttemptStays, ClosedLinkStays DEF JobFits
<1>7. job[k].step \in Delivering => confirmedBy'[Payer(job[k].c)] = job[k].c
    BY <1>0, BookingJob, CollectionFacts, ConfirmedByStays DEF JobFits, WithCollection, Delivering
<1> QED BY <1>1, <1>2, <1>3, <1>4, <1>5, <1>6, <1>7 DEF JobFits

\* An idle handler knows nothing.
LEMMA IdleFits == ASSUME NEW h \in Handlers, job'[h] = Idle PROVE JobFits(h)'
BY DEF JobFits, Idle, Delivering

\* What a step of a payment request knows next.
LEMMA RequestFits ==
    ASSUME IInv, [Next]_vars, NEW h \in Handlers, RequestNext(h)
    PROVE  JobFits(h)'
<1> USE IInvParts
<1>1. ASSUME NEW o \in Orders, NEW p \in Providers, Prepare(h, o, p) PROVE JobFits(h)'
    <2>1. PICK a \in Attempts :
            /\ attempt[a] = "none" /\ attempt' = [attempt EXCEPT ![a] = "created"]
            /\ Starts(h, "asking", "request", a, None) /\ UNCHANGED link
        BY <1>1, PrepareFacts
    <2>2. job'[h] = [step |-> "asking", op |-> "request", a |-> a, c |-> None, said |-> "none"]
        BY <2>1, JobViews
    <2>3. attempt'[a] = "created"
        BY <2>1 DEF RowsOK
    <2>4. link[a] = "none"
        BY <2>1 DEF IInv, Requested
    <2> QED BY <2>1, <2>2, <2>3, <2>4 DEF JobFits, Delivering
<1>2. CASE ProviderCreates(h)
    <2>1. job[h].step = "asking" /\ job[h].a \in Attempts /\ Moves(h, "opening")
        BY <1>2, WorkingJob DEF ProviderCreates, At
    <2>2. /\ job'[h].step = "opening" /\ job'[h].a = job[h].a /\ job'[h].c = job[h].c
          /\ JobFits(h)
        BY <2>1, JobViews DEF IInv, JobsFitRows
    <2>3. attempt' = attempt /\ provider' = provider /\ collected' = collected
        BY <1>2 DEF ProviderCreates
    <2>4. provider[job[h].a] = "payos" => link'[job[h].a] # "none"
        BY <1>2, <2>1 DEF ProviderCreates, RowsOK
    <2> QED BY <2>1, <2>2, <2>3, <2>4 DEF JobFits, Delivering, Open
<1>3. CASE ProviderRejects(h)
    <2>1. job[h].step = "asking" /\ job[h].a \in Attempts /\ Moves(h, "rejecting")
        BY <1>3, WorkingJob DEF ProviderRejects, At
    <2>2. /\ job'[h].step = "rejecting" /\ job'[h].a = job[h].a /\ job'[h].c = job[h].c
          /\ JobFits(h)
        BY <2>1, JobViews DEF IInv, JobsFitRows
    <2>3. attempt' = attempt /\ link' = link /\ collected' = collected
        BY <1>3 DEF ProviderRejects, externalVars
    <2> QED BY <2>1, <2>2, <2>3 DEF JobFits, Delivering
<1>4. CASE CreateUnanswered(h) \/ CompleteProviderRequest(h) \/ RecordProviderFailure(h)
    BY <1>4, JobViews, IdleFits
        DEF CreateUnanswered, CompleteProviderRequest, RecordProviderFailure
<1> QED BY <1>1, <1>2, <1>3, <1>4 DEF RequestNext

\* What a step of a cancellation or an expiry knows next.
LEMMA ClosingFits ==
    ASSUME IInv, [Next]_vars, NEW h \in Handlers, ClosingNext(h)
    PROVE  JobFits(h)'
<1> USE IInvParts
<1>1. ASSUME NEW a \in Attempts, PrepareCancel(h, a) \/ SelectDue(h, a) PROVE JobFits(h)'
    <2>1. PICK op : Starts(h, "closing", op, a, None)
        BY <1>1 DEF PrepareCancel, SelectDue
    <2>2. job'[h] = [step |-> "closing", op |-> op, a |-> a, c |-> None, said |-> "none"]
        BY <2>1, JobViews
    <2>3. attempt[a] = "pending" /\ attempt' = attempt /\ link' = link
        BY <1>1 DEF PrepareCancel, SelectDue, Due, externalVars
    <2>4. link[a] # "none"
        BY <2>3 DEF AttemptsFollowOrder
    <2> QED BY <2>2, <2>3, <2>4 DEF JobFits, Delivering
<1>2. CASE CloseAtProvider(h)
    <2>1. PICK said : job' = [job EXCEPT ![h].step = "finishing", ![h].said = said]
        BY <1>2 DEF CloseAtProvider
    <2>2. /\ job'[h].step = "finishing" /\ job'[h].a = job[h].a /\ job'[h].c = job[h].c
          /\ job[h].step = "closing" /\ JobFits(h) /\ job[h].a \in Attempts
        BY <1>2, <2>1, JobViews, WorkingJob DEF CloseAtProvider, At, IInv, JobsFitRows
    <2>3. attempt' = attempt /\ provider' = provider /\ collected' = collected
        BY <1>2 DEF CloseAtProvider
    <2>4. link'[job[h].a] # "none"
        BY <2>2, LinkStays DEF JobFits
    <2>5. provider[job[h].a] = "payos" => link'[job[h].a] = "closed"
        BY <1>2, <2>2 DEF CloseAtProvider, RowsOK
    <2> QED BY <2>2, <2>3, <2>4, <2>5 DEF JobFits, Delivering
<1>3. CASE PaidInstead(h)
    <2>1. CASE Ends(h)
        BY <2>1, JobViews, IdleFits
    <2>2. CASE ~ Ends(h)
        <3>1. PICK n \in 1..collected[job[h].a] :
                job' = [job EXCEPT ![h].step = "booking", ![h].c = <<job[h].a, n>>]
            BY <1>3, <2>2 DEF PaidInstead
        <3>2. /\ job'[h].step = "booking" /\ job'[h].a = job[h].a
              /\ job'[h].c = <<job[h].a, n>>
            BY <3>1, JobViews
        <3>3. job[h].step = "closing" /\ job[h].a \in Attempts /\ attempt[job[h].a] # "none"
            BY <1>3, WorkingJob DEF PaidInstead, At
        <3>4. attempt' = attempt /\ collected' = collected
            BY <1>3 DEF PaidInstead, externalVars
        <3>5. AttemptOf(<<job[h].a, n>>) = job[h].a /\ <<job[h].a, n>>[2] = n
            BY DEF AttemptOf
        <3> QED BY <3>2, <3>3, <3>4, <3>5 DEF JobFits, Delivering
    <2> QED BY <2>1, <2>2
<1>4. CASE CloseUnanswered(h) \/ Finish(h) \/ FinishTooLate(h)
    BY <1>4, JobViews, IdleFits DEF CloseUnanswered, GivesUp, Finish, FinishTooLate
<1> QED BY <1>1, <1>2, <1>3, <1>4 DEF ClosingNext

\* A settlement that confirmed an order was collected on an attempt that was made.
LEMMA ConfirmingCollection ==
    ASSUME IInv, NEW o \in Orders, confirmedBy[o] # None
    PROVE  /\ confirmedBy[o] \in Collections
           /\ confirmedBy[o][2] <= collected[AttemptOf(confirmedBy[o])]
<1> USE IInvParts DEF RowsOK
<1>1. confirmedBy[o] \in Collections
    OBVIOUS
<1>2. settled[confirmedBy[o]] = "matched"
    BY <1>1 DEF IInv, ConfirmedByOwn, EvidenceFitsOrder
<1> QED BY <1>1, <1>2 DEF EvidenceFitsOrder

\* A handler that books or delivers goes on with the same collection.
LEMMA CarriesOn ==
    ASSUME IInv, [Next]_vars, NEW h \in Handlers, job[h].step # "idle",
           job'[h].a = job[h].a, job'[h].c = job[h].c, job'[h].step \in WithCollection,
           job'[h].step \in Delivering => confirmedBy'[Payer(job[h].c)] = job[h].c
    PROVE  JobFits(h)'
<1> USE IInvParts
<1>1. attempt'[job[h].a] # "none"
    BY WorkingJob, AttemptStays
<1>2. ASSUME job[h].c # None PROVE job[h].c[2] <= collected'[AttemptOf(job[h].c)]
    <2>1. job[h].c \in Collections
        BY <1>2 DEF JobsOK, JobOK, Jobs
    <2>2. AttemptOf(job[h].c) \in Attempts /\ job[h].c[2] \in Nat
        BY <2>1, CollectionFacts
    <2>3. job[h].c[2] <= collected[AttemptOf(job[h].c)]
        BY <1>2 DEF IInv, JobsFitRows, JobFits
    <2> QED BY <2>2, <2>3, CollectedGrows
<1> QED BY <1>1, <1>2 DEF JobFits, WithCollection

\* What a step of the reconciliation knows next.
LEMMA ReconciliationFits ==
    ASSUME IInv, [Next]_vars, NEW h \in Handlers, ReconciliationNext(h)
    PROVE  JobFits(h)'
<1> USE IInvParts
<1>1. ASSUME NEW a \in Attempts, SelectForReconciliation(h, a) PROVE JobFits(h)'
    <2>1. attempt[a] # "none" /\ attempt' = attempt /\ collected' = collected
        BY <1>1 DEF SelectForReconciliation, HandoffLost, Open, externalVars
    <2>2. CASE Starts(h, "querying", "reconciliation", a, None)
        <3>1. job'[h] = [step |-> "querying", op |-> "reconciliation", a |-> a, c |-> None,
                         said |-> "none"]
            BY <2>2, JobViews
        <3> QED BY <2>1, <3>1 DEF JobFits, Delivering
    <2>3. CASE ~ Starts(h, "querying", "reconciliation", a, None)
        <3> DEFINE c == confirmedBy[OrderOf(a)]
        <3>1. c # None /\ Starts(h, "fulfilling", "reconciliation", a, c)
            BY <1>1, <2>3 DEF SelectForReconciliation, HandoffLost
        <3>2. job'[h] = [step |-> "fulfilling", op |-> "reconciliation", a |-> a, c |-> c,
                         said |-> "none"]
            BY <3>1, JobViews
        <3>3. c[2] <= collected[AttemptOf(c)]
            BY <3>1, AttemptFacts, ConfirmingCollection
        <3>4. confirmedBy'[Payer(c)] = c
            BY <3>1, AttemptFacts, ConfirmedByStays DEF IInv, ConfirmedByOwn
        <3> QED BY <2>1, <3>2, <3>3, <3>4 DEF JobFits
    <2> QED BY <2>2, <2>3
<1>2. CASE QueryProvider(h)
    <2>1. /\ job[h].step = "querying" /\ job[h].a \in Attempts /\ attempt[job[h].a] # "none"
          /\ link[job[h].a] # "none" /\ attempt' = attempt /\ collected' = collected
          /\ link' = link
        BY <1>2, WorkingJob DEF QueryProvider, At, externalVars
    <2>2. CASE \E n \in 1..collected[job[h].a] :
                  job' = [job EXCEPT ![h].step = "checked", ![h].c = <<job[h].a, n>>]
        <3>1. PICK n \in 1..collected[job[h].a] :
                job' = [job EXCEPT ![h].step = "checked", ![h].c = <<job[h].a, n>>]
            BY <2>2
        <3>2. /\ job'[h].step = "checked" /\ job'[h].a = job[h].a
              /\ job'[h].c = <<job[h].a, n>>
            BY <3>1, JobViews
        <3>3. AttemptOf(<<job[h].a, n>>) = job[h].a /\ <<job[h].a, n>>[2] = n
            BY DEF AttemptOf
        <3> QED BY <2>1, <3>2, <3>3 DEF JobFits, Delivering
    <2>3. CASE \E said : job' = [job EXCEPT ![h].step = "checked", ![h].said = said]
        <3>0. PICK said : job' = [job EXCEPT ![h].step = "checked", ![h].said = said]
            BY <2>3
        <3>1. /\ job'[h].step = "checked" /\ job'[h].a = job[h].a /\ job'[h].c = job[h].c
            BY <3>0, JobViews
        <3>2. JobFits(h)
            BY DEF IInv, JobsFitRows
        <3> QED BY <2>1, <3>1, <3>2 DEF JobFits, Delivering
    <2> QED BY <1>2, <2>2, <2>3 DEF QueryProvider
<1>3. CASE QueryUnanswered(h)
    BY <1>3, JobViews, IdleFits DEF QueryUnanswered
<1>4. CASE PersistCheckedFacts(h)
    <2>1. CASE Ends(h)
        BY <2>1, JobViews, IdleFits
    <2>2. CASE ~ Ends(h)
        <3>1. job[h].step # "idle" /\ Moves(h, "booking")
            BY <1>4, <2>2 DEF PersistCheckedFacts, At
        <3>2. job'[h].step = "booking" /\ job'[h].a = job[h].a /\ job'[h].c = job[h].c
            BY <3>1, JobViews
        <3> QED BY <3>1, <3>2, CarriesOn DEF WithCollection, Delivering
    <2> QED BY <2>1, <2>2
<1> QED BY <1>1, <1>2, <1>3, <1>4 DEF ReconciliationNext

\* What a step that books a collection knows next.
LEMMA WebhookFits ==
    ASSUME IInv, [Next]_vars, NEW h \in Handlers, WebhookNext(h)
    PROVE  JobFits(h)'
<1> USE IInvParts
<1>1. ASSUME NEW c \in Collections, Webhook(h, c) PROVE JobFits(h)'
    <2>1. /\ c[2] <= collected[AttemptOf(c)] /\ attempt' = attempt /\ collected' = collected
          /\ Starts(h, "booking", "webhook", AttemptOf(c), c)
        BY <1>1 DEF Webhook, externalVars
    <2>2. job'[h] = [step |-> "booking", op |-> "webhook", a |-> AttemptOf(c), c |-> c,
                     said |-> "none"]
        BY <2>1, JobViews
    <2>3. collected[AttemptOf(c)] > 0
        BY <2>1, CollectionFacts, Bounds DEF RowsOK
    <2>4. attempt[AttemptOf(c)] # "none"
        BY <2>3, CollectionFacts DEF AttemptsFollowOrder
    <2> QED BY <2>1, <2>2, <2>4 DEF JobFits, Delivering
<1>2. CASE Ends(h)
    BY <1>2, JobViews, IdleFits
<1>3. CASE /\ job[h].step # "idle" /\ Moves(h, "fulfilling")
           /\ confirmedBy'[Payer(job[h].c)] = job[h].c
    <2>1. job'[h].step = "fulfilling" /\ job'[h].a = job[h].a /\ job'[h].c = job[h].c
        BY <1>3, JobViews
    <2> QED BY <1>3, <2>1, CarriesOn DEF WithCollection
<1>4. ASSUME Confirm(h) \/ RecordDuplicate(h) \/ RecordLate(h) \/ RecordMismatch(h) \/ Replay(h),
             ~ Ends(h)
      PROVE  /\ job[h].step # "idle" /\ Moves(h, "fulfilling")
             /\ confirmedBy'[Payer(job[h].c)] = job[h].c
    <2>1. job[h].step \in WithCollection
        BY <1>4 DEF Confirm, RecordDuplicate, RecordLate, RecordMismatch, Replay, Books, At,
            WithCollection
    <2>2. Payer(job[h].c) \in Orders
        BY <2>1, BookingJob
    <2>3. CASE Confirm(h)
        BY <2>2, <2>3 DEF Confirm, Books, At, RowsOK
    <2>4. CASE Replay(h)
        BY <1>4, <2>4 DEF Replay, Canonical, At, orderVars
    <2> QED BY <1>4, <2>3, <2>4 DEF RecordDuplicate, RecordLate, RecordMismatch
<1> QED BY <1>1, <1>2, <1>3, <1>4 DEF WebhookNext

\* What a step of the fulfillment knows next.
LEMMA FulfillmentFits ==
    ASSUME IInv, [Next]_vars, NEW h \in Handlers, FulfillmentNext(h)
    PROVE  JobFits(h)'
<1> USE IInvParts
<1>1. ASSUME NEW o \in Orders, Resolve(h, o) PROVE JobFits(h)'
    <2> DEFINE c == confirmedBy[o]
    <2>1. /\ c # None /\ attempt[AttemptOf(c)] # "none" /\ attempt' = attempt
          /\ collected' = collected /\ Starts(h, "fulfilling", "resolve", AttemptOf(c), c)
        BY <1>1 DEF Resolve, Canonical, externalVars
    <2>2. job'[h] = [step |-> "fulfilling", op |-> "resolve", a |-> AttemptOf(c), c |-> c,
                     said |-> "none"]
        BY <2>1, JobViews
    <2>3. confirmedBy'[Payer(c)] = c
        BY <2>1, ConfirmedByStays DEF IInv, ConfirmedByOwn
    <2> QED BY <2>1, <2>2, <2>3, ConfirmingCollection DEF JobFits
<1>2. CASE Ends(h)
    BY <1>2, JobViews, IdleFits
<1>3. ASSUME ~ Ends(h), \A o \in Orders : ~ Resolve(h, o)
      PROVE  /\ job[h].step \in {"fulfilling", "failing"}
             /\ \E s \in {"failing", "flagging", "finalizing"} : Moves(h, s)
    BY <1>3 DEF FulfillmentNext, FulfillConfirmedPayment, FulfillmentFails,
        RecordFailure, FailureUnrecorded, FailureOvertaken, FlagUnfulfilled,
        FinalizeResolution, AfterFailure, At
<1>4. ASSUME ~ Ends(h), \A o \in Orders : ~ Resolve(h, o) PROVE JobFits(h)'
    <2>1. job[h].c \in Collections /\ Payer(job[h].c) \in Orders /\ job[h].c # None
        BY <1>3, <1>4, BookingJob, CollectionFacts DEF WithCollection
    <2>2. confirmedBy[Payer(job[h].c)] = job[h].c
        BY <1>3, <1>4 DEF IInv, JobsFitRows, JobFits, Delivering
    <2>3. confirmedBy'[Payer(job[h].c)] = job[h].c
        BY <2>1, <2>2, ConfirmedByStays
    <2>4. PICK s \in {"failing", "flagging", "finalizing"} : Moves(h, s)
        BY <1>3, <1>4
    <2>5. job'[h].step = s /\ job'[h].a = job[h].a /\ job'[h].c = job[h].c
        BY <2>4, JobViews
    <2> QED BY <1>3, <1>4, <2>3, <2>5, CarriesOn DEF WithCollection
<1> QED BY <1>1, <1>2, <1>4

\* Every handler's knowledge fits the rows after every step.
LEMMA JobsStep == ASSUME IInv, [Next]_vars PROVE JobsFitRows'
<1>1. SUFFICES ASSUME NEW k \in Handlers PROVE JobFits(k)'
    BY DEF JobsFitRows
<1>2. CASE job'[k] = job[k]
    BY <1>2, WaitingFits
<1>3. ASSUME NEW h \in Handlers,
             \/ RequestNext(h) \/ ClosingNext(h) \/ ReconciliationNext(h)
             \/ WebhookNext(h) \/ FulfillmentNext(h)
      PROVE  JobFits(k)'
    <2>1. CASE k # h
        BY <1>2, <1>3, <2>1, OthersWait, IInvParts
    <2>2. CASE k = h
        BY <1>3, <2>2, RequestFits, ClosingFits, ReconciliationFits, WebhookFits, FulfillmentFits
    <2> QED BY <2>1, <2>2
<1>4. ASSUME NEW h \in Handlers, Crash(h) PROVE JobFits(k)'
    <2>1. CASE k # h
        BY <1>2, <1>4, <2>1, OthersWait, IInvParts
    <2>2. CASE k = h
        BY <1>4, <2>2, JobViews, IdleFits, IInvParts DEF Crash
    <2> QED BY <2>1, <2>2
<1>5. CASE OutsideNext /\ \A h \in Handlers : ~ Crash(h)
    BY <1>2, <1>5, WorldWaits
<1> QED BY <1>2, <1>3, <1>4, <1>5, WhoSteps DEF vars

-----------------------------------------------------------------------------
(* One attempt at a time                                                    *)

\* Only the first transaction of a payment request puts a handler on an attempt.
LEMMA RequestBegins ==
    ASSUME IInv, [Next]_vars, NEW h \in Handlers, NEW a \in Attempts, Requests(h, a)',
           ~ Requests(h, a)
    PROVE  \E o \in Orders, p \in Providers : Prepare(h, o, p)
<1> USE IInvParts DEF Requests
<1>1. job'[h] # job[h]
    OBVIOUS
<1>2. ASSUME ClosingNext(h) \/ ReconciliationNext(h) \/ WebhookNext(h) \/ FulfillmentNext(h)
                \/ Crash(h)
      PROVE  job'[h].step \notin {"asking", "opening", "rejecting"}
    <2> DEFINE next == job'[h].step
    <2>a. Ends(h) => next = "idle"
        BY JobViews DEF Idle
    <2>b. ASSUME NEW s, Moves(h, s) PROVE next = s
        BY <2>b, JobViews
    <2>c. ASSUME NEW s, NEW op, NEW b, NEW c, Starts(h, s, op, b, c) PROVE next = s
        <3>1. job'[h] = [step |-> s, op |-> op, a |-> b, c |-> c, said |-> "none"]
            BY <2>c, JobViews
        <3> QED BY <3>1
    <2>d. ASSUME NEW s, NEW said, job' = [job EXCEPT ![h].step = s, ![h].said = said]
          PROVE  next = s
        BY <2>d, JobViews
    <2>e. ASSUME NEW s, NEW c, job' = [job EXCEPT ![h].step = s, ![h].c = c] PROVE next = s
        BY <2>e, JobViews
    <2> HIDE DEF next
    <2>1. ASSUME ClosingNext(h) PROVE next \notin {"asking", "opening", "rejecting"}
        BY <2>a, <2>b, <2>c, <2>d, <2>e, <2>1
            DEF ClosingNext, PrepareCancel, SelectDue, CloseAtProvider,
            PaidInstead, CloseUnanswered, GivesUp, Finish, FinishTooLate
    <2>2. ASSUME ReconciliationNext(h) PROVE next \notin {"asking", "opening", "rejecting"}
        BY <2>a, <2>b, <2>c, <2>d, <2>e, <2>2
            DEF ReconciliationNext, SelectForReconciliation, QueryProvider,
            QueryUnanswered, PersistCheckedFacts
    <2>3. ASSUME WebhookNext(h) PROVE next \notin {"asking", "opening", "rejecting"}
        BY <2>a, <2>b, <2>c, <2>d, <2>e, <2>3
            DEF WebhookNext, Webhook, Confirm, RecordDuplicate, RecordLate,
            RecordMismatch, Replay
    <2>4. ASSUME FulfillmentNext(h) PROVE next \notin {"asking", "opening", "rejecting"}
        BY <2>a, <2>b, <2>c, <2>d, <2>e, <2>4
            DEF FulfillmentNext, FulfillConfirmedPayment, FulfillmentFails,
            RecordFailure, FailureUnrecorded, FailureOvertaken, FlagUnfulfilled,
            Resolve, FinalizeResolution, AfterFailure
    <2>5. ASSUME Crash(h) PROVE next \notin {"asking", "opening", "rejecting"}
        BY <2>a, <2>b, <2>c, <2>d, <2>e, <2>5 DEF Crash
    <2>6. next \notin {"asking", "opening", "rejecting"}
        BY <1>2, <2>1, <2>2, <2>3, <2>4, <2>5
    <2> QED BY <2>6 DEF next
<1>3. ASSUME RequestNext(h), ~ \E o \in Orders, p \in Providers : Prepare(h, o, p)
      PROVE  Requests(h, a)
    <2>1. CASE ProviderCreates(h) \/ ProviderRejects(h)
        <3>1. job[h].step = "asking" /\ job'[h].a = job[h].a
            BY <2>1, JobViews DEF ProviderCreates, ProviderRejects, At
        <3> QED BY <3>1
    <2>2. CASE CreateUnanswered(h) \/ CompleteProviderRequest(h) \/ RecordProviderFailure(h)
        <3>1. job'[h] = Idle
            BY <2>2, JobViews DEF CreateUnanswered, CompleteProviderRequest,
                RecordProviderFailure
        <3> QED BY <3>1 DEF Idle
    <2> QED BY <1>3, <2>1, <2>2 DEF RequestNext
<1>4. \/ RequestNext(h) \/ ClosingNext(h) \/ ReconciliationNext(h) \/ WebhookNext(h)
      \/ FulfillmentNext(h) \/ Crash(h)
    BY <1>1, WhoSteps, OthersWait, WorldWaits DEF vars
<1> QED BY <1>2, <1>3, <1>4

\* No two handlers open a link for one attempt.
LEMMA OneRequestStep == ASSUME IInv, [Next]_vars PROVE OneRequest'
<1>1. ASSUME NEW h \in Handlers, NEW k \in Handlers, NEW a \in Attempts,
             Requests(h, a)', Requests(k, a)', h # k
      PROVE  Requests(h, a)
    <2>1. SUFFICES ASSUME ~ Requests(h, a) PROVE FALSE
        OBVIOUS
    <2>2. PICK o \in Orders, p \in Providers : Prepare(h, o, p)
        BY <1>1, <2>1, RequestBegins
    <2>3. PICK b \in Attempts : attempt[b] = "none" /\ Starts(h, "asking", "request", b, None)
        BY <2>2, PrepareFacts
    <2>4. job'[h] = [step |-> "asking", op |-> "request", a |-> b, c |-> None, said |-> "none"]
        BY <2>3, JobViews, IInvParts
    <2>5. a = b
        BY <1>1, <2>4 DEF Requests
    <2>6. job'[k] = job[k]
        BY <1>1, <2>3, IInvParts DEF Starts, JobsOK
    <2>7. job[k].step # "idle" /\ job[k].a = a
        BY <1>1, <2>6 DEF Requests
    <2> QED BY <2>3, <2>5, <2>7, WorkingJob
<1>2. ASSUME NEW h \in Handlers, NEW k \in Handlers, NEW a \in Attempts,
             Requests(h, a)', Requests(k, a)'
      PROVE  h = k
    BY <1>1, <1>2 DEF IInv, OneRequest
<1> QED BY <1>2 DEF OneRequest, Requests

\* Only a payment request brings an attempt to life.
LEMMA LifeBegins ==
    ASSUME IInv, [Next]_vars, NEW a \in Attempts, Live(a)', ~ Live(a)
    PROVE  \E h \in Handlers, o \in Orders, p \in Providers :
              Prepare(h, o, p) /\ attempt'[a] # attempt[a]
<1> USE IInvParts DEF RowsOK
<1>1. attempt[a] \in {"none", "failed"} /\ \A h \in Handlers : ~ Requests(h, a)
    BY DEF Live
<1>2. ASSUME NEW h \in Handlers, Requests(h, a)'
      PROVE  \E o \in Orders, p \in Providers : Prepare(h, o, p) /\ attempt'[a] # attempt[a]
    <2>1. PICK o \in Orders, p \in Providers : Prepare(h, o, p)
        BY <1>1, <1>2, RequestBegins
    <2>2. PICK b \in Attempts : /\ attempt[b] = "none"
                                /\ attempt' = [attempt EXCEPT ![b] = "created"]
                                /\ Starts(h, "asking", "request", b, None)
        BY <2>1, PrepareFacts
    <2>3. job'[h] = [step |-> "asking", op |-> "request", a |-> b, c |-> None, said |-> "none"]
        BY <2>2, JobViews
    <2>4. a = b
        BY <1>2, <2>3 DEF Requests
    <2>5. attempt'[a] # attempt[a]
        BY <2>2, <2>4
    <2> QED BY <2>1, <2>5
<1>3. ASSUME attempt'[a] \notin {"none", "failed"}
      PROVE  \E h \in Handlers, o \in Orders, p \in Providers : Prepare(h, o, p)
    <2>1. ASSUME NEW h \in Handlers, CompleteProviderRequest(h) PROVE attempt'[a] = attempt[a]
        <3>1. job[h].a # a
            BY <1>1, <2>1 DEF CompleteProviderRequest, At, Requests
        <3> QED BY <2>1, <3>1 DEF CompleteProviderRequest
    <2>2. ASSUME NEW h \in Handlers, RecordProviderFailure(h) \/ PersistCheckedFacts(h)
          PROVE  attempt'[a] = attempt[a]
        BY <1>1, <2>2 DEF RecordProviderFailure, PersistCheckedFacts
    <2>3. ASSUME NEW h \in Handlers, Finish(h) PROVE attempt'[a] = attempt[a]
        BY <1>1, <2>3 DEF Finish, Undecided
    <2>4. ASSUME NEW h \in Handlers, Confirm(h) \/ RecordLate(h) PROVE attempt'[a] = attempt[a]
        BY <1>1, <2>4 DEF Confirm, RecordLate, Undecided, IsLate, Closed
    <2> QED BY <1>1, <1>3, <2>1, <2>2, <2>3, <2>4, AttemptWriters
<1>4. CASE attempt'[a] \in {"none", "failed"}
    <2>1. PICK h \in Handlers : Requests(h, a)'
        BY <1>4 DEF Live, Requests
    <2> QED BY <1>2, <2>1
<1> QED BY <1>1, <1>3, <1>4

\* At most one attempt of an order is alive.
LEMMA OneLiveStep == ASSUME IInv, [Next]_vars PROVE OneLive'
<1> USE IInvParts DEF RowsOK
<1>1. ASSUME NEW a \in Attempts, NEW b \in Attempts, OrderOf(a) = OrderOf(b), a # b,
             Live(a)', Live(b)'
      PROVE  Live(a)
    <2>1. SUFFICES ASSUME ~ Live(a) PROVE FALSE
        OBVIOUS
    <2>2. PICK h \in Handlers, o \in Orders, p \in Providers :
            Prepare(h, o, p) /\ attempt'[a] # attempt[a]
        BY <1>1, <2>1, LifeBegins
    <2>3. PICK x \in Attempts :
            /\ OrderOf(x) = o /\ order[o] = "pending_payment"
            /\ \A y \in Attempts : OrderOf(y) = o => attempt[y] \notin Open
            /\ attempt' = [attempt EXCEPT ![x] = "created"]
            /\ Starts(h, "asking", "request", x, None)
        BY <2>2, PrepareFacts
    <2>4. x = a
        BY <2>2, <2>3
    <2>5. attempt[b] \in {"none", "failed"} /\ attempt'[b] = attempt[b]
        BY <1>1, <2>3, <2>4 DEF AttemptsFollowOrder, Taken, Open, AttemptStatus
    <2>6. PICK k \in Handlers : Requests(k, b)'
        BY <1>1, <2>5 DEF Live, Requests
    <2>7. k # h
        <3>1. job'[h] = [step |-> "asking", op |-> "request", a |-> x, c |-> None,
                         said |-> "none"]
            BY <2>3, JobViews
        <3> QED BY <1>1, <2>4, <2>6, <3>1 DEF Requests
    <2>8. Requests(k, b)
        BY <2>3, <2>6, <2>7 DEF Starts, JobsOK, Requests
    <2>9. attempt[b] = "created" \/ attempt[b] \in Open \/ order[OrderOf(b)] # "pending_payment"
        BY <2>8 DEF IInv, JobsFitRows, JobFits, Requests
    <2> QED BY <1>1, <2>3, <2>4, <2>5, <2>9 DEF Open
<1>2. ASSUME NEW a \in Attempts, NEW b \in Attempts, OrderOf(a) = OrderOf(b),
             Live(a)', Live(b)'
      PROVE  a = b
    BY <1>1, <1>2 DEF IInv, OneLive
<1> QED BY <1>2 DEF OneLive, Live, Requests

\* The invariant holds before anything was asked and after every step.
LEMMA IInvHolds == (Init => IInv) /\ (IInv /\ [Next]_vars => IInv')
<1>1. ASSUME Init PROVE IInv
    <2>1. TypeOK
        BY <1>1, Bounds DEF Init, TypeOK, OrderStatus, AttemptStatus, Jobs, Idle, Steps,
            Operations
    <2>2. EvidenceFitsOrder /\ ConfirmedByOwn
        BY <1>1, CollectionFacts DEF Init, EvidenceFitsOrder, ConfirmedByOwn
    <2>6. ConfirmedByPaid
        BY <1>1 DEF Init, ConfirmedByPaid
    <2>3. BenefitFollowsOrder /\ CasesFollowFulfillment
        BY <1>1 DEF Init, BenefitFollowsOrder, CasesFollowFulfillment
    <2>4. PayOsClosedFirst /\ AttemptsFollowOrder /\ Requested
        BY <1>1 DEF Init, PayOsClosedFirst, AttemptsFollowOrder, Requested, Closed, Taken
    <2>5. OneRequest /\ OneLive /\ JobsFitRows
        BY <1>1 DEF Init, OneRequest, OneLive, Live, Requests, Idle, JobsFitRows, JobFits,
            Delivering
    <2> QED BY <2>1, <2>2, <2>3, <2>4, <2>5, <2>6 DEF IInv
<1>2. ASSUME IInv, [Next]_vars PROVE IInv'
    <2>1. TypeOK'
        BY <1>2, TypeStep DEF IInv
    <2>2. ConfirmedByOwn'
        BY <1>2, ConfirmedByStays DEF ConfirmedByOwn
    <2> QED BY <1>2, <2>1, <2>2, EvidenceStep, ConfirmedByPaidStep, BenefitStep, CasesStep, ClosedFirstStep,
            OneRequestStep, OneLiveStep, AttemptsStep, RequestedStep, JobsStep DEF IInv
<1> QED BY <1>1, <1>2

\* What every handler knows and every row says fits together, whoever stops where.
THEOREM PaymentInvariant == Spec => []IInv
BY IInvHolds, PTL DEF Spec

-----------------------------------------------------------------------------
(* The properties                                                           *)

\* A buyer is never asked to pay an order twice, and one collection confirms it.
THEOREM PaidOnceHolds == Spec => []PaidOnce
<1>1. ASSUME IInv PROVE PaidOnce
    <2>1. OneOpenAttempt
        BY <1>1 DEF IInv, OneLive, Live, OneOpenAttempt, Open
    <2> QED BY <1>1, <2>1 DEF IInv, PaidOnce
<1> QED BY <1>1, PaymentInvariant, PTL

\* Benefits, the voucher and the operators' cases follow the order.
THEOREM DeliveredOnceHolds == Spec => []DeliveredOnce
<1>1. ASSUME IInv PROVE DeliveredOnce
    <2>1. ASSUME NEW h \in Handlers, job[h].step \in Delivering PROVE Canonical(job[h].c)
        <3>1. confirmedBy[Payer(job[h].c)] = job[h].c
            BY <1>1, <2>1 DEF IInv, JobsFitRows, JobFits
        <3>2. job[h].c # None /\ Payer(job[h].c) \in Orders
            BY <1>1, <2>1, BookingJob, CollectionFacts, IInvParts DEF Delivering, WithCollection
        <3> QED BY <1>1, <3>1, <3>2
                DEF IInv, EvidenceFitsOrder, ConfirmedByPaid, Canonical
    <2> QED BY <1>1, <2>1 DEF IInv, DeliveredOnce, HandoffsCanonical, Delivering
<1> QED BY <1>1, PaymentInvariant, PTL

\* A closed attempt of a PayOS order has no payable link.
THEOREM ClosedFirstHolds == Spec => []PayOsClosedFirst
<1>1. IInv => PayOsClosedFirst
    BY DEF IInv
<1> QED BY <1>1, PaymentInvariant, PTL

\* Delivery is never taken back.
THEOREM FulfilledForeverHolds == Spec => FulfilledForever
<1>1. IInv /\ [Next]_vars =>
          [\A o \in Orders : fulfillment[o] = "fulfilled" => fulfillment'[o] = "fulfilled"]_vars
    BY DeliveredStays
<1> QED BY <1>1, PaymentInvariant, PTL DEF Spec, FulfilledForever

\* A settlement that was written is not written again.
LEMMA SettledStays ==
    ASSUME IInv, [Next]_vars, NEW c \in Collections, settled[c] # "none"
    PROVE  settled'[c] = settled[c]
<1> USE IInvParts DEF RowsOK
<1>1. ASSUME NEW h \in Handlers, Confirm(h) \/ RecordDuplicate(h) \/ RecordLate(h)
      PROVE  settled'[c] = settled[c]
    BY <1>1 DEF Confirm, RecordDuplicate, RecordLate, Books, NotBooked
<1> QED BY <1>1, OrderWriters DEF Finish, CancelUnasked

\* Orders and attempts are decided once, and settlements are never rewritten.
THEOREM GuardedMovesHolds == Spec => GuardedMoves
<1> DEFINE Guarded ==
      /\ \A a \in Attempts :
            \/ attempt'[a] = attempt[a]
            \/ attempt[a] = "none" /\ attempt'[a] = "created"
            \/ attempt[a] = "created" /\ attempt'[a] \in {"pending", "failed"}
            \/ attempt[a] = "pending" /\ attempt'[a] \in {"paid", "failed"} \cup Closed
            \/ attempt[a] \in Closed /\ attempt'[a] = "late_paid"
      /\ \A o \in Orders :
            \/ order'[o] = order[o]
            \/ order[o] = "pending_payment" /\ order'[o] \in {"confirmed"} \cup Closed
            \/ order[o] \in Closed /\ order'[o] = "late_payment_review"
      /\ \A c \in Collections : settled[c] # "none" => settled'[c] = settled[c]
      /\ \A o \in Orders : confirmedBy[o] # None => confirmedBy'[o] = confirmedBy[o]
<1>1. IInv /\ [Next]_vars => [Guarded]_vars
    BY AttemptMoves, OrderMoves, SettledStays, ConfirmedByStays
<1> QED BY <1>1, PaymentInvariant, PTL DEF Spec, GuardedMoves

-----------------------------------------------------------------------------
(* The payment code keeps the promise                                       *)

Delivered == {o \in Orders : fulfillment[o] = "fulfilled"}
Booked == {c \in Collections : settled[c] # "none"}

\* What the status of an order promises.
LEMMA PromiseOf ==
    ASSUME NEW o \in Orders
    PROVE  /\ order[o] = "pending_payment" <=> Promise[o] = "awaiting"
           /\ order[o] = "confirmed" <=> Promise[o] = "kept"
           /\ order[o] \in Closed <=> Promise[o] = "withdrawn"
BY DEF Promise, Closed

\* Only an order that changes its status changes what it promises.
LEMMA PromiseMoves ==
    ASSUME RowsOK, NEW o \in Orders, NEW next, order' = [order EXCEPT ![o] = next]
    PROVE  /\ next = "confirmed" => Promise' = [Promise EXCEPT ![o] = "kept"]
           /\ next \in Closed => Promise' = [Promise EXCEPT ![o] = "withdrawn"]
           /\ next = "late_payment_review" => Promise' = [Promise EXCEPT ![o] = "review"]
BY DEF RowsOK, Promise, Closed

\* A collection that gets its settlement joins the booked ones.
LEMMA BookedGrows ==
    ASSUME RowsOK, NEW c \in Collections, NEW d \in {"matched", "duplicate", "late"},
           settled[c] = "none", settled' = [settled EXCEPT ![c] = d]
    PROVE  c \notin Booked /\ Booked' = Booked \cup {c}
BY DEF RowsOK, Booked

\* Every transaction is a step of the promise, or none at all.
LEMMA PromiseStep ==
    ASSUME IInv, [Next]_vars
    PROVE  [Abstract!AbstractNext]_(Abstract!promiseVars)
<1> USE IInvParts
<1> DEFINE Step == [Abstract!AbstractNext]_(Abstract!promiseVars)
<1>1. ASSUME UNCHANGED order PROVE Promise' = Promise
    BY <1>1 DEF Promise
<1>2. ASSUME UNCHANGED fulfillment PROVE Delivered' = Delivered
    BY <1>2 DEF Delivered
<1>3. ASSUME UNCHANGED settled PROVE Booked' = Booked
    BY <1>3 DEF Booked
<1>4. ASSUME Promise' = Promise, Delivered' = Delivered, Booked' = Booked PROVE Step
    BY <1>4 DEF Abstract!promiseVars, Delivered, Booked
<1>5. ASSUME NEW h \in Handlers, Confirm(h) PROVE Step
    <2>0. PICK c \in Collections : c = job[h].c
        BY <1>5, BookingJob DEF Confirm, Books, At, WithCollection
    <2>1. /\ Payer(c) \in Orders /\ settled[c] = "none"
          /\ order[Payer(c)] = "pending_payment"
          /\ order' = [order EXCEPT ![Payer(c)] = "confirmed"]
          /\ settled' = [settled EXCEPT ![c] = "matched"] /\ UNCHANGED fulfillment
        BY <1>5, <2>0, BookingJob DEF Confirm, Books, NotBooked, Undecided, At, WithCollection
    <2>2. /\ Promise[Payer(c)] = "awaiting"
          /\ Promise' = [Promise EXCEPT ![Payer(c)] = "kept"]
          /\ Delivered' = Delivered /\ c \notin Booked /\ Booked' = Booked \cup {c}
        BY <1>2, <2>1, PromiseOf, PromiseMoves, BookedGrows
    <2>3. Abstract!Keep(c)
        BY <2>2 DEF Abstract!Keep, Abstract!Books, Delivered, Booked
    <2> QED BY <2>3 DEF Abstract!AbstractNext
<1>6. ASSUME NEW h \in Handlers, RecordDuplicate(h) PROVE Step
    <2>0. PICK c \in Collections : c = job[h].c
        BY <1>6, BookingJob DEF RecordDuplicate, Books, At, WithCollection
    <2>1. /\ Payer(c) \in Orders /\ settled[c] = "none"
          /\ order[Payer(c)] = "confirmed" /\ UNCHANGED <<order, fulfillment>>
          /\ settled' = [settled EXCEPT ![c] = "duplicate"]
        BY <1>6, <2>0, BookingJob DEF RecordDuplicate, Books, NotBooked, IsDuplicate, At,
            WithCollection, AttemptsFollowOrder, orderVars
    <2>2. /\ Promise[Payer(c)] = "kept" /\ Promise' = Promise
          /\ Delivered' = Delivered /\ c \notin Booked /\ Booked' = Booked \cup {c}
        BY <1>1, <1>2, <2>1, PromiseOf, BookedGrows
    <2>3. Abstract!BookAgain(c)
        BY <2>2 DEF Abstract!BookAgain, Abstract!Books, Delivered, Booked
    <2> QED BY <2>3 DEF Abstract!AbstractNext
<1>7. ASSUME NEW h \in Handlers, RecordLate(h) PROVE Step
    <2>0. PICK c \in Collections : c = job[h].c
        BY <1>7, BookingJob DEF RecordLate, Books, At, WithCollection
    <2>1. /\ Payer(c) \in Orders /\ settled[c] = "none"
          /\ order[Payer(c)] \in Closed
          /\ order' = [order EXCEPT ![Payer(c)] = "late_payment_review"]
          /\ settled' = [settled EXCEPT ![c] = "late"] /\ UNCHANGED fulfillment
        BY <1>7, <2>0, BookingJob DEF RecordLate, Books, NotBooked, IsLate, At, WithCollection
    <2>2. /\ Promise[Payer(c)] = "withdrawn"
          /\ Promise' = [Promise EXCEPT ![Payer(c)] = "review"]
          /\ Delivered' = Delivered /\ c \notin Booked /\ Booked' = Booked \cup {c}
        BY <1>2, <2>1, PromiseOf, PromiseMoves, BookedGrows
    <2>3. Abstract!BookLate(c)
        BY <2>2 DEF Abstract!BookLate, Abstract!Books, Delivered, Booked
    <2> QED BY <2>3 DEF Abstract!AbstractNext
<1>8. ASSUME NEW o \in Orders, NEW next \in Closed, order[o] = "pending_payment",
             order' = [order EXCEPT ![o] = next], UNCHANGED <<fulfillment, settled>>
      PROVE  Step
    <2>1. /\ Promise[o] = "awaiting" /\ Promise' = [Promise EXCEPT ![o] = "withdrawn"]
          /\ Delivered' = Delivered /\ Booked' = Booked
        BY <1>2, <1>3, <1>8, PromiseOf, PromiseMoves
    <2>2. Abstract!Withdraw(o)
        BY <2>1 DEF Abstract!Withdraw, Delivered, Booked
    <2> QED BY <2>2 DEF Abstract!AbstractNext
<1>9. ASSUME NEW h \in Handlers, Finish(h) PROVE Step
    <2>1. job[h].a \in Attempts /\ OrderOf(job[h].a) \in Orders
        BY <1>9, WorkingJob DEF Finish, At
    <2>2. PICK next \in Closed : CloseOrder(OrderOf(job[h].a), next)
        BY <1>9 DEF Finish, Closed
    <2> QED BY <1>8, <1>9, <2>1, <2>2 DEF Finish, CloseOrder, Undecided
<1>10. ASSUME NEW o \in Orders, CancelUnasked(o) PROVE Step
    BY <1>8, <1>10 DEF CancelUnasked, CloseOrder, Closed
<1>11. ASSUME NEW h \in Handlers, FulfillConfirmedPayment(h) PROVE Step
    <2>0. PICK o \in Orders : o = Payer(job[h].c)
        BY <1>11, BookingJob DEF FulfillConfirmedPayment, At, WithCollection
    <2>1. /\ order[o] = "confirmed" /\ UNCHANGED <<order, settled>>
          /\ fulfillment' = [fulfillment EXCEPT ![o] = "fulfilled"]
        BY <1>11, <2>0, BookingJob DEF FulfillConfirmedPayment, Canonical, At, WithCollection
    <2>2. Delivered' = Delivered \cup {o}
        BY <2>1 DEF Delivered, RowsOK
    <2>3. Promise[o] = "kept" /\ Promise' = Promise /\ Booked' = Booked
        BY <1>1, <1>3, <2>1, PromiseOf
    <2>4. Abstract!Deliver(o)
        BY <2>2, <2>3 DEF Abstract!Deliver, Delivered, Booked
    <2> QED BY <2>4 DEF Abstract!AbstractNext
<1>12. ASSUME NEW h \in Handlers, RecordFailure(h) PROVE Step
    <2>1. Delivered' = Delivered
        BY <1>12, BookingJob DEF RecordFailure, Delivered, Unfulfilled, RowsOK, At,
            WithCollection
    <2> QED BY <1>1, <1>3, <1>4, <1>12, <2>1 DEF RecordFailure
<1>13. ASSUME UNCHANGED <<order, settled, fulfillment>> PROVE Step
    BY <1>1, <1>2, <1>3, <1>4, <1>13
<1> QED BY <1>5, <1>6, <1>7, <1>9, <1>10, <1>11, <1>12, <1>13, OrderWriters, DeliveryWriters
        DEF FlagUnfulfilled, FinalizeResolution, orderVars

\* The payment code implements OrderSettlement.
THEOREM KeepsPromiseHolds == Spec => KeepsPromise
<1>1. Init => Abstract!AbstractInit
    <2>1. SUFFICES ASSUME Init PROVE Abstract!AbstractInit
        OBVIOUS
    <2>2. Promise = [o \in Orders |-> "awaiting"]
        <3>1. \A o \in Orders : Promise[o] = "awaiting"
            BY <2>1, PromiseOf DEF Init
        <3>2. Promise = [o \in Orders |-> Promise[o]]
            BY DEF Promise
        <3> QED BY <3>1, <3>2
    <2>3. Delivered = {}
        BY <2>1 DEF Init, Delivered
    <2>4. Booked = {}
        BY <2>1 DEF Init, Booked
    <2> QED BY <2>2, <2>3, <2>4 DEF Abstract!AbstractInit, Delivered, Booked
<1>2. IInv /\ [Next]_vars => [Abstract!AbstractNext]_(Abstract!promiseVars)
    BY PromiseStep
<1> QED BY <1>1, <1>2, PaymentInvariant, PTL DEF Spec, KeepsPromise, Abstract!AbstractSpec
=============================================================================
