--------------------------- MODULE PaymentLifecycle ---------------------------
(***************************************************************************)
(* One order from its payment request to its benefits: request, webhook,   *)
(* cancellation, expiry, reconciliation and fulfillment, each handled by a *)
(* process that holds nothing between two transactions and may stop there. *)
(* Every action below is one transaction or one answer of a provider.      *)
(***************************************************************************)
EXTENDS Naturals, FiniteSets

CONSTANTS
    Orders,
    Handlers,           \* the processes at work: HTTP requests, the scheduler
    MaxAttempts,        \* bound: payment attempts of an order
    MaxCollections,     \* bound: payments a buyer makes on one attempt
    MaxCrashes,         \* bound: handlers that stop half way
    None

ASSUME Bounds ==
    /\ MaxAttempts \in Nat /\ MaxCollections \in Nat /\ MaxCrashes \in Nat

Providers == {"payos", "vnpay"}
Attempts == Orders \X (1..MaxAttempts)
Collections == Attempts \X (1..MaxCollections)
OrderOf(a) == a[1]
AttemptOf(c) == c[1]
Payer(c) == OrderOf(AttemptOf(c))

ASSUME NoneIsNothing == None \notin Providers \cup Attempts \cup Collections

VARIABLES
    order,              \* commerce_orders.status
    fulfillment,        \* commerce_orders.fulfillment_status, between transactions
    confirmedBy,        \* commerce_orders.confirmed_settlement_id
    reservation,        \* the status of the order's promotion reservations
    attempt,            \* commerce_payment_attempts.status, "none" before the row
    provider,           \* commerce_payment_attempts.provider
    windowOver,         \* attempts whose provider_expires_at has passed
    link,               \* the payment link as the provider keeps it
    collected,          \* how many payments the provider took on an attempt
    settled,            \* disposition of a collection's settlement row
    retryCase,          \* the paid_not_fulfilled case of an order
    review,             \* attempts with a case of any other kind
    job,                \* what each handler is in the middle of
    seenCase,           \* <<handler, order>>: its expectedUpdatedAt is still the case's
    crashes

vars == <<order, fulfillment, confirmedBy, reservation, attempt, provider, windowOver, link,
          collected, settled, retryCase, review, job, seenCase, crashes>>

orderVars == <<order, fulfillment, confirmedBy, reservation>>
caseVars == <<retryCase, review, seenCase>>
externalVars == <<windowOver, link, collected>>

OrderStatus == {"pending_payment", "confirmed", "cancelled", "expired", "late_payment_review"}
AttemptStatus == {"none", "created", "pending", "paid", "failed", "cancelled", "expired",
                  "late_paid"}
Open == {"created", "pending"}
Closed == {"cancelled", "expired"}
Answers == {"PENDING", "CANCELLED", "EXPIRED", "FAILED"}
Steps == {"idle", "asking", "opening", "rejecting", "closing", "finishing", "querying", "checked",
          "booking", "fulfilling", "failing", "flagging", "finalizing"}
Operations == {"none", "request", "cancel", "expiry", "reconciliation", "webhook", "resolve"}
Jobs == [step : Steps, op : Operations, a : Attempts \cup {None},
         c : Collections \cup {None}, said : Answers \cup {"none"}]

Idle == [step |-> "idle", op |-> "none", a |-> None, c |-> None, said |-> "none"]

TypeOK ==
    /\ order \in [Orders -> OrderStatus]
    /\ fulfillment \in [Orders -> {"not_started", "failed", "fulfilled"}]
    /\ confirmedBy \in [Orders -> Collections \cup {None}]
    /\ reservation \in [Orders -> {"reserved", "consumed", "released", "expired"}]
    /\ attempt \in [Attempts -> AttemptStatus]
    /\ provider \in [Attempts -> Providers \cup {None}]
    /\ windowOver \subseteq Attempts
    /\ link \in [Attempts -> {"none", "open", "closed"}]
    /\ collected \in [Attempts -> 0..MaxCollections]
    /\ settled \in [Collections -> {"none", "matched", "duplicate", "late"}]
    /\ retryCase \in [Orders -> {"none", "open", "resolved"}]
    /\ review \subseteq Attempts
    /\ job \in [Handlers -> Jobs]
    /\ \A h \in Handlers :
          /\ job[h].step # "idle" => job[h].a \in Attempts
          /\ job[h].step \in {"booking", "fulfilling", "failing", "flagging", "finalizing"} =>
                job[h].c \in Collections
    /\ seenCase \subseteq Handlers \X Orders
    /\ crashes \in 0..MaxCrashes

Init ==
    /\ order = [o \in Orders |-> "pending_payment"]
    /\ fulfillment = [o \in Orders |-> "not_started"]
    /\ confirmedBy = [o \in Orders |-> None]
    /\ reservation = [o \in Orders |-> "reserved"]
    /\ attempt = [a \in Attempts |-> "none"]
    /\ provider = [a \in Attempts |-> None]
    /\ windowOver = {}
    /\ link = [a \in Attempts |-> "none"]
    /\ collected = [a \in Attempts |-> 0]
    /\ settled = [c \in Collections |-> "none"]
    /\ retryCase = [o \in Orders |-> "none"]
    /\ review = {}
    /\ job = [h \in Handlers |-> Idle]
    /\ seenCase = {}
    /\ crashes = 0

-----------------------------------------------------------------------------
(* Handlers                                                                 *)

At(h, step) == job[h].step = step

Starts(h, step, op, a, c) ==
    /\ At(h, "idle")
    /\ job' = [job EXCEPT ![h] = [step |-> step, op |-> op, a |-> a, c |-> c, said |-> "none"]]

Moves(h, step) == job' = [job EXCEPT ![h].step = step]

Ends(h) == job' = [job EXCEPT ![h] = Idle]

Flags(a) == review' = review \cup {a}

\* A write to the paid_not_fulfilled case changes its updated_at.
Touches(o) == seenCase' = {s \in seenCase : s[2] # o}

\* The order's latest attempt, as take: 1 by created_at reads it.
Latest(o, a) ==
    /\ a \in Attempts /\ OrderOf(a) = o /\ attempt[a] # "none"
    /\ \A n \in 1..MaxAttempts : n > a[2] => attempt[<<o, n>>] = "none"

Unasked(o) == \A n \in 1..MaxAttempts : attempt[<<o, n>>] = "none"

-----------------------------------------------------------------------------
(* Payment request                                                          *)

NonePending(o) == \A n \in 1..MaxAttempts : attempt[<<o, n>>] # "pending"

NoneOpen(o) == \A n \in 1..MaxAttempts : attempt[<<o, n>>] \notin Open

\* prepare(): an open attempt is shown again, so only an order without one gets a new row.
Prepare(h, o, p) ==
    /\ order[o] = "pending_payment"
    /\ NoneOpen(o)
    /\ \E n \in 1..MaxAttempts :
          /\ attempt[<<o, n>>] = "none"
          /\ \A m \in 1..(n - 1) : attempt[<<o, m>>] # "none"
          /\ attempt' = [attempt EXCEPT ![<<o, n>>] = "created"]
          /\ provider' = [provider EXCEPT ![<<o, n>>] = p]
          /\ Starts(h, "asking", "request", <<o, n>>, None)
    /\ UNCHANGED <<orderVars, externalVars, settled, caseVars, crashes>>

\* PayOS opens a link; a VNPay address is signed locally and nobody is asked.
ProviderCreates(h) ==
    /\ At(h, "asking")
    /\ Moves(h, "opening")
    /\ link' = IF provider[job[h].a] = "payos"
               THEN [link EXCEPT ![job[h].a] = "open"] ELSE link
    /\ UNCHANGED <<orderVars, attempt, provider, windowOver, collected, settled, caseVars, crashes>>

\* The provider is out, or its answer is lost: the row stays CREATED.
CreateUnanswered(h) ==
    /\ At(h, "asking")
    /\ Ends(h)
    /\ \/ UNCHANGED link
       \/ /\ provider[job[h].a] = "payos"
          /\ link' = [link EXCEPT ![job[h].a] = "open"]
    /\ UNCHANGED <<orderVars, attempt, provider, windowOver, collected, settled, caseVars, crashes>>

ProviderRejects(h) ==
    /\ At(h, "asking")
    /\ Moves(h, "rejecting")
    /\ UNCHANGED <<orderVars, attempt, provider, externalVars, settled, caseVars, crashes>>

CompletableAlways(a) == TRUE

\* The code writes "pending" unconditionally; the row's trigger refuses it from any other
\* status, even "pending" itself, and the transaction is rolled back.
Completable(a) == attempt[a] = "created"

CompleteProviderRequest(h) ==
    LET a == job[h].a IN
    /\ At(h, "opening")
    /\ IF Completable(a)
       THEN /\ attempt' = [attempt EXCEPT ![a] = "pending"]
            /\ link' = IF provider[a] = "vnpay" THEN [link EXCEPT ![a] = "open"] ELSE link
       ELSE UNCHANGED <<attempt, link>>
    /\ Ends(h)
    /\ UNCHANGED <<orderVars, provider, windowOver, collected, settled, caseVars, crashes>>

RecordProviderFailure(h) ==
    /\ At(h, "rejecting")
    /\ attempt' = [attempt EXCEPT ![job[h].a] = IF @ = "created" THEN "failed" ELSE @]
    /\ Ends(h)
    /\ UNCHANGED <<orderVars, provider, externalVars, settled, caseVars, crashes>>

-----------------------------------------------------------------------------
(* Cancellation and expiry                                                  *)

CloseOrderOnly(o, next) ==
    /\ order' = [order EXCEPT ![o] = next]
    /\ UNCHANGED <<fulfillment, confirmedBy, reservation>>

\* closeOrder(): the reservations go back with the order.
CloseOrder(o, next) ==
    /\ order' = [order EXCEPT ![o] = next]
    /\ reservation' = [reservation EXCEPT
          ![o] = IF next = "expired" THEN "expired" ELSE "released"]
    /\ UNCHANGED <<fulfillment, confirmedBy>>

\* An order nobody was asked to pay is cancelled in the first transaction.
CancelUnasked(o) ==
    /\ order[o] = "pending_payment" /\ Unasked(o)
    /\ CloseOrder(o, "cancelled")
    /\ UNCHANGED <<attempt, provider, externalVars, settled, caseVars, job, crashes>>

PrepareCancel(h, a) ==
    /\ Latest(OrderOf(a), a)
    /\ order[OrderOf(a)] = "pending_payment" /\ attempt[a] = "pending"
    /\ Starts(h, "closing", "cancel", a, None)
    /\ UNCHANGED <<orderVars, attempt, provider, externalVars, settled, caseVars, crashes>>

Due(a) == attempt[a] = "pending" /\ a \in windowOver /\ order[OrderOf(a)] = "pending_payment"

SelectDue(h, a) ==
    /\ Due(a)
    /\ Starts(h, "closing", "expiry", a, None)
    /\ UNCHANGED <<orderVars, attempt, provider, externalVars, settled, caseVars, crashes>>

\* PayOS closes its link before it answers; VNPay is only asked and its address lives on.
CloseAtProvider(h) ==
    LET a == job[h].a IN
    /\ At(h, "closing")
    /\ collected[a] = 0
    /\ \E said \in IF provider[a] = "payos" THEN {"CANCELLED", "EXPIRED", "FAILED"} ELSE {"PENDING", "FAILED", "EXPIRED"} :
          job' = [job EXCEPT ![h].step = "finishing", ![h].said = said]
    /\ link' = IF provider[a] = "payos" THEN [link EXCEPT ![a] = "closed"] ELSE link
    /\ UNCHANGED <<orderVars, attempt, provider, windowOver, collected, settled, caseVars, crashes>>

ProvableByLink(a) == provider[a] = "payos" /\ collected[a] = 1

\* The facts of a PayOS link prove one payment of the whole amount or nothing.
Provable(a) == provider[a] = "vnpay" \/ collected[a] = 1

\* A paid link is never closed: the collection is booked instead.
PaidInstead(h) ==
    LET a == job[h].a IN
    /\ At(h, "closing")
    /\ collected[a] > 0
    /\ \/ /\ Provable(a)
          /\ \E n \in 1..collected[a] :
                job' = [job EXCEPT ![h].step = "booking", ![h].c = <<a, n>>]
          /\ UNCHANGED review
       \/ ~ Provable(a) /\ Flags(a) /\ Ends(h)
    /\ UNCHANGED <<orderVars, attempt, provider, externalVars, settled, retryCase, seenCase, crashes>>

ClosesAnyway(h) == job' = [job EXCEPT ![h].step = "finishing", ![h].said = "CANCELLED"]

GivesUp(h) == Ends(h)

\* No usable answer; PayOS may have closed the link all the same.  Expiry leaves a case.
CloseUnanswered(h) ==
    LET a == job[h].a IN
    /\ At(h, "closing")
    /\ GivesUp(h)
    /\ \/ UNCHANGED link
       \/ /\ provider[a] = "payos" /\ collected[a] = 0
          /\ link' = [link EXCEPT ![a] = "closed"]
    /\ IF job[h].op = "expiry" \/ provider[a] = "vnpay" THEN Flags(a) ELSE UNCHANGED review
    /\ UNCHANGED <<orderVars, attempt, provider, windowOver, collected, settled, retryCase,
                   seenCase, crashes>>

UndecidedInTime(a) ==
    attempt[a] = "pending" /\ order[OrderOf(a)] = "pending_payment" /\ a \notin windowOver

Undecided(a) == attempt[a] = "pending" /\ order[OrderOf(a)] = "pending_payment"

NextPayment(j) ==
    CASE j.said = "FAILED" -> "failed"
      [] j.said = "EXPIRED" \/ (j.said = "PENDING" /\ j.op = "expiry") -> "expired"
      [] OTHER -> "cancelled"

\* finish() and finishExpiry(): both rows are read again under the attempt's lock.
Finish(h) ==
    LET a == job[h].a  o == OrderOf(a) IN
    /\ At(h, "finishing")
    /\ Undecided(a)
    /\ attempt' = [attempt EXCEPT ![a] = NextPayment(job[h])]
    /\ CloseOrder(o, IF job[h].op = "expiry" \/ NextPayment(job[h]) = "expired"
                     THEN "expired" ELSE "cancelled")
    /\ Ends(h)
    /\ UNCHANGED <<provider, externalVars, settled, caseVars, crashes>>

FinishTooLate(h) ==
    LET a == job[h].a IN
    /\ At(h, "finishing")
    /\ ~ Undecided(a)
    /\ IF job[h].op = "expiry" /\ order[OrderOf(a)] # "expired" THEN Flags(a) ELSE UNCHANGED review
    /\ Ends(h)
    /\ UNCHANGED <<orderVars, attempt, provider, externalVars, settled, retryCase, seenCase, crashes>>

-----------------------------------------------------------------------------
(* Reconciliation                                                           *)

UnfulfilledAlways(o) == TRUE

Unfulfilled(o) == fulfillment[o] # "fulfilled"

HandoffFailed(a) ==
    /\ attempt[a] = "paid" /\ order[OrderOf(a)] = "confirmed"
    /\ confirmedBy[OrderOf(a)] # None /\ fulfillment[OrderOf(a)] = "failed"

\* hasCanonicalPaidSettlement()
HandoffLost(a) ==
    /\ attempt[a] = "paid" /\ order[OrderOf(a)] = "confirmed"
    /\ confirmedBy[OrderOf(a)] # None /\ Unfulfilled(OrderOf(a))

SelectForReconciliation(h, a) ==
    LET o == OrderOf(a) IN
    /\ \/ /\ attempt[a] \in Open \/ (attempt[a] = "paid" /\ Unfulfilled(o) /\ confirmedBy[o] = None)
          /\ Starts(h, "querying", "reconciliation", a, None)
       \/ /\ HandoffLost(a)
          /\ Starts(h, "fulfilling", "reconciliation", a, confirmedBy[o])
    /\ UNCHANGED <<orderVars, attempt, provider, externalVars, settled, caseVars, crashes>>

QueryProvider(h) ==
    LET a == job[h].a IN
    /\ At(h, "querying")
    /\ link[a] # "none"
    /\ \/ /\ collected[a] > 0 /\ Provable(a)
          /\ \E n \in 1..collected[a] :
                job' = [job EXCEPT ![h].step = "checked", ![h].c = <<a, n>>]
       \/ /\ collected[a] = 0
          /\ job' = [job EXCEPT ![h].step = "checked",
                                ![h].said = IF link[a] = "open" THEN "PENDING" ELSE "CANCELLED"]
    /\ UNCHANGED <<orderVars, attempt, provider, externalVars, settled, caseVars, crashes>>

\* Outage, an unknown reference, or facts that prove nothing.
QueryUnanswered(h) ==
    /\ At(h, "querying")
    /\ Flags(job[h].a)
    /\ Ends(h)
    /\ UNCHANGED <<orderVars, attempt, provider, externalVars, settled, retryCase, seenCase, crashes>>

ProvenUnlessClosed(j) == j.said # "CANCELLED"

Proven(j) == j.c # None

\* persistCheckedFacts(): a CREATED row the provider knows becomes pending.
PersistCheckedFacts(h) ==
    LET a == job[h].a IN
    /\ At(h, "checked")
    /\ attempt' = [attempt EXCEPT
          ![a] = IF @ = "created" /\ (job[h].c # None \/ job[h].said = "PENDING")
                 THEN "pending" ELSE @]
    /\ IF Proven(job[h]) THEN Moves(h, "booking") ELSE Ends(h)
    /\ IF job[h].said = "CANCELLED" THEN Flags(a) ELSE UNCHANGED review
    /\ UNCHANGED <<orderVars, provider, externalVars, settled, retryCase, seenCase, crashes>>

-----------------------------------------------------------------------------
(* Verified webhooks                                                        *)

\* The provider reports a payment it took, once or again, early or late.
Webhook(h, c) ==
    /\ c[2] <= collected[AttemptOf(c)]
    /\ Starts(h, "booking", "webhook", AttemptOf(c), c)
    /\ UNCHANGED <<orderVars, attempt, provider, externalVars, settled, caseVars, crashes>>

\* matchedSettlementIsCanonical(), and what requireCanonicalPayment() asks again: nothing
\* takes it back (HandoffsCanonical), so a refusal there is not a step.
Canonical(c) ==
    /\ attempt[AttemptOf(c)] = "paid"
    /\ order[Payer(c)] = "confirmed"
    /\ confirmedBy[Payer(c)] = c

NotBookedByEvent(c) == TRUE

\* One settlement row for a provider's settlement reference, whoever reports it.
NotBooked(c) == settled[c] = "none"

Books(h, disposition) ==
    /\ At(h, "booking")
    /\ NotBooked(job[h].c)
    /\ settled' = [settled EXCEPT ![job[h].c] = disposition]
    /\ UNCHANGED <<provider, externalVars, retryCase, seenCase, crashes>>

Confirm(h) ==
    LET c == job[h].c  o == Payer(c) IN
    /\ Books(h, "matched")
    /\ Undecided(AttemptOf(c))
    /\ attempt' = [attempt EXCEPT ![AttemptOf(c)] = "paid"]
    /\ order' = [order EXCEPT ![o] = "confirmed"]
    /\ confirmedBy' = [confirmedBy EXCEPT ![o] = c]
    /\ reservation' = [reservation EXCEPT ![o] = "consumed"]
    /\ Moves(h, "fulfilling")
    /\ UNCHANGED <<fulfillment, review>>

IsDuplicate(a) == attempt[a] = "paid" \/ order[OrderOf(a)] = "confirmed"

RecordDuplicate(h) ==
    LET c == job[h].c IN
    /\ Books(h, "duplicate")
    /\ IsDuplicate(AttemptOf(c))
    /\ Flags(AttemptOf(c))
    /\ Ends(h)
    /\ UNCHANGED <<orderVars, attempt>>

IsLate(a) == attempt[a] \in Closed /\ order[OrderOf(a)] \in Closed

RecordLate(h) ==
    LET c == job[h].c  a == AttemptOf(c) IN
    /\ Books(h, "late")
    /\ IsLate(a)
    /\ attempt' = [attempt EXCEPT ![a] = "late_paid"]
    /\ order' = [order EXCEPT ![OrderOf(a)] = "late_payment_review"]
    /\ Flags(a)
    /\ Ends(h)
    /\ UNCHANGED <<fulfillment, confirmedBy, reservation>>

\* A collection whose attempt fits no case is only flagged: no settlement is written.
RecordMismatch(h) ==
    LET c == job[h].c  a == AttemptOf(c) IN
    /\ At(h, "booking")
    /\ NotBooked(c) /\ ~ Undecided(a) /\ ~ IsDuplicate(a) /\ ~ IsLate(a)
    /\ Flags(a)
    /\ Ends(h)
    /\ UNCHANGED <<orderVars, attempt, provider, externalVars, settled, retryCase, seenCase, crashes>>

\* A settlement already booked answers as it did; a matched one is fulfilled again.
Replay(h) ==
    LET c == job[h].c IN
    /\ At(h, "booking")
    /\ \/ settled[c] = "matched" /\ Canonical(c) /\ Moves(h, "fulfilling")
       \/ settled[c] \in {"duplicate", "late"} /\ Ends(h)
    /\ UNCHANGED <<orderVars, attempt, provider, externalVars, settled, caseVars, crashes>>

-----------------------------------------------------------------------------
(* Fulfillment                                                              *)

\* One transaction: every line's benefit, the outbox row and the order's status.
FulfillConfirmedPayment(h) ==
    LET o == Payer(job[h].c) IN
    /\ At(h, "fulfilling")
    /\ Canonical(job[h].c)
    /\ fulfillment' = [fulfillment EXCEPT ![o] = "fulfilled"]
    /\ IF job[h].op = "resolve" THEN Moves(h, "finalizing") ELSE Ends(h)
    /\ UNCHANGED <<order, confirmedBy, reservation, attempt, provider, externalVars, settled,
                   caseVars, crashes>>

\* A benefit cannot be given; the transaction leaves nothing behind.
FulfillmentFails(h) ==
    /\ At(h, "fulfilling")
    /\ Canonical(job[h].c) /\ Unfulfilled(Payer(job[h].c))
    /\ Moves(h, "failing")
    /\ UNCHANGED <<orderVars, attempt, provider, externalVars, settled, caseVars, crashes>>

\* Reconciliation, and cancel and expiry through it for VNPay, write down what they caught.
Reconciles(j) == j.op = "reconciliation" \/ (j.op \in {"cancel", "expiry"} /\ provider[j.a] = "vnpay")

Unreported(case) == case

\* What a new failure makes of the case: a resolved one stays resolved.
Reported(case) == IF case = "none" THEN "open" ELSE case

\* The error reaches the operation that asked: some come back to the case, expiry flags its own.
AfterFailure(h) ==
    /\ IF Reconciles(job[h]) THEN Moves(h, "flagging") ELSE Ends(h)
    /\ IF job[h].op = "expiry" /\ ~ Reconciles(job[h]) THEN Flags(job[h].a) ELSE UNCHANGED review

\* persistFailure(): a transaction of its own, so another handler may have fulfilled.
RecordFailure(h) ==
    LET o == Payer(job[h].c) IN
    /\ At(h, "failing")
    /\ Canonical(job[h].c)
    /\ Unfulfilled(o)
    /\ fulfillment' = [fulfillment EXCEPT ![o] = "failed"]
    /\ retryCase' = [retryCase EXCEPT ![o] = Reported(@)]
    /\ IF retryCase[o] = "resolved" THEN UNCHANGED seenCase ELSE Touches(o)
    /\ AfterFailure(h)
    /\ UNCHANGED <<order, confirmedBy, reservation, attempt, provider, externalVars, settled,
                   crashes>>

\* Even the record of the failure may not be written; the error is the same.
FailureUnrecorded(h) ==
    /\ At(h, "failing")
    /\ AfterFailure(h)
    /\ UNCHANGED <<orderVars, attempt, provider, externalVars, settled, retryCase, seenCase, crashes>>

\* Fulfilled meanwhile: the failure is forgotten and the caller sees a success.
FailureOvertaken(h) ==
    /\ At(h, "failing")
    /\ Canonical(job[h].c) /\ ~ Unfulfilled(Payer(job[h].c))
    /\ IF job[h].op = "resolve" THEN Moves(h, "finalizing") ELSE Ends(h)
    /\ UNCHANGED <<orderVars, attempt, provider, externalVars, settled, caseVars, crashes>>

\* flagAttempt() with the same source key: the case is written once more.
FlagUnfulfilled(h) ==
    LET o == Payer(job[h].c) IN
    /\ At(h, "flagging")
    /\ retryCase' = [retryCase EXCEPT ![o] = Reported(@)]
    /\ Touches(o)
    /\ Ends(h)
    /\ UNCHANGED <<orderVars, attempt, provider, externalVars, settled, review, crashes>>

\* resolve(): the first transaction checks the case, the last one checks it again.
Resolve(h, o) ==
    /\ retryCase[o] = "open" /\ Unfulfilled(o)
    /\ confirmedBy[o] # None /\ Canonical(confirmedBy[o])
    /\ Starts(h, "fulfilling", "resolve", AttemptOf(confirmedBy[o]), confirmedBy[o])
    /\ seenCase' = seenCase \cup {<<h, o>>}
    /\ UNCHANGED <<orderVars, attempt, provider, externalVars, settled, retryCase, review, crashes>>

FinalizeResolution(h) ==
    LET o == Payer(job[h].c) IN
    /\ At(h, "finalizing")
    /\ IF /\ retryCase[o] = "open" /\ <<h, o>> \in seenCase
          /\ Canonical(job[h].c) /\ ~ Unfulfilled(o)
       THEN retryCase' = [retryCase EXCEPT ![o] = "resolved"] /\ Touches(o)
       ELSE UNCHANGED <<retryCase, seenCase>>
    /\ Ends(h)
    /\ UNCHANGED <<orderVars, attempt, provider, externalVars, settled, review, crashes>>

-----------------------------------------------------------------------------
(* The provider's side, time and crashes                                    *)

\* A buyer pays through a link he was shown: the row was pending once.
Collect(a) ==
    /\ link[a] = "open" /\ attempt[a] \notin {"none", "created"}
    /\ collected[a] < MaxCollections
    /\ collected' = [collected EXCEPT ![a] = @ + 1]
    /\ UNCHANGED <<orderVars, attempt, provider, windowOver, link, settled, caseVars, job, crashes>>

WindowEnds(a) ==
    /\ attempt[a] # "none" /\ a \notin windowOver
    /\ windowOver' = windowOver \cup {a}
    /\ UNCHANGED <<orderVars, attempt, provider, link, collected, settled, caseVars, job, crashes>>

\* Providers end a link themselves after the time it was opened for.
LinkExpires(a) ==
    /\ link[a] = "open" /\ a \in windowOver
    /\ link' = [link EXCEPT ![a] = "closed"]
    /\ UNCHANGED <<orderVars, attempt, provider, windowOver, collected, settled, caseVars, job,
                   crashes>>

Crash(h) ==
    /\ ~ At(h, "idle")
    /\ crashes < MaxCrashes
    /\ crashes' = crashes + 1
    /\ Ends(h)
    /\ UNCHANGED <<orderVars, attempt, provider, externalVars, settled, caseVars>>

-----------------------------------------------------------------------------

RequestNext(h) ==
    \/ \E o \in Orders, p \in Providers : Prepare(h, o, p)
    \/ ProviderCreates(h) \/ CreateUnanswered(h) \/ ProviderRejects(h)
    \/ CompleteProviderRequest(h) \/ RecordProviderFailure(h)

ClosingNext(h) ==
    \/ \E a \in Attempts : PrepareCancel(h, a) \/ SelectDue(h, a)
    \/ CloseAtProvider(h) \/ PaidInstead(h) \/ CloseUnanswered(h)
    \/ Finish(h) \/ FinishTooLate(h)

ReconciliationNext(h) ==
    \/ \E a \in Attempts : SelectForReconciliation(h, a)
    \/ QueryProvider(h) \/ QueryUnanswered(h) \/ PersistCheckedFacts(h)

WebhookNext(h) ==
    \/ \E c \in Collections : Webhook(h, c)
    \/ Confirm(h) \/ RecordDuplicate(h) \/ RecordLate(h) \/ RecordMismatch(h) \/ Replay(h)

FulfillmentNext(h) ==
    \/ FulfillConfirmedPayment(h) \/ FulfillmentFails(h) \/ RecordFailure(h)
    \/ FailureUnrecorded(h) \/ FailureOvertaken(h) \/ FlagUnfulfilled(h)
    \/ \E o \in Orders : Resolve(h, o)
    \/ FinalizeResolution(h)

OutsideNext ==
    \/ \E o \in Orders : CancelUnasked(o)
    \/ \E a \in Attempts : Collect(a) \/ WindowEnds(a) \/ LinkExpires(a)
    \/ \E h \in Handlers : Crash(h)

Next ==
    \/ \E h \in Handlers :
          \/ RequestNext(h) \/ ClosingNext(h) \/ ReconciliationNext(h)
          \/ WebhookNext(h) \/ FulfillmentNext(h)
    \/ OutsideNext

Spec == Init /\ [][Next]_vars

-----------------------------------------------------------------------------
(* Safety                                                                   *)

\* An order is confirmed by exactly one collection, which its provider did
\* take; what is booked beside it is a duplicate, and a late one puts the
\* order under review and is never alone without a case (payment-webhook
\* applyVerified, under cancellations and expiries of the same order).
EvidenceFitsOrder ==
    /\ \A o \in Orders : order[o] = "confirmed" <=> confirmedBy[o] # None
    /\ \A c \in Collections :
          /\ settled[c] # "none" => c[2] <= collected[AttemptOf(c)]
          /\ settled[c] = "matched" <=> confirmedBy[Payer(c)] = c
          /\ settled[c] = "duplicate" => order[Payer(c)] = "confirmed"
          /\ settled[c] = "late" => order[Payer(c)] = "late_payment_review"
          /\ settled[c] \in {"duplicate", "late"} => AttemptOf(c) \in review

\* The attempt a confirmed order was paid with stays paid, whoever answers late: a
\* request that completes after a webhook (completeProviderRequest, applyVerified).
ConfirmedByPaid ==
    \A o \in Orders : confirmedBy[o] # None => attempt[AttemptOf(confirmedBy[o])] = "paid"

\* Benefits and the voucher follow the order: fulfilled or failed only once
\* confirmed, the reservation consumed exactly then and given back exactly
\* when the order was closed (fulfillConfirmedPayment, closeOrder).
BenefitFollowsOrder ==
    \A o \in Orders :
        /\ fulfillment[o] # "not_started" => order[o] = "confirmed"
        /\ reservation[o] = "consumed" <=> order[o] = "confirmed"
        /\ reservation[o] = "reserved" <=> order[o] = "pending_payment"

\* A buyer is never asked to pay twice: one attempt of an order is open, and
\* no attempt is paid beside an open one (PaymentRequestService.prepare).
OneOpenAttempt ==
    \A a, b \in Attempts :
        OrderOf(a) = OrderOf(b) /\ attempt[a] \in Open
            /\ attempt[b] \in Open \cup {"paid", "late_paid"} => a = b

\* PayOS is closed before the order: an attempt that stays cancelled or
\* expired has no payable PayOS link (cancel and runExpiry).
PayOsClosedFirst ==
    \A a \in Attempts :
        attempt[a] \in Closed /\ provider[a] = "payos" => link[a] = "closed"

\* A failed delivery is on an operator's list, and a case is resolved only
\* when the order was delivered, whoever delivered it (resolve, recordFailure).
CasesFollowFulfillment ==
    \A o \in Orders :
        /\ fulfillment[o] = "failed" => retryCase[o] = "open"
        /\ retryCase[o] # "none" => order[o] = "confirmed"
        /\ retryCase[o] = "resolved" => fulfillment[o] = "fulfilled"

\* Who comes to deliver an order, to write down that it failed, or to resolve its
\* case comes with the payment that confirmed it, however late: requireCanonicalPayment
\* finds what was found before (commerce-fulfillment, between its transactions).
HandoffsCanonical ==
    \A h \in Handlers :
        job[h].step \in {"fulfilling", "failing", "flagging", "finalizing"} => Canonical(job[h].c)

\* Delivery is never taken back by a late failure of another handler.
FulfilledForever ==
    [][\A o \in Orders : fulfillment[o] = "fulfilled" => fulfillment'[o] = "fulfilled"]_vars

\* What the triggers of the commerce tables allow is all the code ever asks for: an
\* order and an attempt are decided once, and only money that comes late moves them
\* again; a settlement is never rewritten (commerce_guard_order_update and
\* commerce_guard_payment_attempt_update, under every interleaving of the handlers).
GuardedMoves ==
    [][/\ \A a \in Attempts :
            \/ attempt'[a] = attempt[a]
            \/ attempt[a] = "none" /\ attempt'[a] = "created"
            \/ attempt[a] = "created" /\ attempt'[a] \in {"pending", "failed"}
            \/ attempt[a] = "pending" /\ attempt'[a] \in {"paid", "failed"} \cup Closed
            \/ attempt[a] \in Closed /\ attempt'[a] = "late_paid"
       /\ \A o \in Orders :
            \/ order'[o] = order[o]
            \/ order[o] = "pending_payment" /\ order'[o] \in {"confirmed"} \cup Closed
            \/ order[o] \in Closed /\ order'[o] = "late_payment_review"
       /\ \A c \in Collections : settled[c] # "none" => settled'[c] = settled[c]
       /\ \A o \in Orders : confirmedBy[o] # None => confirmedBy'[o] = confirmedBy[o]]_vars

Promise ==
    [o \in Orders |->
        CASE order[o] = "pending_payment" -> "awaiting"
          [] order[o] = "confirmed" -> "kept"
          [] order[o] \in Closed -> "withdrawn"
          [] OTHER -> "review"]

Abstract == INSTANCE OrderSettlement WITH
    Owner <- Payer,
    promise <- Promise,
    delivered <- {o \in Orders : fulfillment[o] = "fulfilled"},
    booked <- {c \in Collections : settled[c] # "none"}

\* The payment code implements OrderSettlement.
KeepsPromise == Abstract!AbstractSpec

-----------------------------------------------------------------------------
(* Progress                                                                 *)

\* What the process at work does without anybody asking: it goes on to its
\* next step, providers answer in the end, and a benefit can be given in the end.
Continues(h) ==
    \/ ProviderCreates(h) \/ CompleteProviderRequest(h) \/ RecordProviderFailure(h)
    \/ CloseAtProvider(h) \/ PaidInstead(h) \/ Finish(h) \/ FinishTooLate(h)
    \/ QueryProvider(h) \/ QueryUnanswered(h) \/ PersistCheckedFacts(h)
    \/ Confirm(h) \/ RecordDuplicate(h) \/ RecordLate(h) \/ RecordMismatch(h) \/ Replay(h)
    \/ FulfillConfirmedPayment(h) \/ RecordFailure(h)
    \/ FailureOvertaken(h) \/ FlagUnfulfilled(h) \/ FinalizeResolution(h)

\* Time passes, the expiry timer ticks, an operator keeps running the
\* reconciliation, and neither a provider nor a benefit fails for ever.
Fairness ==
    /\ \A h \in Handlers : WF_vars(Continues(h))
    /\ \A a \in Attempts :
          /\ WF_vars(WindowEnds(a))
          /\ SF_vars(\E h \in Handlers : SelectDue(h, a))
          /\ SF_vars(\E h \in Handlers : SelectForReconciliation(h, a))
          /\ SF_vars(\E h \in Handlers : job[h].a = a /\ (CloseAtProvider(h) \/ PaidInstead(h)))
          /\ SF_vars(\E h \in Handlers : job[h].a = a /\ FulfillConfirmedPayment(h))

RunningSpec == Spec /\ Fairness

\* Nothing the code does settles a link that was paid twice: the facts of the link prove
\* no single payment, so expiry and reconciliation flag it again and again.
PaidTwice(a) == provider[a] = "payos" /\ collected[a] > 1

\* A pending attempt whose window is over does not keep its order waiting, unless its
\* link was paid twice and its case is before a person (runExpiry).
WindowCloses ==
    \A a \in Attempts : Due(a) ~> (~ Due(a) \/ (PaidTwice(a) /\ a \in review))

\* A handler that stopped between the confirmation and the delivery is made good
\* (the reconciliation's handoffs).
LostHandoffRecovered ==
    \A o \in Orders : (order[o] = "confirmed") ~> (fulfillment[o] = "fulfilled")

\* A payment whose webhook never comes is booked all the same, or flagged where the
\* link was paid twice (the reconciliation's run).
LostWebhookRecovered ==
    \A c \in Collections :
        LET a == AttemptOf(c) IN
        (c[2] <= collected[a] /\ Undecided(a)) ~>
            \/ settled[c] # "none"
            \/ order[Payer(c)] # "pending_payment"
            \/ PaidTwice(a) /\ a \in review

\* An order is paid once: one of its attempts is open at a time, and one collection
\* confirms it, on an attempt that stays paid.
PaidOnce == EvidenceFitsOrder /\ ConfirmedByPaid /\ OneOpenAttempt

\* Benefits, the voucher and the operators' cases follow the order, and each handler
\* that delivers it.
DeliveredOnce == BenefitFollowsOrder /\ CasesFollowFulfillment /\ HandoffsCanonical
=============================================================================
