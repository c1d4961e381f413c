------------------------------ MODULE GdsTopup ------------------------------
(***************************************************************************)
(* Top-ups of a GDS wallet through PayOS, from the intent to the credit.   *)
(* The learner's cancellation, the signed events and the workers of the    *)
(* inbox read the database, talk to PayOS without a lock and write what    *)
(* they decided in a later transaction; any of them may stop in between.   *)
(* A transaction is SERIALIZABLE, hence one action.                        *)
(***************************************************************************)
EXTENDS Naturals, FiniteSets

CONSTANTS
    Topups,       \* intents, one per buyer and idempotency key
    Transfers,    \* bank transfers to a link; their reference is the event identity
    Cancels,      \* cancellation requests being served
    Hooks,        \* webhook deliveries being served
    Workers,      \* instances of the inbox worker
    MaxAttempts,  \* MAX_ATTEMPTS
    None

ASSUME AttemptsAssumption == MaxAttempts \in Nat \ {0}

InboxRows == [status : {"RECEIVED", "PROCESSED", "REVIEW"},
              reason : {"none", "identity", "conflict", "exhausted"}, attempts : 0 .. MaxAttempts]

ASSUME NoneAssumption == None \notin Topups \cup Transfers \cup InboxRows

VARIABLES
    topup,     \* gds_internal_topups.status, "none" before prepare
    expired,   \* intents whose expires_at has passed
    inbox,     \* gds_internal_payos_inbox by event, None before it is stored
    journal,   \* the event of an intent's TOPUP_CREDIT entry, None while it has none
    closed,    \* links cancelled at PayOS
    transfer,  \* the transfers PayOS knows of
    accepted,  \* events PayOS got an answer for
    cancel, hook, worker  \* what the runs in progress remember, None when idle

vars == <<topup, expired, inbox, journal, closed, transfer, accepted, cancel, hook, worker>>
payosVars == <<closed, transfer, accepted>>
runVars == <<cancel, hook, worker>>

Init ==
    /\ topup = [t \in Topups |-> "none"]
    /\ expired = {}
    /\ inbox = [x \in Transfers |-> None]
    /\ journal = [t \in Topups |-> None]
    /\ closed = {}
    /\ transfer = [x \in Transfers |-> None]
    /\ accepted = {}
    /\ cancel = [c \in Cancels |-> None]
    /\ hook = [h \in Hooks |-> None]
    /\ worker = [w \in Workers |-> None]

Received(t) == {x \in Transfers : transfer[x] # None /\ transfer[x].topup = t}

Stored(t) == {x \in Received(t) : inbox[x] # None}

-----------------------------------------------------------------------------
(* The intent and its link.  A repeated request never posts again, so an   *)
(* intent whose first request stopped before the link was attached stays   *)
(* CREATED.                                                                *)

Prepare(t) ==
    /\ topup[t] = "none"
    /\ topup' = [topup EXCEPT ![t] = "CREATED"]
    /\ UNCHANGED <<expired, inbox, journal, payosVars, runVars>>

\* The rest of the first request: createPaymentRequest and attachCreatedLink.
AttachCreatedLink(t) ==
    /\ topup[t] = "CREATED"
    /\ topup' = [topup EXCEPT ![t] = "PENDING_PAYOS"]
    /\ UNCHANGED <<expired, inbox, journal, payosVars, runVars>>

ExpiryPasses(t) ==
    /\ t \notin expired
    /\ expired' = expired \cup {t}
    /\ UNCHANGED <<topup, inbox, journal, payosVars, runVars>>

\* A learner pays a link that was shown, in full or not, in time or not; a bank
\* may bring the money after PayOS closed the link.  An event is historic when an
\* earlier revision, which compared the bank's account with the QR's virtual one,
\* has put it on review; the migration keeps such rows.
TransferArrives(x, t, exact, historic) ==
    /\ transfer[x] = None
    /\ topup[t] \notin {"none", "CREATED"}
    /\ transfer' = [transfer EXCEPT ![x] =
           [topup |-> t, exact |-> exact, historic |-> historic,
            late |-> t \in expired, afterClose |-> t \in closed]]
    /\ UNCHANGED <<topup, expired, inbox, journal, closed, accepted, runVars>>

-----------------------------------------------------------------------------
(* Cancellation by the learner                                             *)

NoEvidence(t) == journal[t] = None /\ Stored(t) = {}

CancelRead(c, t) ==
    /\ cancel[c] = None
    /\ topup[t] = "PENDING_PAYOS" /\ NoEvidence(t)
    /\ cancel' = [cancel EXCEPT ![c] = [topup |-> t, step |-> "retrieve"]]
    /\ UNCHANGED <<topup, expired, inbox, journal, payosVars, hook, worker>>

At(run, step) == run # None /\ run.step = step

CancelGoes(c, step) == cancel' = [cancel EXCEPT ![c].step = step]

CancelEnds(c) == cancel' = [cancel EXCEPT ![c] = None]

\* Mutant: the facts of the first query are taken for those of the cancellation.
RequireUnpaidBefore(c) == TRUE

\* requireUnpaid on what PayOS answered.
RequireUnpaid(c) == Received(cancel[c].topup) = {}

CancelRetrieve(c) ==
    /\ At(cancel[c], "retrieve")
    /\ IF Received(cancel[c].topup) # {} THEN CancelEnds(c)
       ELSE CancelGoes(c, IF cancel[c].topup \in closed THEN "write" ELSE "remote")
    /\ UNCHANGED <<topup, expired, inbox, journal, payosVars, hook, worker>>

\* cancelPaymentRequest: PayOS refuses a paid link, but not one paid in part.
CancelRemote(c) ==
    LET t == cancel[c].topup IN
    /\ At(cancel[c], "remote")
    /\ ~\E x \in Received(t) : transfer[x].exact
    /\ closed' = closed \cup {t}
    /\ IF RequireUnpaid(c) THEN CancelGoes(c, "write") ELSE CancelEnds(c)
    /\ UNCHANGED <<topup, expired, inbox, journal, transfer, accepted, hook, worker>>

\* The condition of the update.
Writable(t) == topup[t] = "PENDING_PAYOS" /\ NoEvidence(t)

CancelWrite(c) ==
    LET t == cancel[c].topup IN
    /\ At(cancel[c], "write")
    /\ topup' = IF Writable(t) THEN [topup EXCEPT ![t] = "CANCELLED"] ELSE topup
    /\ CancelEnds(c)
    /\ UNCHANGED <<expired, inbox, journal, payosVars, hook, worker>>

\* An error, a refusal of PayOS, a lost answer or the end of the process.
CancelStops(c) ==
    /\ cancel[c] # None
    /\ CancelEnds(c)
    /\ UNCHANGED <<topup, expired, inbox, journal, payosVars, hook, worker>>

-----------------------------------------------------------------------------
(* Signed events                                                           *)

\* wrongIdentity, on the intent as read before the transaction.
WrongIdentity(x) ==
    LET t == transfer[x].topup
    IN transfer[x].historic \/ ~transfer[x].exact \/ transfer[x].late
       \/ topup[t] \in {"CREATED", "CANCELLED"}

HookRead(h, x) ==
    /\ hook[h] = None
    /\ transfer[x] # None
    /\ hook' = [hook EXCEPT ![h] = [event |-> x, review |-> WrongIdentity(x)]]
    /\ UNCHANGED <<topup, expired, inbox, journal, payosVars, cancel, worker>>

\* Mutant: a later delivery starts over.
StoresAgain(x) == TRUE

\* An event that is stored already is left as it is.
StoresFirst(x) == inbox[x] = None

\* The inbox row, under the unique event identity, and the answer to PayOS.
HookStore(h) ==
    LET job == hook[h] IN
    /\ job # None
    /\ inbox' = IF StoresFirst(job.event)
                THEN [inbox EXCEPT ![job.event] =
                        [status |-> IF job.review THEN "REVIEW" ELSE "RECEIVED",
                         reason |-> IF job.review THEN "identity" ELSE "none", attempts |-> 0]]
                ELSE inbox
    /\ accepted' = accepted \cup {job.event}
    /\ hook' = [hook EXCEPT ![h] = None]
    /\ UNCHANGED <<topup, expired, journal, closed, transfer, cancel, worker>>

\* The process ends before it answers; PayOS delivers the event again.
HookStops(h) ==
    /\ hook[h] # None
    /\ hook' = [hook EXCEPT ![h] = None]
    /\ UNCHANGED <<topup, expired, inbox, journal, payosVars, cancel, worker>>

-----------------------------------------------------------------------------
(* The inbox worker, and the operator's recovery of events on review       *)

\* Mutant: an event that was deferred is not taken up again.
EligibleOnce(x, recovery) == inbox[x] # None /\ inbox[x].status = "RECEIVED" /\ inbox[x].attempts = 0

Eligible(x, recovery) ==
    /\ inbox[x] # None
    /\ \/ inbox[x].status = "RECEIVED"
       \/ recovery /\ inbox[x].status = "REVIEW" /\ inbox[x].reason = "identity"

\* checkProviderStatus: the event's transfer is the one that paid an open link in full.
Reconciled(x) ==
    LET t == transfer[x].topup
    IN t \notin closed /\ transfer[x].exact /\ Received(t) = {x}

\* Mutant: recovery takes the money that came late as well.
ReconcilableLate(x) ==
    topup[transfer[x].topup] \in {"PENDING_PAYOS", "CREDITED"} /\ transfer[x].exact

\* requireEligibleGdsPayosIntent and checkVerifiedWebhook, before PayOS is asked.
Reconcilable(x) ==
    /\ topup[transfer[x].topup] \in {"PENDING_PAYOS", "CREDITED"}
    /\ transfer[x].exact /\ ~transfer[x].late

WorkRead(w, x, recovery) ==
    /\ worker[w] = None
    /\ Eligible(x, recovery)
    /\ inbox[x].status = "REVIEW" => topup[transfer[x].topup] # "CREDITED"
    /\ worker' = [worker EXCEPT ![w] =
           [event |-> x, recovery |-> recovery,
            step |-> IF Reconcilable(x) THEN "query" ELSE "reject"]]
    /\ UNCHANGED <<topup, expired, inbox, journal, payosVars, cancel, hook>>

WorkGoes(w, step) == worker' = [worker EXCEPT ![w].step = step]

WorkEnds(w) == worker' = [worker EXCEPT ![w] = None]

\* reconcilePaymentRequest; what could not be confirmed is tried again later.
WorkQuery(w, reachable) ==
    /\ At(worker[w], "query")
    /\ WorkGoes(w, IF reachable /\ Reconciled(worker[w].event) THEN "apply" ELSE "defer")
    /\ UNCHANGED <<topup, expired, inbox, journal, payosVars, cancel, hook>>

Open(x) == inbox[x].status = "RECEIVED"

Creditable(t) == topup[t] = "PENDING_PAYOS"

Acknowledged(x) ==
    IF Open(x) THEN [inbox EXCEPT ![x].status = "PROCESSED", ![x].attempts = @ + 1] ELSE inbox

\* Mutant: the acknowledgement commits on its own, the credit after it.
WorkApplyAcked(w) ==
    LET x == worker[w].event  t == transfer[x].topup IN
    /\ At(worker[w], "apply")
    /\ IF Open(x) THEN inbox' = Acknowledged(x) /\ UNCHANGED <<topup, journal, worker>>
       ELSE /\ topup' = [topup EXCEPT ![t] = "CREDITED"]
            /\ journal' = [journal EXCEPT ![t] = x]
            /\ WorkEnds(w) /\ UNCHANGED inbox
    /\ UNCHANGED <<expired, payosVars, cancel, hook>>

\* The transaction of processRecord: proof, credit and acknowledgement together.
WorkApply(w) ==
    LET x == worker[w].event  t == transfer[x].topup IN
    /\ At(worker[w], "apply")
    /\ CASE ~Eligible(x, worker[w].recovery) ->
               WorkEnds(w) /\ UNCHANGED <<topup, inbox, journal>>
         [] Eligible(x, worker[w].recovery) /\ (Creditable(t) \/ journal[t] = x) ->
               /\ topup' = [topup EXCEPT ![t] = "CREDITED"]
               /\ journal' = [journal EXCEPT ![t] = x]
               /\ inbox' = Acknowledged(x)
               /\ WorkEnds(w)
         [] OTHER -> WorkGoes(w, "reject") /\ UNCHANGED <<topup, inbox, journal>>
    /\ UNCHANGED <<expired, payosVars, cancel, hook>>

\* Mutant: the last attempt is counted once too often.
ExhaustedLate(x) == inbox[x].attempts >= MaxAttempts

Exhausted(x) == inbox[x].attempts + 1 >= MaxAttempts

\* defer: an event on review stays as it is.  Of two workers that read the same
\* count one writes nothing, as if it had stopped.
WorkDefer(w) ==
    LET x == worker[w].event IN
    /\ At(worker[w], "defer")
    /\ inbox' = IF ~Open(x) THEN inbox
                ELSE IF Exhausted(x)
                THEN [inbox EXCEPT ![x] = [status |-> "REVIEW", reason |-> "exhausted",
                                           attempts |-> MaxAttempts]]
                ELSE [inbox EXCEPT ![x].attempts = @ + 1]
    /\ WorkEnds(w)
    /\ UNCHANGED <<topup, expired, journal, payosVars, cancel, hook>>

\* The other errors, in an update of its own.
WorkReject(w) ==
    LET x == worker[w].event IN
    /\ At(worker[w], "reject")
    /\ inbox' = IF Open(x)
                THEN [inbox EXCEPT ![x] = [status |-> "REVIEW", reason |-> "conflict",
                                           attempts |-> @.attempts + 1]]
                ELSE inbox
    /\ WorkEnds(w)
    /\ UNCHANGED <<topup, expired, journal, payosVars, cancel, hook>>

WorkStops(w) ==
    /\ worker[w] # None
    /\ WorkEnds(w)
    /\ UNCHANGED <<topup, expired, inbox, journal, payosVars, cancel, hook>>

-----------------------------------------------------------------------------
IntentNext == \E t \in Topups :
    \/ Prepare(t) \/ AttachCreatedLink(t) \/ ExpiryPasses(t)
    \/ \E x \in Transfers, exact, historic \in BOOLEAN : TransferArrives(x, t, exact, historic)

CancelNext == \E c \in Cancels :
    \/ \E t \in Topups : CancelRead(c, t)
    \/ CancelRetrieve(c) \/ CancelRemote(c) \/ CancelWrite(c) \/ CancelStops(c)

HookNext == \E h \in Hooks :
    \/ \E x \in Transfers : HookRead(h, x)
    \/ HookStore(h) \/ HookStops(h)

WorkNext == \E w \in Workers :
    \/ \E x \in Transfers, recovery \in BOOLEAN : WorkRead(w, x, recovery)
    \/ \E reachable \in BOOLEAN : WorkQuery(w, reachable)
    \/ WorkApply(w) \/ WorkDefer(w) \/ WorkReject(w) \/ WorkStops(w)

Next == IntentNext \/ CancelNext \/ HookNext \/ WorkNext

Spec == Init /\ [][Next]_vars

\* PayOS delivers an event until it is answered, and the worker polls every
\* three seconds.  Neither fails at the same step for ever.
Serves(run, x) == run # None /\ run.event = x

Deliveries == \A x \in Transfers :
    /\ SF_vars(x \notin accepted /\ \E h \in Hooks : HookRead(h, x))
    /\ SF_vars(\E h \in Hooks : Serves(hook[h], x) /\ HookStore(h))

Polling == \A x \in Transfers :
    /\ SF_vars(\E w \in Workers : WorkRead(w, x, FALSE))
    /\ SF_vars(\E w \in Workers, reachable \in BOOLEAN :
                    Serves(worker[w], x) /\ WorkQuery(w, reachable))
    /\ SF_vars(\E w \in Workers :
                    Serves(worker[w], x) /\ (WorkApply(w) \/ WorkDefer(w) \/ WorkReject(w)))

FairSpec == Spec /\ Deliveries /\ Polling

-----------------------------------------------------------------------------
\* The values of the variables.
TypeOK ==
    /\ topup \in [Topups -> {"none", "CREATED", "PENDING_PAYOS", "CREDITED", "CANCELLED"}]
    /\ expired \subseteq Topups
    /\ inbox \in [Transfers -> {None} \cup InboxRows]
    /\ journal \in [Topups -> Transfers \cup {None}]
    /\ closed \subseteq Topups
    /\ transfer \in [Transfers -> {None} \cup
           [topup : Topups, exact : BOOLEAN, historic : BOOLEAN, late : BOOLEAN, afterClose : BOOLEAN]]
    /\ accepted \subseteq Transfers
    /\ cancel \in [Cancels -> {None} \cup
           [topup : Topups, step : {"retrieve", "remote", "write"}]]
    /\ hook \in [Hooks -> {None} \cup [event : Transfers, review : BOOLEAN]]
    /\ worker \in [Workers -> {None} \cup
           [event : Transfers, recovery : BOOLEAN,
            step : {"query", "apply", "defer", "reject"}]]

\* A credit stands for a transfer of the full amount, made in time to a link that
\* was never cancelled, and for a signed event of it.
CreditSound == \A t \in Topups :
    /\ topup[t] = "CREDITED" <=> journal[t] # None
    /\ journal[t] # None =>
          LET x == journal[t]
          IN /\ x \in Stored(t)
             /\ transfer[x].exact /\ ~transfer[x].late /\ ~transfer[x].afterClose
             /\ t \notin closed

\* A cancelled intent has no credit, and no money came before its link was
\* closed: the cancellation gives way to a payment at each of its steps.
CancelledUnpaid == \A t \in Topups : topup[t] = "CANCELLED" =>
    /\ t \in closed
    /\ \A x \in Received(t) : transfer[x].afterClose

\* An event counts as processed only for the credit it made.
ProcessedIsCredited == \A x \in Transfers :
    inbox[x] # None /\ inbox[x].status = "PROCESSED" => journal[transfer[x].topup] = x

\* All money that reaches PayOS is credited or put before an administrator.
TransfersAnswered == \A x \in Transfers :
    transfer[x] # None ~> inbox[x] # None /\ inbox[x].status \in {"PROCESSED", "REVIEW"}

\* Credits and cancellations of top-ups exclude each other, and each has its evidence.
TopupsSound == TypeOK /\ CreditSound /\ CancelledUnpaid
=============================================================================
