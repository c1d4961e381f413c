--------------------------- MODULE PaymentEvidence ---------------------------
(* What a payment provider says it has collected, and what is made of it    *)
(* (payment-webhook.service.ts, vnpay-ipn.service.ts, the two providers).   *)
(* A collection is told of by signed notices, sent again until they are     *)
(* acknowledged and sometimes after, and found by a query of reconciliation *)
(* at any time.  VNPay counts in hundredths and gives each observation an   *)
(* event identity of its own; PayOS has one identity for all of them.       *)
(* A notice with a bad signature, or that does not parse, changes nothing   *)
(* and is left out.                                                         *)
EXTENDS Naturals, FiniteSets

CONSTANTS
    VnPay, PayOs,   \* attempts: the order codes given to each provider
    Foreign,        \* a code of VNPay's that this shop does not know
    Collections,    \* the providers' transactions
    Handlers,       \* notices and queries being handled at the same time
    Price,          \* amount of every attempt
    Raw,            \* amounts as VNPay writes them; PayOS writes whole units
    MaxRaw,         \* VNPAY_AMOUNT_MAX
    Nothing

Known == VnPay \cup PayOs

ASSUME EvidenceAssumption ==
    /\ IsFiniteSet(Collections) /\ Price \in Nat \ {0} /\ Raw \subseteq Nat
    /\ Foreign \notin Known /\ Nothing \notin Collections \cup Known \cup {Foreign} /\ VnPay \cap PayOs = {}

VARIABLES
    money,          \* history: what each transaction really is
    attempt,        \* commerce_payment_attempts.status, and its order's
    confirmedBy,    \* commerce_orders.confirmed_settlement_id
    settlement,     \* commerce_settlements: disposition by transaction
    events,         \* commerce_payment_events
    mismatches,     \* commerce_reconciliation_cases of kind provider_fact_mismatch
    delivered,      \* attempts whose order is fulfilled
    handling,           \* handlers
    answers         \* history: the answer to each notice

evidenceVars == <<money, attempt, confirmedBy, settlement, events, mismatches, delivered,
                  handling, answers>>
records == <<attempt, confirmedBy, settlement, events, mismatches>>

NoMoney == [code |-> Nothing, raw |-> 0, good |-> FALSE]
NoWork == [step |-> "rest", via |-> "none", of |-> Nothing, result |-> "none"]

EvidenceInit ==
    /\ money = [c \in Collections |-> NoMoney]
    /\ attempt = [a \in Known |-> "pending"]
    /\ confirmedBy = [a \in Known |-> Nothing]
    /\ settlement = [c \in Collections |-> "none"]
    /\ events = {} /\ mismatches = {} /\ delivered = {} /\ answers = {}
    /\ handling = [h \in Handlers |-> NoWork]

-----------------------------------------------------------------------------
(* The outside                                                              *)

\* createPaymentRequest refuses what VNPay could not write down.
Payable == Price * 100 <= MaxRaw

\* The customer pays at the provider, or fails to.  A VNPay link has its amount
\* within it; what VNPay then writes is up to VNPay.
Collect(c, code, raw, good) ==
    /\ money[c] = NoMoney
    /\ code \in VnPay => Payable
    /\ code \in PayOs => raw % 100 = 0 /\ good
    /\ money' = [money EXCEPT ![c] = [code |-> code, raw |-> raw, good |-> good]]
    /\ UNCHANGED <<records, delivered, handling, answers>>

\* Cancellation and expiry (PaymentLifecycle) close the attempt and its order.
Close(a) ==
    /\ attempt[a] = "pending"
    /\ attempt' = [attempt EXCEPT ![a] = "closed"]
    /\ UNCHANGED <<money, confirmedBy, settlement, events, mismatches, delivered, handling,
                   answers>>

-----------------------------------------------------------------------------
(* The facts                                                                *)

\* parseAmount and parseQueryDrAmount.
Parses(raw) == raw > 0 /\ raw <= MaxRaw /\ raw % 100 = 0

AmountOf(c) == money[c].raw \div 100

paymentFactsMatch(c) == AmountOf(c) = Price

IsVnPay(c) == money[c].code \notin PayOs

\* One identity for a PayOS transaction, one for each way of observing VNPay's.
EventOf(via, c) == IF IsVnPay(c) THEN <<via, c>> ELSE <<"payos", c>>

\* A matched settlement is the one that confirmed its order.
Canonical(c) ==
    settlement[c] = "matched" =>
        attempt[money[c].code] = "paid" /\ confirmedBy[money[c].code] = c

\* A provider tells the same time and payment identity of a transaction each time, so
\* the comparison of these never fails here.
priorEventMatches(c) == settlement[c] # "none" /\ paymentFactsMatch(c) /\ Canonical(c)

\* Mutant: the event identity must be the same for VNPay too.
StrictReplay(via, c) == Canonical(c) /\ EventOf(via, c) \in events

existingSettlementMatches(via, c) ==
    Canonical(c) /\ (IsVnPay(c) \/ EventOf(via, c) \in events)

Confirmable(a) == attempt[a] = "pending"

-----------------------------------------------------------------------------
(* applyVerified, one serializable transaction                              *)

Book(via, c, disposition, status) ==
    LET a == money[c].code
    IN  /\ settlement' = [settlement EXCEPT ![c] = disposition]
        /\ events' = events \cup {EventOf(via, c)}
        /\ attempt' = [attempt EXCEPT ![a] = status]
        /\ confirmedBy' = IF disposition = "matched" THEN [confirmedBy EXCEPT ![a] = c]
                          ELSE confirmedBy
        /\ UNCHANGED mismatches

Reject(c, reason) ==
    /\ mismatches' = mismatches \cup {<<money[c].code, reason>>}
    /\ UNCHANGED <<attempt, confirmedBy, settlement, events>>

\* resultFor: a late collection is not said to be replayed.
ReplayOf(c) == IF settlement[c] = "late" THEN "late"
               ELSE IF settlement[c] = "matched" THEN "confirmed again" ELSE "duplicate again"

\* What becomes of an observation, and what the handler is told.  An unknown payment and
\* another receiving account leave audits only.
Outcome(via, c) ==
    LET a == money[c].code
    IN  IF EventOf(via, c) \in events
        THEN IF priorEventMatches(c) THEN ReplayOf(c) ELSE "event"
        ELSE IF a \notin Known THEN "unknown"
        ELSE IF ~paymentFactsMatch(c) THEN "fact"
        ELSE IF settlement[c] # "none"
        THEN IF existingSettlementMatches(via, c) THEN ReplayOf(c) ELSE "reference"
        ELSE IF Confirmable(a) THEN "confirmed"
        ELSE IF attempt[a] = "paid" THEN "duplicate"
        ELSE IF attempt[a] = "closed" THEN "late"
        ELSE "state"

Rejections == {"event", "reference", "fact", "state"}

ApplyVerified(h) ==
    LET c == handling[h].of
        via == handling[h].via
        result == Outcome(via, c)
    IN  /\ handling[h].step = "verified"
        /\ CASE result = "confirmed" -> Book(via, c, "matched", "paid")
             [] result = "duplicate" -> Book(via, c, "duplicate", "paid")
             [] result = "late" /\ settlement[c] = "none" -> Book(via, c, "late", "late")
             [] result \in Rejections -> Reject(c, result)
             [] OTHER -> UNCHANGED records
        /\ handling' = [handling EXCEPT ![h].result = result,
                        ![h].step = IF result \in {"confirmed", "confirmed again"}
                                    THEN "fulfil" ELSE "answer"]
        /\ UNCHANGED <<money, delivered, answers>>

\* The third conflict with another transaction, or a lost database, is an error.
TransactionFails(h) ==
    /\ handling[h].step = "verified"
    /\ handling' = [handling EXCEPT ![h].result = "error", ![h].step = "answer"]
    /\ UNCHANGED <<money, records, delivered, answers>>

\* fulfillConfirmedPayment delivers once; a failure is an error to the caller.
Fulfil(h) ==
    /\ handling[h].step = "fulfil"
    /\ \/ /\ delivered' = delivered \cup {money[handling[h].of].code}
          /\ handling' = [handling EXCEPT ![h].step = "answer"]
       \/ /\ handling' = [handling EXCEPT ![h].step = "answer", ![h].result = "error"]
          /\ UNCHANGED delivered
    /\ UNCHANGED <<money, records, answers>>

-----------------------------------------------------------------------------
(* Notices                                                                  *)

\* VNPay reads the amount before all else; a failed payment is only classified.
Notice(h, c) ==
    /\ handling[h] = NoWork /\ money[c] # NoMoney
    /\ LET unread == IsVnPay(c) /\ ~Parses(money[c].raw)
       IN  handling' = [handling EXCEPT ![h] =
               [via |-> "notice", of |-> c, result |-> IF unread THEN "fact" ELSE "none",
                step |-> IF unread THEN "answer" ELSE IF money[c].good THEN "verified"
                         ELSE "classify"]]
    /\ UNCHANGED <<money, records, delivered, answers>>

classifyVerified(h) ==
    LET c == handling[h].of
    IN  /\ handling[h].step = "classify"
        /\ handling' = [handling EXCEPT ![h].step = "answer",
               ![h].result = IF money[c].code \notin Known THEN "unknown"
                             ELSE IF ~paymentFactsMatch(c) THEN "fact"
                             ELSE IF attempt[money[c].code] = "paid" THEN "confirmed again"
                             ELSE "noted"]
        /\ UNCHANGED <<money, records, delivered, answers>>

\* VNPay ends its retries at 00, 01, 02; PayOS at any 2xx, written the same here.
mapProcessingResult(result) ==
    CASE result = "fact" -> "04"
      [] result \in (Rejections \ {"fact"}) \cup {"error"} -> "99"
      [] result = "unknown" -> "01"
      [] result \in {"confirmed again", "duplicate again"} -> "02"
      [] OTHER -> "00"

Respond(h) ==
    /\ handling[h].step = "answer"
    /\ answers' = IF handling[h].via = "notice"
                  THEN answers \cup {<<handling[h].of, mapProcessingResult(handling[h].result)>>}
                  ELSE answers
    /\ handling' = [handling EXCEPT ![h] = NoWork]
    /\ UNCHANGED <<money, records, delivered>>

HandlerCrash(h) ==
    /\ handling[h] # NoWork
    /\ handling' = [handling EXCEPT ![h] = NoWork]
    /\ UNCHANGED <<money, records, delivered, answers>>

-----------------------------------------------------------------------------
(* Queries                                                                  *)

PaidInto(a) == {c \in Collections : money[c].code = a /\ money[c].good}

BookedFor(a) == {c \in Collections : money[c].code = a /\ settlement[c] # "none"}

Found(c) == [NoWork EXCEPT !.step = "verified", !.via = "query", !.of = c]

\* VNPay answers with one transaction.  With two on the books, one other than the
\* one on the books, or the wrong amount, the attempt is flagged.
QueryVnPay(h, a, c) ==
    /\ handling[h] = NoWork /\ c \in PaidInto(a)
    /\ IF BookedFor(a) \subseteq {c} /\ Parses(money[c].raw) /\ paymentFactsMatch(c)
       THEN /\ handling' = [handling EXCEPT ![h] = Found(c)]
            /\ UNCHANGED mismatches
       ELSE mismatches' = mismatches \cup {<<a, "query">>} /\ UNCHANGED handling
    /\ UNCHANGED <<money, attempt, confirmedBy, settlement, events, delivered, answers>>

\* PayOS answers with all of them, which must be one of the amount asked for.
QueryPayOs(h, a) ==
    /\ handling[h] = NoWork /\ PaidInto(a) # {}
    /\ IF \E c \in PaidInto(a) : PaidInto(a) = {c} /\ paymentFactsMatch(c)
       THEN /\ handling' = [handling EXCEPT ![h] = Found(CHOOSE c \in PaidInto(a) : TRUE)]
            /\ UNCHANGED mismatches
       ELSE mismatches' = mismatches \cup {<<a, "query">>} /\ UNCHANGED handling
    /\ UNCHANGED <<money, attempt, confirmedBy, settlement, events, delivered, answers>>

EvidenceNext ==
    \/ \E c \in Collections, code \in Known \cup {Foreign}, raw \in Raw, good \in BOOLEAN :
           Collect(c, code, raw, good)
    \/ \E a \in Known : Close(a)
    \/ \E h \in Handlers :
        \/ ApplyVerified(h) \/ TransactionFails(h) \/ Fulfil(h) \/ classifyVerified(h)
        \/ Respond(h) \/ HandlerCrash(h)
        \/ \E c \in Collections : Notice(h, c) \/ \E a \in VnPay : QueryVnPay(h, a, c)
        \/ \E a \in PayOs : QueryPayOs(h, a)

EvidenceSpec == EvidenceInit /\ [][EvidenceNext]_evidenceVars

-----------------------------------------------------------------------------
(* Properties                                                               *)

EvidenceTypeOK ==
    /\ attempt \in [Known -> {"pending", "paid", "closed", "late"}]
    /\ confirmedBy \in [Known -> Collections \cup {Nothing}]
    /\ settlement \in [Collections -> {"none", "matched", "duplicate", "late"}]
    /\ delivered \subseteq Known

Final == {"00", "02"}

\* A successful collection of a known order that the provider will tell of no more
\* is on the books, with the amount that was really collected, and one that came
\* first is delivered (mapProcessingResult, processVerified).
AcknowledgedIsBooked ==
    \A c \in Collections :
        (money[c].good /\ \E code \in Final : <<c, code>> \in answers)
            => /\ settlement[c] # "none"
               /\ money[c].raw = Price * 100
               /\ settlement[c] = "matched" => money[c].code \in delivered

\* The books disagree with the provider only where the provider really collected
\* another amount, or more than once; seeing one collection twice, by notice and by
\* query, in any order, is no conflict (existingSettlementMatches).
ConflictsAreReal ==
    \A m \in mismatches :
        \/ \E c \in PaidInto(m[1]) : money[c].raw # Price * 100
        \/ Cardinality(PaidInto(m[1])) > 1

\* One collection confirms an order, none confirms one that was closed.
OneConfirms ==
    \A a \in Known : LET confirming == {c \in BookedFor(a) : settlement[c] = "matched"}
                     IN  /\ Cardinality(confirming) <= 1
                         /\ confirming # {} <=> attempt[a] = "paid"

\* What providers tell is booked once, as it is, and answered by what was booked.
EvidenceSound == EvidenceTypeOK /\ AcknowledgedIsBooked /\ ConflictsAreReal /\ OneConfirms
=============================================================================
