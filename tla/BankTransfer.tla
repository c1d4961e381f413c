---------------------------- MODULE BankTransfer ----------------------------
(***************************************************************************)
(* Orders paid by a bank transfer that operators confirm by hand: the      *)
(* request and its window, the statements operators record, the approval   *)
(* by two of them, the closing of requests, and the fulfillment that       *)
(* follows in a transaction of its own.  Every operation is one            *)
(* SERIALIZABLE transaction that locks the order, hence one action; what   *)
(* the customer's idempotency keys refuse is left out.                     *)
(***************************************************************************)
EXTENDS Naturals, FiniteSets

CONSTANTS
    BankOrders,    \* orders with something to pay
    Transactions,  \* incoming transfers, by the bank's transaction identity
    Operators      \* BANK_TRANSFER_SANDBOX_OPERATOR_IDS

VARIABLES
    bankOrder,       \* commerce_orders.status
    bankFulfillment, \* commerce_orders.fulfillment_status
    bankBenefit,     \* the order's promotion reservations
    bankAttempt,     \* its payment attempt; "gateway" is an open one of PayOS or VNPay
    bankRequest,     \* commerce_bank_transfer_requests.status, "none" before it is created
    windowOver,      \* orders whose request has expires_at in the past
    statement,       \* commerce_bank_statement_evidence by transaction
    approvals,       \* commerce_bank_approvals: the operators, by transaction
    bankSettlement,  \* the transactions settled, by order
    activeOperators  \* operators that are active platform administrators

bankOrderVars == <<bankOrder, bankFulfillment, bankBenefit, bankAttempt>>
statementVars == <<statement, approvals, bankSettlement>>
bankVars == <<bankOrderVars, bankRequest, windowOver, statementVars, activeOperators>>

OpenStatuses == {"PENDING", "UNDER_REVIEW", "NEEDS_SUPPORT"}

NoStatement == [recorded |-> FALSE]

BankInit ==
    /\ bankOrder = [o \in BankOrders |-> "pending_payment"]
    /\ bankFulfillment = [o \in BankOrders |-> "not_started"]
    /\ bankBenefit = [o \in BankOrders |-> "reserved"]
    /\ bankAttempt = [o \in BankOrders |-> "none"]
    /\ bankRequest = [o \in BankOrders |-> "none"]
    /\ windowOver = {}
    /\ statement = [x \in Transactions |-> NoStatement]
    /\ approvals = [x \in Transactions |-> {}]
    /\ bankSettlement = [o \in BankOrders |-> {}]
    /\ activeOperators = Operators

IsOpen(o) == bankRequest[o] \in OpenStatuses

-----------------------------------------------------------------------------
(* The request                                                             *)

\* The buyer opens a payment request with a gateway instead.
ChooseGateway(o) ==
    /\ bankOrder[o] = "pending_payment" /\ bankAttempt[o] = "none"
    /\ bankAttempt' = [bankAttempt EXCEPT ![o] = "gateway"]
    /\ UNCHANGED <<bankOrder, bankFulfillment, bankBenefit, bankRequest, windowOver, statementVars,
                   activeOperators>>

CreateRequest(o) ==
    /\ bankOrder[o] = "pending_payment" /\ bankAttempt[o] = "none"
    /\ bankAttempt' = [bankAttempt EXCEPT ![o] = "pending"]
    /\ bankRequest' = [bankRequest EXCEPT ![o] = "PENDING"]
    /\ UNCHANGED <<bankOrder, bankFulfillment, bankBenefit, windowOver, statementVars, activeOperators>>

\* expiresAt is the earliest of 15 minutes and the end of the reservations, so
\* a reservation is never over before the request is.
WindowPasses(o) ==
    /\ bankRequest[o] # "none" /\ o \notin windowOver
    /\ windowOver' = windowOver \cup {o}
    /\ UNCHANGED <<bankOrderVars, bankRequest, statementVars, activeOperators>>

RequestSupport(o) ==
    /\ bankRequest[o] \in {"PENDING", "UNDER_REVIEW"}
    /\ bankRequest' = [bankRequest EXCEPT ![o] = "NEEDS_SUPPORT"]
    /\ UNCHANGED <<bankOrderVars, windowOver, statementVars, activeOperators>>

ClosedRequest(o, as) ==
    LET next == IF as = "EXPIRED" THEN "expired" ELSE "cancelled"
        freed == IF as = "EXPIRED" THEN "expired" ELSE "released"
    IN /\ bankRequest' = [bankRequest EXCEPT ![o] = as]
       /\ bankAttempt' = [bankAttempt EXCEPT ![o] = next]
       /\ bankOrder' = [bankOrder EXCEPT ![o] = next]
       /\ bankBenefit' = [bankBenefit EXCEPT ![o] = freed]
       /\ UNCHANGED bankFulfillment

\* close.
CloseRequest(o, as) ==
    /\ IsOpen(o)
    /\ bankOrder[o] = "pending_payment"
    /\ ClosedRequest(o, as)
    /\ UNCHANGED <<windowOver, statementVars, activeOperators>>

CancelRequest(o) == CloseRequest(o, "CANCELLED")

\* A request found due, by the scheduler's run over the due ones.
ExpireDue(o) == o \in windowOver /\ CloseRequest(o, "EXPIRED")

\* The same, when the buyer looks: the answer is never an open request that is over.
QueryRequest(o) == o \in windowOver /\ CloseRequest(o, "EXPIRED")

-----------------------------------------------------------------------------
(* Statements and approvals                                                *)

\* Mutant: every statement moves its request.
RequestAfterAny(o, exception) == IF exception = "none" THEN "UNDER_REVIEW" ELSE "NEEDS_SUPPORT"

\* Mutant: the reason is written where the status belongs.
RequestAfterReason(o, exception) ==
    IF ~IsOpen(o) THEN bankRequest[o] ELSE IF exception = "none" THEN "UNDER_REVIEW" ELSE exception

RequestAfter(o, exception) ==
    IF ~IsOpen(o) THEN bankRequest[o]
    ELSE IF exception = "none" THEN "UNDER_REVIEW" ELSE "NEEDS_SUPPORT"

\* classifyBankEvidence and the operator's suspicion; `flaw` is what they find in
\* the facts of the transfer.  A transaction recorded before is answered as it is.
RecordStatement(p, x, o, flaw) ==
    LET exception == IF flaw # "none" THEN flaw
                     ELSE IF IsOpen(o) THEN "none" ELSE "CLOSED_REQUEST"
    IN /\ p \in activeOperators
       /\ bankRequest[o] # "none"
       /\ statement[x] = NoStatement
       /\ statement' = [statement EXCEPT ![x] =
              [recorded |-> TRUE, order |-> o, exception |-> exception]]
       /\ bankRequest' = [bankRequest EXCEPT ![o] = RequestAfter(o, exception)]
       /\ UNCHANGED <<bankOrderVars, windowOver, approvals, bankSettlement, activeOperators>>

\* Mutant: the authority of the one who approves now is enough.
AuthorisedCaller(p, x) == p \in activeOperators

\* Both approvers are checked again before money is committed.
Authorised(p, x) == approvals[x] \cup {p} \subseteq activeOperators

Approvable(x, o) ==
    /\ statement[x].exception = "none"
    /\ o \notin windowOver
    /\ bankRequest[o] = "UNDER_REVIEW"

\* Mutant: one operator may confirm alone.
EnoughOne(ps) == ps # {}

Enough(ps) == Cardinality(ps) >= 2

Confirm(o, x) ==
    /\ bankOrder[o] = "pending_payment" /\ bankSettlement[o] = {}
    /\ bankSettlement' = [bankSettlement EXCEPT ![o] = {x}]
    /\ bankAttempt' = [bankAttempt EXCEPT ![o] = "paid"]
    /\ bankRequest' = [bankRequest EXCEPT ![o] = "PAID"]
    /\ bankOrder' = [bankOrder EXCEPT ![o] = "confirmed"]
    /\ bankBenefit' = [bankBenefit EXCEPT ![o] = "consumed"]
    /\ UNCHANGED bankFulfillment

\* For a paid request, approve only starts the fulfillment again (BankFulfill).
Approve(p, x) ==
    /\ p \in activeOperators
    /\ statement[x].recorded
    /\ LET o == statement[x].order IN
       /\ Approvable(x, o)
       /\ Authorised(p, x)
       /\ approvals' = [approvals EXCEPT ![x] = @ \cup {p}]
       /\ IF Enough(approvals'[x]) THEN Confirm(o, x)
          ELSE UNCHANGED <<bankOrderVars, bankRequest, bankSettlement>>
    /\ UNCHANGED <<windowOver, statement, activeOperators>>

\* An operator loses or regains the role, or the account is locked.
OperatorChanges(p) ==
    /\ activeOperators' = IF p \in activeOperators THEN activeOperators \ {p} ELSE activeOperators \cup {p}
    /\ UNCHANGED <<bankOrderVars, bankRequest, windowOver, statementVars>>

-----------------------------------------------------------------------------
(* Fulfillment, after the confirmation, on a repeated approval and by the  *)
(* scheduler                                                               *)

\* Mutant: the approvals count only while their operators are active.
BankProofToday(o) ==
    \E x \in bankSettlement[o] : Cardinality(approvals[x] \cap activeOperators) >= 2

\* requireBankTransferProof.
BankProof(o) ==
    /\ bankOrder[o] = "confirmed" /\ bankRequest[o] = "PAID" /\ bankAttempt[o] = "paid"
    /\ \E x \in bankSettlement[o] :
           /\ statement[x].recorded /\ statement[x].order = o
           /\ statement[x].exception = "none"
           /\ Cardinality(approvals[x]) >= 2

BankFulfill(o) ==
    /\ bankOrder[o] = "confirmed"
    /\ bankFulfillment[o] \in {"not_started", "failed"}
    /\ BankProof(o)
    /\ bankFulfillment' = [bankFulfillment EXCEPT ![o] = "fulfilled"]
    /\ UNCHANGED <<bankOrder, bankBenefit, bankAttempt, bankRequest, windowOver, statementVars,
                   activeOperators>>

\* Delivery fails and the failure is recorded in a second transaction.
BankFulfillFails(o) ==
    /\ bankOrder[o] = "confirmed"
    /\ bankFulfillment[o] = "not_started"
    /\ bankFulfillment' = [bankFulfillment EXCEPT ![o] = "failed"]
    /\ UNCHANGED <<bankOrder, bankBenefit, bankAttempt, bankRequest, windowOver, statementVars,
                   activeOperators>>

-----------------------------------------------------------------------------
(* Properties                                                              *)

BankTypeOK ==
    /\ bankOrder \in [BankOrders -> {"pending_payment", "confirmed", "cancelled", "expired"}]
    /\ bankFulfillment \in [BankOrders -> {"not_started", "failed", "fulfilled"}]
    /\ bankBenefit \in [BankOrders -> {"reserved", "consumed", "released", "expired"}]
    /\ bankAttempt \in [BankOrders -> {"none", "gateway", "pending", "paid", "cancelled", "expired"}]
    /\ bankRequest \in [BankOrders -> {"none", "PAID", "CANCELLED", "EXPIRED"} \cup OpenStatuses]
    /\ windowOver \subseteq BankOrders
    /\ approvals \in [Transactions -> SUBSET Operators]
    /\ bankSettlement \in [BankOrders -> SUBSET Transactions]

\* An open request belongs to an order that can still be closed or confirmed, with
\* its attempt and its reservations; a decided one leaves none of them behind.
\* Otherwise expireDue fails on it for ever (bank-transfer.service.ts:136, 265).
RequestFollowsOrder ==
    \A o \in BankOrders :
        /\ IsOpen(o) => /\ bankOrder[o] = "pending_payment" /\ bankAttempt[o] = "pending"
                        /\ bankBenefit[o] = "reserved"
        /\ bankRequest[o] = "PAID" <=> bankSettlement[o] # {}
        /\ bankOrder[o] = "confirmed" => bankRequest[o] = "PAID" /\ bankBenefit[o] = "consumed"
        /\ bankRequest[o] \in {"CANCELLED", "EXPIRED"} =>
               /\ bankOrder[o] \notin {"pending_payment", "confirmed"}
               /\ bankBenefit[o] \in {"released", "expired"}

\* A confirmed order always has the proof that its fulfillment asks for, however
\* many statements and approvals came and went (bank-transfer-proof.ts:22).
ConfirmedHasProof == \A o \in BankOrders : bankOrder[o] = "confirmed" => BankProof(o)

\* Money is committed only while both who vouch for it are active administrators
\* and no statement has raised a doubt since (bank-transfer.service.ts:206, 211).
ConfirmedByActiveOperators ==
    [][\A o \in BankOrders : \A x \in bankSettlement'[o] \ bankSettlement[o] :
           approvals'[x] \subseteq activeOperators /\ bankRequest[o] = "UNDER_REVIEW"]_bankVars

\* The request, the attempt, the reservation, the settlement and the proof of an
\* order always tell one story.
OrdersSettled == BankTypeOK /\ RequestFollowsOrder /\ ConfirmedHasProof
=============================================================================
