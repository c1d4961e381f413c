--------------------------- MODULE PaymentRefunds ---------------------------
(* Refunds of one order (payment-refund.service.ts).  The order was paid    *)
(* once or more: one settlement confirmed it, or it came late and none did. *)
(* An administrator asks for a refund of parts of its lines out of one      *)
(* settlement, pays it outside the program and records it; the database     *)
(* bounds what is recorded.  Every transaction is SERIALIZABLE, and a       *)
(* request changes only when it is decided: each is one action.             *)
EXTENDS Naturals, FiniteSets, FiniteSetsExt

CONSTANTS
    Lines, Price,   \* the order's lines and their final amounts
    Settlements,    \* collections of the full amount
    Refunds,        \* refund requests
    Missing

ASSUME LinesAssumption ==
    /\ IsFiniteSet(Lines) /\ IsFiniteSet(Refunds)
    /\ Price \in [Lines -> Nat \ {0}]
    /\ Missing \notin Settlements

VARIABLES
    confirming,   \* confirmed_settlement_id
    orderState,   \* commerce_orders.status
    delivered,    \* fulfillment_status is fulfilled
    lineAccess,   \* what a line has opened: nothing yet, access, or revoked access
    caseOf,       \* the reconciliation case of a settlement
    refund,       \* commerce_refunds with their allocations
    early         \* history: lines with money back before they were delivered

refundVars == <<confirming, orderState, delivered, lineAccess, caseOf, refund, early>>

Part(l) == 0 .. Price[l]
Parts == {p \in [Lines -> UNION {Part(l) : l \in Lines}] :
             (\A l \in Lines : p[l] \in Part(l)) /\ (\E l \in Lines : p[l] > 0)}

NoRefund == [status |-> "none", from |-> Missing, closes |-> FALSE, parts |-> [l \in Lines |-> 0]]

\* Paid in time by one of the settlements, delivered later, or late and under review.
\* Every other collection has an open case; the confirming one may have failed delivery.
RefundInit ==
    /\ confirming \in Settlements \cup {Missing}
    /\ orderState = IF confirming = Missing THEN "late_payment_review" ELSE "confirmed"
    /\ delivered = FALSE
    /\ lineAccess = [l \in Lines |-> "none"]
    /\ caseOf \in [Settlements -> {"none", "open"}]
    /\ \A s \in Settlements \ {confirming} : caseOf[s] = "open"
    /\ refund = [r \in Refunds |-> NoRefund]
    /\ early = {}

-----------------------------------------------------------------------------
Amount(p) == SumFunction(p)
Total == Amount(Price)

\* What a refund gives back of each line.
Back(r) == IF refund[r].status = "recorded" THEN refund[r].parts ELSE NoRefund.parts

\* The aggregate that record and the database read: of all settlements.
RecordedOf(l) == SumFunction([r \in Refunds |-> Back(r)[l]])

RecordedFrom(s) ==
    SumFunction([r \in Refunds |-> IF refund[r].from = s THEN Amount(Back(r)) ELSE 0])

Create(r, s, p, closes) ==
    /\ refund[r].status = "none"
    /\ closes => caseOf[s] = "open"
    /\ Amount(p) <= Total
    /\ refund' = [refund EXCEPT ![r] = [status |-> "requested", from |-> s, closes |-> closes,
                                        parts |-> p]]
    /\ UNCHANGED <<confirming, orderState, delivered, lineAccess, caseOf, early>>

\* Mutant: the settlement bounds its refunds, the lines do not.
BoundedBySettlement(r) == RecordedFrom(refund[r].from) + Amount(refund[r].parts) <= Total

\* commerce_validate_recorded_refund_bounds
Bounded(r) ==
    /\ RecordedFrom(refund[r].from) + Amount(refund[r].parts) <= Total
    /\ \A l \in Lines : refund[r].parts[l] > 0 =>
           RecordedOf(l) + refund[r].parts[l] <= Price[l]

\* Mutant: a line ends when more than its price is back.
ExhaustsMore(r, l) == RecordedOf(l) + refund[r].parts[l] > Price[l]

Exhausts(r, l) == RecordedOf(l) + refund[r].parts[l] >= Price[l]

\* Access ends with the part that exhausts the line, if it is of the confirming
\* settlement and the order was delivered.
Ends(r, l) ==
    /\ refund[r].parts[l] > 0
    /\ refund[r].from = confirming /\ delivered
    /\ Exhausts(r, l)

\* The case a request names is resolved with it; the database refuses a second time.
CloseCase(r) ==
    IF refund[r].closes
    THEN /\ caseOf[refund[r].from] = "open"
         /\ caseOf' = [caseOf EXCEPT ![refund[r].from] = "resolved"]
         /\ orderState' = IF orderState = "late_payment_review" THEN "late_payment_refunded"
                          ELSE orderState
    ELSE UNCHANGED <<caseOf, orderState>>

Record(r) ==
    /\ refund[r].status = "requested" /\ Bounded(r)
    /\ refund' = [refund EXCEPT ![r].status = "recorded"]
    /\ lineAccess' = [l \in Lines |-> IF Ends(r, l) THEN "revoked" ELSE lineAccess[l]]
    /\ CloseCase(r)
    /\ UNCHANGED <<confirming, delivered, early>>

Reject(r) ==
    /\ refund[r].status = "requested"
    /\ refund' = [refund EXCEPT ![r].status = "rejected"]
    /\ UNCHANGED <<confirming, orderState, delivered, lineAccess, caseOf, early>>

\* requireCanonicalPayment looks at the settlement and never at its refunds.
Deliver ==
    /\ orderState = "confirmed" /\ ~delivered
    /\ delivered' = TRUE
    /\ lineAccess' = [l \in Lines |-> "active"]
    /\ early' = {l \in Lines : RecordedOf(l) > 0}
    /\ UNCHANGED <<confirming, orderState, caseOf, refund>>

RefundNext ==
    \/ Deliver
    \/ \E r \in Refunds :
        \/ \E s \in Settlements, p \in Parts, closes \in BOOLEAN : Create(r, s, p, closes)
        \/ Record(r) \/ Reject(r)

RefundSpec == RefundInit /\ [][RefundNext]_refundVars

-----------------------------------------------------------------------------
(* Properties                                                              *)

RefundTypeOK ==
    /\ orderState \in {"confirmed", "late_payment_review", "late_payment_refunded"}
    /\ lineAccess \in [Lines -> {"none", "active", "revoked"}]
    /\ caseOf \in [Settlements -> {"none", "open", "resolved"}]
    /\ \A r \in Refunds : refund[r].status \in {"none", "requested", "recorded", "rejected"}

\* What is back of a line out of one settlement.
Recorded(s, l) == SumFunction([r \in Refunds |-> IF refund[r].from = s THEN Back(r)[l] ELSE 0])

\* Who got the whole price of a line back out of the payment that confirmed the order
\* has no access by it, in however many parts it came, unless some of it was paid
\* back before the line was delivered.
FullRefundEndsAccess == \A l \in Lines :
    delivered /\ Recorded(confirming, l) = Price[l] => lineAccess[l] = "revoked" \/ l \in early

\* Requests that were each fine when they were made never give back more than came
\* in, nor more than a line cost, together; access is revoked only from a line whose
\* whole price is back, and is when it came out of the confirming payment; a late
\* order or a case is settled exactly by a refund that names it (record,
\* commerce_validate_recorded_refund_bounds).
RefundsConsistent ==
    /\ RefundTypeOK
    /\ \A s \in Settlements : RecordedFrom(s) <= Total
    /\ \A l \in Lines : /\ RecordedOf(l) <= Price[l]
                        /\ lineAccess[l] = "revoked" => RecordedOf(l) = Price[l]
    /\ \A s \in Settlements : caseOf[s] = "resolved" <=>
           Cardinality({r \in Refunds : refund[r].status = "recorded" /\ refund[r].closes
                                        /\ refund[r].from = s}) = 1
    /\ orderState = "late_payment_refunded" =>
           \E s \in Settlements : caseOf[s] = "resolved"
    /\ FullRefundEndsAccess
=============================================================================
