----------------------------- MODULE MCCommerce -----------------------------
(* What is sold, given and paid back: the catalogue with its carts, the     *)
(* rewards and scholarships, the voucher that orders share, and the refunds *)
(* of one order.  focus says which takes the steps of a behaviour.          *)
EXTENDS CourseSales, Benefits, VoucherQuota, PaymentRefunds, TLC

CONSTANTS Foci, a1, a2, k1, k2, r3, o3, v1, course, plan

VARIABLE focus

commerceVars == <<focus, salesVars, benefitVars, vars, refundVars>>

MCPolicies == {[kind |-> "course_access", cost |-> 2, quota |-> 1],
               [kind |-> "gift", cost |-> 1, quota |-> 0]}
MCBuyerOf == (a1 :> "b1") @@ (a2 :> "b1") @@ (o3 :> "b2") @@ (v1 :> "b2")
MCPrice == (course :> 2) @@ (plan :> 1)

\* The components that rest do so in one state.
CommerceInit ==
    /\ focus \in Foci
    /\ SalesInit /\ BenefitInit /\ Init /\ RefundInit
    /\ focus # "benefits" => \A f \in Offers : offer[f].policy.kind = "gift"
    /\ focus # "vouchers" => voucher.limit = None /\ voucher.perUser = None
    /\ focus # "refunds" => confirming = Missing

\* Requests are alike, so r3 is the last one made; it closes no case.
ThirdRefundLast ==
    refund'[r3] # NoRefund => ~refund'[r3].closes /\ \A r \in Refunds : refund'[r] # NoRefund

\* What is not active is all alike to Redeemable and Eligible.
DraftOrActive == pendingEdit'.status \in {"none", "draft", "active", "as read"}

CommerceNext ==
    /\ UNCHANGED focus
    /\ \/ focus = "sales" /\ SalesNext /\ UNCHANGED <<benefitVars, vars, refundVars>>
       \/ focus = "benefits" /\ BenefitNext /\ DraftOrActive
          /\ UNCHANGED <<salesVars, vars, refundVars>>
       \/ focus = "vouchers" /\ Next /\ UNCHANGED <<salesVars, benefitVars, refundVars>>
       \/ focus = "refunds" /\ RefundNext /\ ThirdRefundLast
          /\ UNCHANGED <<salesVars, benefitVars, vars>>

CommerceSpec == CommerceInit /\ [][CommerceNext]_commerceVars

\* a1 and a2 stand for two courses, learners, orders or settlements, k1 and k2 for two
\* keys or refunds, as the focus is.
Alike == Permutations({a1, a2}) \cup Permutations({k1, k2})
=============================================================================
