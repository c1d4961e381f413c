------------------------------- MODULE MCGds --------------------------------
(* What sellers earn and what memberships sell: the wallet, a learner's     *)
(* memberships, and the plan with its revenue policies.  They share nothing *)
(* here; focus says which takes the steps of a behaviour.                   *)
EXTENDS GdsWallet, Memberships, MembershipCatalog, TLC

CONSTANTS Foci, u, a, t1, o1, w1, w2, p1, p2, s1, s2

VARIABLE focus

gdsVars == <<focus, vars, memberVars, catalogVars>>

MCTopupAmount == [t \in Topups |-> 2]
MCPayable == [o \in Orders |-> 1]
MCPeriods == <<p1, p2>>
MCShare == [p \in PeriodSet |-> IF p = p1 THEN 2 ELSE 1]
MCOffers == {<<p1, 1>>, <<p1, 2>>, <<p2, 1>>}
Alike == Permutations({s1, s2})
MCIncludes == {<<p1, 1>>}

\* Beside the first earning either a second one, of which a refund leaves a debt, or an
\* order with a top-up or a second request.
OneEarning ==
    /\ p2 \notin due' /\ refunded'[p2] = 0
    /\ credited' = {} \/ withdrawal'[w2] = None

TwoEarnings ==
    /\ credited' = {} /\ attempted' = {} /\ withdrawal'[w2] = None
    /\ \A o \in Orders : orderStatus'[o] = "pending_payment"

\* At most one course is not for sale.
OneMissing == Cardinality(Courses \ (joined \cap listed)) <= 1

GdsInit ==
    /\ focus \in Foci
    /\ Init /\ MemberInit /\ CatalogInit
    /\ focus # "members" => reset = "membership_term"
    /\ IF focus = "catalog" THEN OneMissing ELSE joined = {}

GdsNext ==
    /\ UNCHANGED focus
    /\ \/ /\ focus = "wallet" /\ Next /\ (OneEarning \/ TwoEarnings)
          /\ UNCHANGED <<memberVars, catalogVars>>
       \/ focus = "members" /\ MemberNext /\ UNCHANGED <<vars, catalogVars>>
       \/ /\ focus = "catalog" /\ CatalogNext /\ OneMissing'
          /\ UNCHANGED <<vars, memberVars>>

GdsSpec == GdsInit /\ [][GdsNext]_gdsVars
=============================================================================
