----------------------------- MODULE Memberships -----------------------------
(* One learner's memberships: checkouts, the terms and grants they open     *)
(* (paid for, or early on a receipt), and the use of a metered service.     *)
(* Every operation is one SERIALIZABLE transaction that locks the learner.  *)
(* Dates are months.  A plan's versions are sold one after the other        *)
(* (MembershipCatalog); one course may be included in them.                 *)
EXTENDS Naturals, FiniteSets, FiniteSetsExt

CONSTANTS
    Plans,
    Offers,          \* the <<plan, version number>> pairs that come to be published
    Includes,        \* those that include the course
    Durations,       \* months one may buy
    GraceMonths,     \* grace after the course is removed
    Quota,           \* units of the metered service
    MemberOrders,
    Horizon,         \* bound: the last month
    NoMonth

ASSUME MembershipAssumption ==
    /\ Offers \subseteq Plans \X Nat /\ Plans \X {1} \subseteq Offers
    /\ Includes \subseteq Offers
    /\ Durations \subseteq Nat \ {0} /\ GraceMonths \in Nat
    /\ Quota \in Nat \ {0} /\ Horizon \in Nat
    /\ NoMonth \notin Nat /\ IsFiniteSet(MemberOrders)

VARIABLES
    month,       \* the clock
    reset,       \* when the service's quota starts anew
    selling,     \* the latest published version of a plan
    intent,      \* membership_checkout_intents with the status of their orders
    term,        \* membership_subscriptions of an order, early and paid
    open,        \* active course and service grants of an order
    used         \* service_entitlement_usage by grant and window

memberVars == <<month, reset, selling, intent, term, open, used>>

Kinds == {"early", "paid"}
NoIntent == [status |-> "none", offer |-> <<>>, action |-> "none", starts |-> 0, ends |-> 0,
             grace |-> NoMonth]
Windows == 0 .. Horizon

MemberInit ==
    /\ month = 0
    /\ reset \in {"membership_term", "calendar_month"}
    /\ selling = [p \in Plans |-> 1]
    /\ intent = [o \in MemberOrders |-> NoIntent]
    /\ term = [o \in MemberOrders |-> [k \in Kinds |-> "none"]]
    /\ open = [o \in MemberOrders |-> {}]
    /\ used = [o \in MemberOrders |-> [k \in Kinds |-> [w \in Windows |-> 0]]]

-----------------------------------------------------------------------------
(* Terms                                                                    *)

Terms == {t \in MemberOrders \X Kinds : term[t[1]][t[2]] = "active"}

Starts(t) == intent[t[1]].starts
Ends(t) == intent[t[1]].ends

Meets(a, b) == Starts(a) < Ends(b) /\ Starts(b) < Ends(a)

\* The overlap check before a term is written.
FreeOf(o, ts) == \A t \in ts : ~Meets(t, <<o, "paid">>)

\* What a version grants besides the term: the course while it is included, the
\* service always, and grace for the course that the change removed.
Grants(o, k) ==
    {<<k, "service">>}
    \cup {<<k, "course">> : x \in {intent[o].offer} \cap Includes}
    \cup {<<k, "grace">> : x \in {intent[o].grace} \ {NoMonth}}

GrantsOf(o, k) == {g \in open[o] : g[1] = k}

-----------------------------------------------------------------------------
(* Checkout                                                                 *)

Started == {t \in Terms : Starts(t) <= month}

\* The started term that ends last.
Current == CHOOSE t \in Started : \A u \in Started : Ends(u) <= Ends(t)

Running == \E t \in Started : Ends(t) > month

PlanOf(t) == intent[t[1]].offer[1]

\* A renewal of an ended term is still one; another plan must say which change it is.
ActionFor(p, change) ==
    IF Started = {} THEN "purchase"
    ELSE IF PlanOf(Current) = p THEN "renew"
    ELSE IF ~Running THEN "purchase" ELSE change

\* resolveMembershipChange
StartOf(action) ==
    IF action \in {"renew", "downgrade"} /\ Running THEN Ends(Current) ELSE month

\* resolveRemovedCourses: the course the learner has begun and loses by the change.
GraceFrom(offer, begun) ==
    IF /\ Running /\ begun /\ GraceMonths > 0
       /\ intent[Current[1]].offer \in Includes /\ offer \notin Includes
    THEN Ends(Current) ELSE NoMonth

Checkout(o, p, months, change, begun) ==
    LET offer == <<p, selling[p]>>
        action == ActionFor(p, change)
        start == StartOf(action)
    IN  /\ intent[o].status = "none"
        /\ \A x \in MemberOrders : intent[x].status # "pending"
        /\ intent' = [intent EXCEPT ![o] =
               [status |-> "pending", offer |-> offer, action |-> action, starts |-> start,
                ends |-> start + months, grace |-> GraceFrom(offer, begun)]]
        /\ UNCHANGED <<month, reset, selling, term, open, used>>

\* Payment or the end of the order, decided elsewhere (PaymentLifecycle, BankTransfer).
OrderDecided(o, status) ==
    /\ intent[o].status = "pending"
    /\ intent' = [intent EXCEPT ![o].status = status]
    /\ UNCHANGED <<month, reset, selling, term, open, used>>

-----------------------------------------------------------------------------
(* Delivery                                                                 *)

\* Fulfillment retires what a receipt had opened and writes the paid term, or
\* throws and leaves everything: the order stays paid and not fulfilled.
Fulfill(o) ==
    /\ intent[o].status = "confirmed" /\ term[o]["paid"] = "none"
    /\ FreeOf(o, Terms \ {<<o, "early">>})
    /\ term' = [term EXCEPT ![o] = [early |-> IF @["early"] = "active" THEN "cancelled"
                                              ELSE @["early"],
                                    paid |-> "active"]]
    /\ open' = [open EXCEPT ![o] = Grants(o, "paid")]
    /\ UNCHANGED <<month, reset, selling, intent, used>>

\* accept opens the first generation, an operator restores after a revocation.
ReceiptOpens(o) ==
    /\ intent[o].status = "pending" /\ term[o]["early"] # "active"
    /\ FreeOf(o, Terms)
    /\ term' = [term EXCEPT ![o]["early"] = "active"]
    /\ open' = [open EXCEPT ![o] = @ \cup Grants(o, "early")]
    /\ UNCHANGED <<month, reset, selling, intent, used>>

ReceiptRevoked(o) ==
    /\ intent[o].status # "confirmed" /\ term[o]["early"] = "active"
    /\ term' = [term EXCEPT ![o]["early"] = "cancelled"]
    /\ open' = [open EXCEPT ![o] = @ \ GrantsOf(o, "early")]
    /\ UNCHANGED <<month, reset, selling, intent, used>>

TermRefunded(o) ==
    /\ term[o]["paid"] = "active"
    /\ term' = [term EXCEPT ![o]["paid"] = "cancelled"]
    /\ open' = [open EXCEPT ![o] = @ \ GrantsOf(o, "paid")]
    /\ UNCHANGED <<month, reset, selling, intent, used>>

\* Of the course an administrator withdraws from the learner, however it was opened.
EmergencyRevoke ==
    /\ open' = [o \in MemberOrders |-> {g \in open[o] : g[2] = "service"}]
    /\ open' # open
    /\ UNCHANGED <<month, reset, selling, intent, term, used>>

-----------------------------------------------------------------------------
(* The metered service                                                      *)

ActiveGrants == {t \in MemberOrders \X Kinds :
    <<t[2], "service">> \in open[t[1]] /\ Starts(t) <= month /\ month < Ends(t)}

\* entitlementUsageWindow, by its first month
Window(o) == IF reset = "calendar_month" THEN month ELSE intent[o].starts

\* Mutant: each grant counts its own usage.
SpentOfGrant(o, k) == used[o][k][Window(o)]

\* A receipt puts both grants of the order line into one pool.
Spent(o, k) ==
    IF term[o]["early"] = "none" THEN used[o][k][Window(o)]
    ELSE used[o]["early"][Window(o)] + used[o]["paid"][Window(o)]

Usable == {t \in ActiveGrants : Spent(t[1], t[2]) < Quota}

\* consume: the usable grant that ends first.
Consume(t) ==
    /\ t \in Usable /\ \A u \in Usable : Ends(t) <= Ends(u)
    /\ used' = [used EXCEPT ![t[1]][t[2]][Window(t[1])] = @ + 1]
    /\ UNCHANGED <<month, reset, selling, intent, term, open>>

-----------------------------------------------------------------------------
MonthPasses ==
    /\ month < Horizon
    /\ month' = month + 1
    /\ UNCHANGED <<reset, selling, intent, term, open, used>>

NewVersion(p) ==
    /\ <<p, selling[p] + 1>> \in Offers
    /\ selling' = [selling EXCEPT ![p] = @ + 1]
    /\ UNCHANGED <<month, reset, intent, term, open, used>>

MemberNext ==
    \/ MonthPasses \/ EmergencyRevoke
    \/ \E p \in Plans : NewVersion(p)
    \/ \E t \in MemberOrders \X Kinds : Consume(t)
    \/ \E o \in MemberOrders :
        \/ Fulfill(o) \/ ReceiptOpens(o) \/ ReceiptRevoked(o) \/ TermRefunded(o)
        \/ \E status \in {"confirmed", "closed"} : OrderDecided(o, status)
        \/ \E p \in Plans, d \in Durations, c \in {"upgrade", "downgrade"}, b \in BOOLEAN :
               Checkout(o, p, d, c, b)

MemberSpec == MemberInit /\ [][MemberNext]_memberVars

-----------------------------------------------------------------------------
(* Properties                                                               *)

MemberTypeOK ==
    /\ month \in 0 .. Horizon
    /\ \A o \in MemberOrders :
        /\ intent[o].status \in {"none", "pending", "confirmed", "closed"}
        /\ intent[o].status = "none" \/ intent[o].starts < intent[o].ends
        /\ \A k \in Kinds : term[o][k] \in {"none", "active", "cancelled"}

\* A learner never has two memberships at once, whichever of receipts, payments,
\* renewals and changes of plan opened them.
TermsNeverOverlap == \A a, b \in Terms : a # b => ~Meets(a, b)

\* The quota of an order line is spent once per window, although a receipt's grant
\* is replaced by the paid one or by another receipt's.
PoolKept == \A o \in MemberOrders, w \in Windows :
    used[o]["early"][w] + used[o]["paid"][w] <= Quota

\* A grant of a membership is open only while its term is, and early access ends
\* when the order is delivered.
AccessHasTerm == \A o \in MemberOrders :
    /\ \A g \in open[o] : term[o][g[1]] = "active"
    /\ term[o]["paid"] # "none" => term[o]["early"] # "active"

\* Terms, pools and grants agree, through receipts that are revoked and restored,
\* delivery, refunds and emergencies (fulfillMembership, createGeneration,
\* retireEffects, consume).
MembershipsConsistent == MemberTypeOK /\ TermsNeverOverlap /\ PoolKept /\ AccessHasTerm

\* The claim of the tests: "activates upgrades immediately".  A paid upgrade that is
\* not delivered yet can be.
UpgradeActivates == \A o \in MemberOrders :
    intent[o].status = "confirmed" /\ intent[o].action = "upgrade" /\ term[o]["paid"] = "none"
        => FreeOf(o, Terms \ {<<o, "early">>})
=============================================================================
