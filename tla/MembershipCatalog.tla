-------------------------- MODULE MembershipCatalog --------------------------
(* What one membership plan sells.  Its versions are published by hand, or  *)
(* by revenue policies that include the courses of participating sellers.   *)
(* Every operation runs SERIALIZABLE under one advisory lock.               *)
EXTENDS Naturals, Sequences, FiniteSets

CONSTANTS
    Courses,
    MaxVersions,    \* bound: versions of the plan
    MaxByHand,      \* bound: those an administrator makes
    Policies,       \* revenue policies, at most two in force or waiting
    NoPolicy

ASSUME CatalogAssumption ==
    /\ {MaxVersions, MaxByHand} \subseteq Nat
    /\ IsFiniteSet(Policies) /\ Cardinality(Policies) >= 2 /\ NoPolicy \notin Policies

VARIABLES
    planOpen,       \* the plan is active
    versions,       \* membership_plan_versions in the order of their numbers
    policy,         \* revenue_plan_policies; a superseded or cancelled one is never
                    \* read again, and its id is free
    joined,         \* courses whose sellers participate
    listed,         \* courses that are published and not moderated
    sale,           \* history: was the last sale under a policy of permitted courses?
    byHand          \* history: a version of a policy was archived

catalogVars == <<planOpen, versions, policy, joined, listed, sale, byHand>>

NoneYet == [status |-> "none", source |-> 0, activated |-> 0, rules |-> {}, due |-> FALSE,
            immediate |-> FALSE]

CatalogInit ==
    /\ planOpen = TRUE
    /\ versions = <<>>
    /\ policy = [p \in Policies |-> NoneYet]
    /\ joined \in SUBSET Courses /\ listed = Courses
    /\ sale = "permitted" /\ byHand = FALSE

-----------------------------------------------------------------------------
Numbers == 1 .. Len(versions)

PublishedIn(vs) == {n \in 1 .. Len(vs) : vs[n].status = "published"}

\* The version that is sold.
LatestIn(vs) == CHOOSE n \in PublishedIn(vs) : \A m \in PublishedIn(vs) : m <= n

InState(ps, status) == {p \in Policies : ps[p].status = status}

Managed == InState(policy, "active") \cup InState(policy, "scheduled") # {}

-----------------------------------------------------------------------------
(* The administrator                                                        *)

CreateVersion ==
    /\ planOpen /\ ~Managed /\ Len(versions) < MaxVersions
    /\ Cardinality({n \in Numbers : versions[n].policy = NoPolicy}) < MaxByHand
    /\ versions' = Append(versions, [status |-> "draft", courses |-> {}, policy |-> NoPolicy])
    /\ UNCHANGED <<planOpen, policy, joined, listed, sale, byHand>>

ConfigureIncludedCourse(n, c) ==
    /\ versions[n].status = "draft" /\ ~Managed
    /\ c \in listed \ versions[n].courses
    /\ versions' = [versions EXCEPT ![n].courses = @ \cup {c}]
    /\ UNCHANGED <<planOpen, policy, joined, listed, sale, byHand>>

PublishVersion(n) ==
    /\ versions[n].status = "draft" /\ planOpen /\ ~Managed
    /\ versions' = [versions EXCEPT ![n].status = "published"]
    /\ UNCHANGED <<planOpen, policy, joined, listed, sale, byHand>>

\* Archiving a version does not ask whether a policy manages the plan.
ArchiveVersion(n) ==
    /\ versions[n].status = "published"
    /\ versions' = [versions EXCEPT ![n].status = "archived"]
    /\ byHand' = (byHand \/ Managed)
    /\ UNCHANGED <<planOpen, policy, joined, listed, sale>>

ArchivePlan ==
    /\ planOpen
    /\ planOpen' = FALSE
    /\ UNCHANGED <<versions, policy, joined, listed, sale, byHand>>

-----------------------------------------------------------------------------
(* Policies.  A catalogue is what a transaction sees and makes of the        *)
(* versions and policies, with the courses that may be sold.                *)

Catalogue(ok) == [vs |-> versions, ps |-> policy, ok |-> ok]

\* Mutant: courses stay as long as their sellers participate.
EligibleJoined(js, ls) == js

\* Participating courses that are published and not moderated.
Eligible(js, ls) == js \cap ls

\* activate: a copy of the source with the selected courses, published at once.  A new
\* policy takes the place of the active one; a rebuilt one stays.
Activate(cat, p, selected, rebuilt) ==
    IF ~planOpen
    THEN [cat EXCEPT !.ps[p] = NoneYet]
    ELSE LET vs == Append(cat.vs, [status |-> "published", courses |-> selected, policy |-> p])
             others == IF rebuilt THEN {} ELSE InState(cat.ps, "active")
         IN  [cat EXCEPT !.vs = vs,
                         !.ps = [q \in Policies |->
                  IF q = p THEN [cat.ps[p] EXCEPT !.status = "active", !.activated = Len(vs)]
                  ELSE IF q \in others THEN NoneYet
                  ELSE cat.ps[q]]]

SourceOf(cat, p) == IF cat.ps[p].activated # 0 THEN cat.ps[p].activated ELSE cat.ps[p].source

Included(cat, p) == cat.vs[SourceOf(cat, p)].courses

Selection(cat, p) == cat.ps[p].rules \cap cat.ok

\* refreshActive, first: courses that may no longer be sold leave at once.
Rebuilt(cat, p) ==
    IF Included(cat, p) \subseteq cat.ok THEN cat
    ELSE Activate(cat, p, Included(cat, p) \cap cat.ok, TRUE)

Unused(ps) == InState(ps, "none")

NewId(ps) == CHOOSE q \in Unused(ps) : TRUE

Scheduled(cat, rules, source, immediate) ==
    [cat EXCEPT !.ps[NewId(cat.ps)] =
        [NoneYet EXCEPT !.status = "scheduled", !.source = source, !.rules = rules,
                        !.due = immediate, !.immediate = immediate]]

\* What the rules would now select waits for the notice of a new policy.
Renewed(cat, p) ==
    LET new == NewId(cat.ps)
        made == Scheduled(cat, cat.ps[p].rules, SourceOf(cat, p), cat.ps[p].immediate)
    IN  IF Selection(cat, p) = Included(cat, p) \/ InState(cat.ps, "scheduled") # {} THEN cat
        ELSE IF cat.ps[p].immediate THEN Activate(made, new, Selection(made, new), FALSE)
        ELSE made

\* At most one policy of the plan is active.
Refreshed(cat, forced) ==
    IF ~planOpen \/ InState(cat.ps, "active") = {} THEN cat
    ELSE LET p == CHOOSE q \in Policies : cat.ps[q].status = "active"
         IN  IF forced THEN Rebuilt(cat, p) ELSE Renewed(Rebuilt(cat, p), p)

\* At most one is scheduled.
DueActivated(cat) ==
    LET due == {p \in Policies : cat.ps[p].status = "scheduled" /\ cat.ps[p].due}
        p == CHOOSE q \in due : TRUE
    IN  IF due = {} THEN cat ELSE Activate(cat, p, Selection(cat, p), FALSE)

Becomes(cat) ==
    /\ Len(cat.vs) <= MaxVersions
    /\ versions' = cat.vs /\ policy' = cat.ps

SchedulePolicy(rules, immediate) ==
    LET cat == Catalogue(Eligible(joined, listed))
        new == NewId(policy)
        made == Scheduled(cat, rules, LatestIn(versions), immediate)
    IN  /\ planOpen /\ PublishedIn(versions) # {}
        /\ InState(policy, "scheduled") = {}
        /\ Becomes(IF immediate THEN Activate(made, new, Selection(made, new), FALSE) ELSE made)
        /\ UNCHANGED <<planOpen, joined, listed, sale, byHand>>

CancelPolicy(p) ==
    /\ policy[p].status = "scheduled" /\ ~policy[p].due
    /\ policy' = [policy EXCEPT ![p] = NoneYet]
    /\ UNCHANGED <<planOpen, versions, joined, listed, sale, byHand>>

NoticeEnds(p) ==
    /\ policy[p].status = "scheduled" /\ ~policy[p].due
    /\ policy' = [policy EXCEPT ![p].due = TRUE]
    /\ UNCHANGED <<planOpen, versions, joined, listed, sale, byHand>>

\* synchronizeCheckout and reconcileDue
Synchronized == Refreshed(DueActivated(Catalogue(Eligible(joined, listed))), FALSE)

ReconcileDue ==
    /\ Becomes(Synchronized)
    /\ UNCHANGED <<planOpen, joined, listed, sale, byHand>>

-----------------------------------------------------------------------------
(* Sellers, moderators and learners                                         *)

Accept(c) ==
    /\ c \notin joined
    /\ joined' = joined \cup {c}
    /\ Becomes(Refreshed(Catalogue(Eligible(joined \cup {c}, listed)), FALSE))
    /\ UNCHANGED <<planOpen, listed, sale, byHand>>

Leave(c) ==
    /\ c \in joined
    /\ joined' = joined \ {c}
    /\ Becomes(Refreshed(Catalogue(Eligible(joined \ {c}, listed)), TRUE))
    /\ UNCHANGED <<planOpen, listed, sale, byHand>>

\* A course is published, taken down or moderated by its own services.
CourseListed(c) ==
    /\ listed' = IF c \in listed THEN listed \ {c} ELSE listed \cup {c}
    /\ UNCHANGED <<planOpen, versions, policy, joined, sale, byHand>>

\* captureOrder: only a version that a policy made is held to the sellers' permission,
\* and unless the policy's fee is the whole price there must be sellers to share it.
Captures(cat, n, wholeFee) ==
    cat.vs[n].policy # NoPolicy =>
        cat.vs[n].courses \subseteq cat.ok /\ (cat.vs[n].courses # {} \/ wholeFee)

\* The whole transaction is rolled back when the version cannot be sold.
Sell(wholeFee) ==
    LET cat == Synchronized
        n == LatestIn(cat.vs)
    IN  /\ planOpen /\ PublishedIn(cat.vs) # {} /\ Captures(cat, n, wholeFee)
        /\ Becomes(cat)
        /\ sale' = IF InState(cat.ps, "active") # {} /\ ~(cat.vs[n].courses \subseteq joined \cap listed)
                   THEN "unpermitted" ELSE "permitted"
        /\ UNCHANGED <<planOpen, joined, listed, byHand>>

CatalogNext ==
    \/ CreateVersion \/ ArchivePlan \/ ReconcileDue
    \/ \E n \in Numbers : PublishVersion(n) \/ ArchiveVersion(n)
    \/ \E n \in Numbers, c \in Courses : ConfigureIncludedCourse(n, c)
    \/ \E c \in Courses : Accept(c) \/ Leave(c) \/ CourseListed(c)
    \/ \E p \in Policies : CancelPolicy(p) \/ NoticeEnds(p)
    \/ \E wholeFee \in BOOLEAN : Sell(wholeFee)
    \/ \E rules \in SUBSET Courses, immediate \in BOOLEAN : SchedulePolicy(rules, immediate)

CatalogSpec == CatalogInit /\ [][CatalogNext]_catalogVars

-----------------------------------------------------------------------------
(* Properties                                                               *)

CatalogTypeOK ==
    /\ \A n \in Numbers : versions[n].status \in {"draft", "published", "archived"}
    /\ joined \subseteq Courses /\ listed \subseteq Courses
    /\ \A p \in Policies : policy[p].status \in {"none", "scheduled", "active"}

\* While a policy manages the plan, a checkout sells only courses whose sellers take
\* part and that are published, however the catalogue came to its present versions,
\* unless an administrator archived one of them meanwhile; and at most one policy
\* is active and one waits (synchronizeCheckout, refreshActive, captureOrder).
CatalogConsistent ==
    /\ CatalogTypeOK
    /\ Cardinality(InState(policy, "active")) <= 1
    /\ Cardinality(InState(policy, "scheduled")) <= 1
    /\ \A p \in InState(policy, "active") :
           policy[p].activated \in Numbers /\ versions[policy[p].activated].policy = p
    /\ sale = "unpermitted" => byHand
=============================================================================
