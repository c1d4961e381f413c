------------------------------ MODULE Benefits ------------------------------
(* What learners get without paying: TMI points redeemed for rewards         *)
(* (src/src/modules/tmi) and scholarships (src/src/modules/scholarships),    *)
(* and the edits of administrators between them.  Redemptions, refunds and   *)
(* adjustments are SERIALIZABLE and lock the learner; an edit reads its row  *)
(* before its transaction and writes every field of it.                      *)
EXTENDS Naturals, FiniteSets, FiniteSetsExt

CONSTANTS
    Learners,
    Rewards,
    Campaigns,
    RedeemKeys,   \* idempotency keys of a learner, for redemptions and for adjustments
    Policies,     \* [kind, cost, quota]: what an award is and costs, and how often it is given
    AdminEdits    \* bound: edits of administrators

ASSUME BenefitsAssumption ==
    /\ IsFiniteSet(Learners) /\ IsFiniteSet(RedeemKeys)
    /\ "none" \notin Rewards \cup Campaigns
    /\ Rewards \cap Campaigns = {} /\ RedeemKeys \cap Campaigns = {}
    /\ \A p \in Policies : p.cost \in Nat
    /\ AdminEdits \in Nat

Offers == Rewards \cup Campaigns

VARIABLES
    offer,       \* tmi_rewards and scholarship_campaigns: status, policy, given
    redemption,  \* tmi_redemptions by learner and key, with their entitlement
    points,      \* tmi_ledger_entries
    award,       \* scholarship_awards: learner, campaign, kind
    benefitGrant,\* course_access_grants: <<source, status>>
    pendingEdit, \* edits in flight: the row an administrator's request has read, and its input
    editsLeft

benefitVars == <<offer, redemption, points, award, benefitGrant, pendingEdit, editsLeft>>

NoRedemption == [reward |-> "none", cost |-> 0, kind |-> "none", status |-> "none"]

\* A policy that the input of an edit leaves out.
AsRead == [kind |-> "as read", cost |-> 0, quota |-> 0]
Unread == [status |-> "none", policy |-> AsRead, given |-> 0]
NoEdit == [offer |-> "none", seen |-> Unread, status |-> "none", policy |-> AsRead]

BenefitInit ==
    /\ offer \in [Offers -> {[status |-> "draft", policy |-> p, given |-> 0] : p \in Policies}]
    /\ redemption = [x \in Learners \X RedeemKeys |-> NoRedemption]
    /\ points = {} /\ award = {} /\ benefitGrant = {}
    /\ pendingEdit = NoEdit /\ editsLeft = AdminEdits

-----------------------------------------------------------------------------
(* The points of a learner                                                 *)

Sum(entries) == SumFunction([e \in entries |-> e.amount])

Earned(u) == Sum({e \in points : e.user = u /\ e.kind \in {"refund", "credit"}})

Spent(u) == Sum({e \in points : e.user = u /\ e.kind \in {"redeem", "debit"}})

\* Mutant: what an administrator took away is not counted.
BalanceOfRedemptions(u) ==
    LET redeemed == Sum({e \in points : e.user = u /\ e.kind = "redeem"})
    IN IF redeemed > Earned(u) THEN 0 ELSE Earned(u) - redeemed

\* summarizeWallet: never less than zero, whatever the entries say.
Balance(u) == IF Spent(u) > Earned(u) THEN 0 ELSE Earned(u) - Spent(u)

Entry(u, kind, amount, source) == [user |-> u, kind |-> kind, amount |-> amount, source |-> source]

AdjustBalance(u, k, direction, amount) ==
    /\ ~\E e \in points : e.user = u /\ e.kind \in {"credit", "debit"} /\ e.source = k
    /\ direction = "debit" => Balance(u) >= amount
    /\ points' = points \cup {Entry(u, direction, amount, k)}
    /\ UNCHANGED <<offer, redemption, award, benefitGrant, pendingEdit, editsLeft>>

-----------------------------------------------------------------------------
(* Redemptions                                                             *)

\* assertRewardRedeemable, of the row that is locked; "expired" stands for the window.
Redeemable(r) ==
    /\ offer[r].status = "active"
    /\ offer[r].policy.quota = 0 \/ offer[r].given < offer[r].policy.quota

Given(x) == offer' = [offer EXCEPT ![x].given = @ + 1]

Granted(source) == benefitGrant \cup {<<source, "active">>}

Redeem(u, r, k) ==
    /\ redemption[<<u, k>>] = NoRedemption
    /\ Redeemable(r)
    /\ LET p == offer[r].policy IN
       /\ Balance(u) >= p.cost
       /\ redemption' = [redemption EXCEPT ![<<u, k>>] =
                            [reward |-> r, cost |-> p.cost, kind |-> p.kind, status |-> "active"]]
       /\ benefitGrant' = IF p.kind = "course_access" THEN Granted(<<u, k>>) ELSE benefitGrant
       /\ points' = points \cup {Entry(u, "redeem", p.cost, k)}
    /\ Given(r)
    /\ UNCHANGED <<award, pendingEdit, editsLeft>>

\* Mutant: the price of today is paid back.
PaidBackToday(x) == offer[redemption[x].reward].policy.cost

PaidBack(x) == redemption[x].cost

\* Mutant: the kind of the reward is read, not that of the entitlement.
KindToday(x) == offer[redemption[x].reward].policy.kind

EntitledTo(x) == redemption[x].kind

\* Mutant: the revocation is a row of its own.
RevokedBeside(source) == benefitGrant \cup {<<source, "revoked">>}

Revoked(source) == {IF g[1] = source THEN <<source, "revoked">> ELSE g : g \in benefitGrant}

RefundRedemption(u, k) ==
    LET x == <<u, k>> IN
    /\ redemption[x] # NoRedemption
    /\ ~\E e \in points : e.user = u /\ e.kind = "refund" /\ e.source = k
    /\ points' = points \cup {Entry(u, "refund", PaidBack(x), k)}
    /\ redemption' = [redemption EXCEPT ![x].status = "revoked"]
    /\ benefitGrant' = IF EntitledTo(x) = "course_access" THEN Revoked(x) ELSE benefitGrant
    /\ UNCHANGED <<offer, award, pendingEdit, editsLeft>>

-----------------------------------------------------------------------------
(* Scholarships.  The course asked for is published and in the scope.      *)

\* evaluateScholarshipEligibility, of the locked campaign.
Eligible(c) ==
    /\ offer[c].status = "active"
    /\ offer[c].policy.quota = 0 \/ offer[c].given < offer[c].policy.quota

Apply(u, c) ==
    /\ ~\E w \in award : w.user = u /\ w.campaign = c
    /\ Eligible(c)
    /\ award' = award \cup {[user |-> u, campaign |-> c, kind |-> offer[c].policy.kind]}
    /\ benefitGrant' = IF offer[c].policy.kind = "course_access" THEN Granted(<<u, c>>) ELSE benefitGrant
    /\ Given(c)
    /\ UNCHANGED <<redemption, points, pendingEdit, editsLeft>>

-----------------------------------------------------------------------------
(* Edits                                                                   *)

RewardStatuses == {"draft", "active", "disabled", "expired"}
ScholarshipStatuses == {"draft", "active", "paused", "closed"}

\* Until the first award an edit may give a policy; later only a status.
ReadForEdit(x, status, policy) ==
    /\ pendingEdit = NoEdit /\ editsLeft > 0
    /\ policy # AsRead => offer[x].given = 0
    /\ pendingEdit' = [offer |-> x, seen |-> offer[x], status |-> status, policy |-> policy]
    /\ editsLeft' = editsLeft - 1
    /\ UNCHANGED <<offer, redemption, points, award, benefitGrant>>

UpdateReward(r, status, policy) ==
    ReadForEdit(r, status, policy) /\ status \in RewardStatuses \cup {"as read"}

UpdateScholarship(c, status, policy) ==
    ReadForEdit(c, status, policy) /\ status \in ScholarshipStatuses \cup {"as read"}

\* Mutant: the row that was read is written back as a whole.
CountKeptAsRead(x) == pendingEdit.seen.given

\* The counter is not among the fields that are written.
CountKept(x) == offer[x].given

WriteEdit ==
    /\ pendingEdit # NoEdit
    /\ offer' = [offer EXCEPT ![pendingEdit.offer] =
          [status |-> IF pendingEdit.status = "as read" THEN pendingEdit.seen.status ELSE pendingEdit.status,
           policy |-> IF pendingEdit.policy = AsRead THEN pendingEdit.seen.policy ELSE pendingEdit.policy,
           given  |-> CountKept(pendingEdit.offer)]]
    /\ pendingEdit' = NoEdit
    /\ UNCHANGED <<redemption, points, award, benefitGrant, editsLeft>>

BenefitNext ==
    \/ \E u \in Learners, k \in RedeemKeys :
          \/ \E d \in {"credit", "debit"}, n \in {p.cost : p \in Policies} : AdjustBalance(u, k, d, n)
          \/ \E r \in Rewards : Redeem(u, r, k)
          \/ RefundRedemption(u, k)
    \/ \E u \in Learners, c \in Campaigns : Apply(u, c)
    \/ \E p \in Policies \cup {AsRead} :
          \/ \E r \in Rewards, s \in RewardStatuses \cup {"as read"} : UpdateReward(r, s, p)
          \/ \E c \in Campaigns, s \in ScholarshipStatuses \cup {"as read"} : UpdateScholarship(c, s, p)
    \/ WriteEdit

BenefitSpec == BenefitInit /\ [][BenefitNext]_benefitVars

-----------------------------------------------------------------------------
(* Properties                                                              *)

BenefitTypeOK ==
    /\ \A x \in Offers : offer[x].policy \in Policies /\ offer[x].given \in Nat
    /\ \A r \in Rewards : offer[r].status \in RewardStatuses
    /\ \A c \in Campaigns : offer[c].status \in ScholarshipStatuses
    /\ \A x \in Learners \X RedeemKeys :
           redemption[x] # NoRedemption =>
               redemption[x].reward \in Rewards /\ redemption[x].status \in {"active", "revoked"}
    /\ \A g \in benefitGrant : g[2] \in {"active", "revoked"}
    /\ \A g, h \in benefitGrant : g[1] = h[1] => g = h

\* No learner spends points twice: the zero that summarizeWallet puts in place of a
\* negative balance (tmi-redemption.service.ts:396) is never needed.
NeverOverdrawn == \A u \in Learners : Spent(u) <= Earned(u)

\* A refund gives back what its redemption took, once, whatever the reward costs by
\* then (redeem and refund, tmi-redemption.service.ts:183 and 242).
RefundedAsPaid ==
    \A u \in Learners, k \in RedeemKeys :
        LET of(kind) == {e \in points : e.user = u /\ e.source = k /\ e.kind = kind} IN
        Sum(of("refund")) = IF redemption[<<u, k>>].status = "revoked" THEN Sum(of("redeem")) ELSE 0

\* The course is open exactly as long as the entitlement it came with
\* (ensureGrant and revokeGrant from redeem, refund and apply).
GrantFollowsEntitlement ==
    /\ \A x \in Learners \X RedeemKeys :
           (<<x, "active">> \in benefitGrant) <=>
               (redemption[x].kind = "course_access" /\ redemption[x].status = "active")
    /\ \A w \in award : w.kind = "course_access" => << <<w.user, w.campaign>>, "active">> \in benefitGrant

\* The counters that hold the quotas count what was given, although an edit writes a
\* row it read before (tmi-reward.service.ts:41, scholarships.service.ts:235).
GivenIsCounted ==
    /\ \A r \in Rewards :
           offer[r].given = Cardinality({x \in Learners \X RedeemKeys : redemption[x].reward = r})
    /\ \A c \in Campaigns : offer[c].given = Cardinality({w \in award : w.campaign = c})

\* Points, redemptions, awards and what they opened agree while policies are edited.
BenefitsConsistent ==
    BenefitTypeOK /\ NeverOverdrawn /\ RefundedAsPaid /\ GrantFollowsEntitlement /\ GivenIsCounted
=============================================================================
