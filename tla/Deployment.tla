----------------------------- MODULE Deployment -----------------------------
(***************************************************************************)
(* A production deployment as far as the database goes: the stages of      *)
(* src/scripts/run-production-migrations.cjs, the verification of the      *)
(* runtime role and the restart, over the ledger of Prisma.  The old       *)
(* release keeps serving and writing while it runs.  A deployment may fail *)
(* or be killed at every stage, and the prisma process it has spawned may  *)
(* outlive it (spawnSync stops waiting after fifteen minutes).             *)
(***************************************************************************)
EXTENDS Naturals, Sequences, FiniteSets

CONSTANTS
    Target,      \* the reviewed reconciliation hardening
    Bank,        \* the bank transfer migration
    Receipts,    \* the receipt migrations in order, which need the owner's approval
    Revenue,     \* the reviewed revenue migrations in order
    MaxTraffic,  \* bound: changes the application makes to financial rows
    MaxFailures  \* bound: deployments that do not finish

ASSUME DeploymentAssumption == MaxTraffic \in Nat /\ MaxFailures \in Nat

Order == <<Target, Bank>> \o Receipts \o Revenue
ReceiptNames == {Receipts[i] : i \in DOMAIN Receipts}
RevenueNames == {Revenue[i] : i \in DOMAIN Revenue}
Release == {Target, Bank} \cup ReceiptNames \cup RevenueNames

VARIABLES
    row,        \* _prisma_migrations by name
    facts,      \* the state of the financial rows, as their digest tells it apart
    cases,      \* the same of the reconciliation cases, as their counts tell it apart
    marker,     \* what the runtime role may do to the legacy markers
    usable,     \* migrations whose tables the runtime role has its rights on
    serving,    \* the release that serves
    stage,      \* of the deployment that runs
    approved,   \* it was given --authorize-reviewed-receipt-migrations
    snapshot,   \* what its last preflight saw
    prisma,     \* the prisma process: is it running, and what was it started for
    failures

deployVars == <<row, facts, cases, marker, usable, serving, stage, approved, snapshot, prisma,
              failures>>

Pending == {m \in Release : row[m] = "absent"}
Sound == \A m \in Release : row[m] # "unfinished"

\* RECONCILIATION_SCHEMA_QUERY: the marker table, the guards, the source key that is not null.
Hardened == row[Target] = "applied"

Unseen == [pending |-> {}, applied |-> FALSE, facts |-> 0, cases |-> 0]

\* Production as releases left it that stopped before or after any group of migrations.
DeployInit ==
    /\ row \in {[m \in Release |-> IF m \in done THEN "applied" ELSE "absent"] :
                  done \in {{Order[i] : i \in 1..n} : n \in 0..Len(Order)}}
    /\ facts = 0 /\ cases = 0
    /\ marker = IF Hardened THEN "closed" ELSE "absent"
    /\ usable = {m \in Release : row[m] = "applied"}
    /\ serving = "old" /\ stage = "idle" /\ approved = FALSE /\ snapshot = Unseen
    /\ prisma = [alive |-> FALSE, admitted |-> {}]
    /\ failures = 0

-----------------------------------------------------------------------------
(* The stages of a deployment                                              *)

\* Mutant: the process is restarted before its database is ready for it.
RestartEarly == <<"initial", "repeat", "apply", "wait", "restart", "postflight", "revoke",
                  "guard", "grant", "verify", "idle">>

Stages == <<"initial", "repeat", "apply", "wait", "postflight", "revoke", "guard", "grant",
            "verify", "restart", "idle">>

After(s) == LET i == CHOOSE i \in DOMAIN Stages : Stages[i] = s IN Stages[i + 1]

Passes(s) == stage = s /\ stage' = After(s)

StartDeployment(approval) ==
    /\ stage = "idle" /\ serving = "old" /\ failures < MaxFailures
    /\ stage' = Stages[1] /\ approved' = approval /\ snapshot' = Unseen
    /\ UNCHANGED <<row, facts, cases, marker, usable, serving, prisma, failures>>

\* isReviewedReceiptSuffix
ReceiptSuffix(pending) ==
    /\ row[Bank] = "applied"
    /\ \E k \in DOMAIN Receipts : pending = {Receipts[i] : i \in k..Len(Receipts)}

\* onlyReviewedRevenuePending
RevenueOnly(pending) ==
    /\ row[Bank] = "applied" /\ pending # {} /\ pending \subseteq RevenueNames
    /\ \A m \in ReceiptNames : row[m] = "applied"

\* Mutant: an unfinished row is taken for an applied one.
AdmitsUnfinished ==
    \/ /\ row[Target] # "absent"
       /\ \/ Pending = {} \/ Pending = {Bank} \/ RevenueOnly(Pending)
          \/ approved /\ ReceiptSuffix(Pending)
    \/ Pending = {Target}

\* assertMigrationLedgerState
LedgerAdmits ==
    /\ Sound
    /\ \/ Pending = {Target}
       \/ /\ Hardened
          /\ \/ Pending = {} \/ Pending = {Bank} \/ RevenueOnly(Pending)
             \/ approved /\ ReceiptSuffix(Pending)

\* assertReconciliationPreflight and its baseline: the reviewed counts, no marker yet.
ReviewedState == ~Hardened /\ marker = "absent" /\ facts = 0 /\ cases = 0

\* assertReconciliationAppliedState: rows and cases may have grown since.
HardenedState == Hardened /\ marker # "absent"

\* RECONCILIATION_FINANCIAL_DIGEST_QUERY and RECONCILIATION_CASE_STATE_QUERY
FinancialDigest == facts
CaseCounts == cases

Seen == [pending |-> Pending, applied |-> Hardened,
         facts |-> FinancialDigest, cases |-> CaseCounts]

\* assertReconciliationPreflightStable
Stable == snapshot = Seen

\* runMigrationPreflight; the second one must see what the first one saw.
Preflight ==
    /\ LedgerAdmits
    /\ ReviewedState \/ HardenedState
    /\ \/ Passes("initial") /\ snapshot' = Seen
       \/ Passes("repeat") /\ Stable /\ UNCHANGED snapshot
    /\ UNCHANGED <<row, facts, cases, marker, usable, serving, approved, prisma, failures>>

\* The snapshot decides whether there is anything to apply, not the ledger of now.
Apply ==
    /\ Passes("apply")
    /\ IF snapshot.applied /\ snapshot.pending = {} THEN UNCHANGED prisma
       ELSE /\ ~prisma.alive
            /\ prisma' = [alive |-> TRUE, admitted |-> snapshot.pending]
    /\ UNCHANGED <<row, facts, cases, marker, usable, serving, approved, snapshot, failures>>

PrismaEnded ==
    /\ Passes("wait") /\ ~prisma.alive /\ Pending = {} /\ Sound
    /\ UNCHANGED <<row, facts, cases, marker, usable, serving, approved, snapshot, prisma, failures>>

\* assertMigrationAppliedExactlyOnce, of the target and of every local migration.
AppliedOnce == Hardened /\ Pending = {} /\ Sound

\* assertReconciliationPostflight: no financial row and no case changed since the preflight.
StateKept ==
    /\ Hardened /\ marker # "absent"
    /\ FinancialDigest = snapshot.facts /\ CaseCounts = snapshot.cases

Postflight ==
    /\ Passes("postflight")
    /\ AppliedOnce /\ StateKept
    /\ UNCHANGED <<row, facts, cases, marker, usable, serving, approved, snapshot, prisma, failures>>

RevokeMarkers ==
    /\ Passes("revoke") /\ Hardened
    /\ marker' = "closed"
    /\ UNCHANGED <<row, facts, cases, usable, serving, approved, snapshot, prisma, failures>>

GuardVerified ==
    /\ Passes("guard") /\ marker = "closed"
    /\ UNCHANGED <<row, facts, cases, marker, usable, serving, approved, snapshot, prisma, failures>>

\* grantRuntimeMembershipPrivileges: one transaction, over every table there is.
GrantUse ==
    /\ Passes("grant")
    /\ usable' = {m \in Release : row[m] = "applied"}
    /\ UNCHANGED <<row, facts, cases, marker, serving, approved, snapshot, prisma, failures>>

\* RUNTIME_ROLE_QUERY: every table of the release is there and the runtime role's to use.
RoleReady == usable = Release

RoleVerified ==
    /\ Passes("verify") /\ RoleReady
    /\ UNCHANGED <<row, facts, cases, marker, usable, serving, approved, snapshot, prisma, failures>>

Restart ==
    /\ Passes("restart")
    /\ serving' = "new"
    /\ UNCHANGED <<row, facts, cases, marker, usable, approved, snapshot, prisma, failures>>

\* A check that fails, a query that does, a timeout, a runner that is killed.
Fail ==
    /\ stage # "idle" /\ stage' = "idle" /\ failures' = failures + 1
    /\ UNCHANGED <<row, facts, cases, marker, usable, serving, approved, snapshot, prisma>>

-----------------------------------------------------------------------------
(* prisma migrate deploy, the operator and the application                 *)

\* It refuses a ledger with a failed migration, and takes the pending ones in order.
BeginMigration ==
    /\ prisma.alive /\ Sound /\ Pending # {}
    /\ \E i \in DOMAIN Order :
          /\ Order[i] \in Pending /\ \A j \in 1..(i-1) : Order[j] \notin Pending
          /\ row' = [row EXCEPT ![Order[i]] = "unfinished"]
    /\ UNCHANGED <<facts, cases, marker, usable, serving, stage, approved, snapshot, prisma, failures>>

\* The target brings the marker table, with the rights the runtime role has by default.
FinishMigration(m) ==
    /\ prisma.alive /\ row[m] = "unfinished"
    /\ row' = [row EXCEPT ![m] = "applied"]
    /\ marker' = IF m = Target THEN "open" ELSE marker
    /\ UNCHANGED <<facts, cases, usable, serving, stage, approved, snapshot, prisma, failures>>

\* All applied, or an error, or the process is gone.
PrismaStops ==
    /\ prisma.alive /\ prisma' = [prisma EXCEPT !.alive = FALSE]
    /\ UNCHANGED <<row, facts, cases, marker, usable, serving, stage, approved, snapshot, failures>>

\* An operator has looked at a failed migration: prisma migrate resolve --rolled-back.
ResolveFailed(m) ==
    /\ ~prisma.alive /\ row[m] = "unfinished"
    /\ row' = [row EXCEPT ![m] = "absent"]
    /\ UNCHANGED <<facts, cases, marker, usable, serving, stage, approved, snapshot, prisma, failures>>

\* A payment, an expiry, a case: the application writes financial rows meanwhile.
Traffic ==
    /\ \/ facts < MaxTraffic /\ facts' = facts + 1 /\ UNCHANGED cases
       \/ cases < MaxTraffic /\ cases' = cases + 1 /\ UNCHANGED facts
    /\ UNCHANGED <<row, marker, usable, serving, stage, approved, snapshot, prisma, failures>>

DeployNext ==
    \/ \E approval \in BOOLEAN : StartDeployment(approval)
    \/ Preflight \/ Apply \/ PrismaEnded \/ Postflight \/ RevokeMarkers \/ GuardVerified
    \/ GrantUse \/ RoleVerified \/ Restart \/ Fail
    \/ BeginMigration \/ PrismaStops \/ Traffic
    \/ \E m \in Release : FinishMigration(m) \/ ResolveFailed(m)

DeploySpec == DeployInit /\ [][DeployNext]_deployVars

-----------------------------------------------------------------------------
(* Properties                                                              *)

\* What the ledger, the stages and the processes range over; the release that replaces the
\* old one is the last thing a deployment brings.
DeployTypeOK ==
    /\ row \in [Release -> {"absent", "unfinished", "applied"}]
    /\ stage \in {Stages[i] : i \in DOMAIN Stages} /\ approved \in BOOLEAN
    /\ snapshot \in [pending : SUBSET Release, applied : BOOLEAN, facts : 0..MaxTraffic,
                     cases : 0..MaxTraffic]
    /\ prisma \in [alive : BOOLEAN, admitted : SUBSET Release]
    /\ marker \in {"absent", "open", "closed"} /\ (Hardened <=> marker # "absent")
    /\ usable \subseteq {m \in Release : row[m] = "applied"}
    /\ serving \in {"old", "new"} /\ (serving = "new" => stage = "idle")
    /\ facts \in 0..MaxTraffic /\ cases \in 0..MaxTraffic /\ failures \in 0..MaxFailures

\* The new release serves only over a database that is ready for it: every migration
\* applied, the legacy markers closed to it, every table its to use - however many earlier
\* deployments stopped half way (run, deploy-production.yml).
ServesPrepared ==
    serving = "new" =>
        /\ \A m \in Release : row[m] = "applied"
        /\ marker = "closed" /\ usable = Release

\* prisma applies whatever is pending when it runs, and that is never more than the
\* preflight that admitted it has reviewed (assertMigrationLedgerState).
AppliesWhatWasAdmitted ==
    [][\A m \in Release : row[m] # "applied" /\ row'[m] = "applied" => m \in prisma.admitted]_deployVars

\* What serves traffic is prepared for the database it finds.
ReleaseSafe == DeployTypeOK /\ ServesPrepared
=============================================================================
