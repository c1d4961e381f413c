---------------------------- MODULE PlatformProofs ----------------------------
(* The parts of the platform that no purchase goes through.                   *)
(* Deployment: the new release serves only over a database that is ready for  *)
(* it, and prisma applies only what a preflight has reviewed, for any lists   *)
(* of migrations, any amount of traffic and any number of deployments that    *)
(* fail, are killed or leave a prisma process behind them.  A migration that  *)
(* was applied stays applied, so what is not applied only shrinks after the   *)
(* preflight that saw all of it.                                              *)
(* Accounts: for any number of users, identities and flows, a session is of   *)
(* the account that its uid or identity owns, and an administrator remains.   *)
(* An account is owned by an identity when a completion of one of its flows   *)
(* created it; nobody rewrites that, and a flow that has ended stays ended.   *)
(* Notifications: for any number of events, dispatchers and connections, an   *)
(* outbox entry is closed only when its buyer is told, an email has one       *)
(* sender at a time, and a connection that caught up has no gap.              *)
(* Community: whatever a request read, what it writes leaves every item with  *)
(* its category, its file and the status that its last audit record says.     *)
(* Jobs: whoever crosses, the audit of a job ends with its status, and the    *)
(* history of an application explains its own.                                *)
(* Media: a request stores before it writes and deletes what no row names any *)
(* more, so an image that is shown is in the bucket, wherever a request stops.*)
EXTENDS Deployment, Accounts, Notifications, Community, Jobs, Media, SetFacts

-----------------------------------------------------------------------------
(* Deployment: the inductive invariant                                       *)

Unapplied == {m \in Release : row[m] # "applied"}

\* Every deployment that runs may still be the last that fails.
FailuresLeft == stage # "idle" => failures < MaxFailures

\* From the second preflight on the snapshot holds whatever is not applied; a prisma
\* process was started for at least that.
Reviewed ==
    /\ stage = "apply" => Unapplied \subseteq snapshot.pending
    /\ prisma.alive => Unapplied \subseteq prisma.admitted

\* What the stages before the restart have made sure of.
StagesPassed ==
    /\ stage \in {"guard", "grant", "verify", "restart"} => marker = "closed"
    /\ stage = "restart" => usable = Release

DeployIInv == DeployTypeOK /\ FailuresLeft /\ Reviewed /\ StagesPassed /\ ServesPrepared

\* A stage that passes is followed by the next one in the order of run.
LEMMA StageOrder ==
    /\ Stages[1] = "initial"
    /\ After("initial") = "repeat" /\ After("repeat") = "apply" /\ After("apply") = "wait"
    /\ After("wait") = "postflight" /\ After("postflight") = "revoke"
    /\ After("revoke") = "guard" /\ After("guard") = "grant" /\ After("grant") = "verify"
    /\ After("verify") = "restart" /\ After("restart") = "idle"
BY DEF Stages, After

\* The names of the stages.
LEMMA StageNames ==
    {Stages[i] : i \in DOMAIN Stages} =
        {"initial", "repeat", "apply", "wait", "postflight", "revoke", "guard", "grant", "verify",
         "restart", "idle"}
BY DEF Stages

-----------------------------------------------------------------------------
(* The stages                                                               *)

\* Production as earlier releases left it.
LEMMA DeployInitInvariant == DeployInit => DeployIInv
<1> SUFFICES ASSUME DeployInit PROVE DeployIInv
    OBVIOUS
<1>1. row \in [Release -> {"absent", "unfinished", "applied"}] /\ Target \in Release
    BY DEF DeployInit, Release
<1>2. snapshot \in [pending : SUBSET Release, applied : BOOLEAN, facts : 0..MaxTraffic,
                     cases : 0..MaxTraffic]
    BY DeploymentAssumption DEF DeployInit, Unseen
<1>3. marker \in {"absent", "open", "closed"} /\ (Hardened <=> marker # "absent")
    BY DEF DeployInit
<1>4. stage \in {Stages[i] : i \in DOMAIN Stages}
    BY StageNames DEF DeployInit
<1>5. facts \in 0..MaxTraffic /\ cases \in 0..MaxTraffic /\ failures \in 0..MaxFailures
    BY DeploymentAssumption DEF DeployInit
<1>6. /\ usable = {m \in Release : row[m] = "applied"} /\ serving = "old" /\ approved = FALSE
      /\ prisma = [alive |-> FALSE, admitted |-> {}]
    BY DEF DeployInit
<1>7. prisma \in [alive : BOOLEAN, admitted : SUBSET Release]
    BY <1>6
<1>8. DeployTypeOK
    BY <1>5, <1>6, <1>7, <1>1, <1>2, <1>3, <1>4 DEF DeployTypeOK
<1> QED
    BY <1>8 DEF DeployInit, DeployIInv, FailuresLeft, Reviewed, StagesPassed, ServesPrepared

\* A deployment starts where none runs and the old release serves.
LEMMA StartStep ==
    ASSUME DeployIInv, NEW approval \in BOOLEAN, StartDeployment(approval) PROVE DeployIInv'
<1> USE DEF DeployIInv, StartDeployment
<1>1. DeployTypeOK'
    BY StageNames, StageOrder, DeploymentAssumption DEF DeployTypeOK, Unseen, Hardened
<1>2. FailuresLeft'
    BY DEF FailuresLeft
<1> QED
    BY <1>1, <1>2, StageOrder DEF Reviewed, StagesPassed, ServesPrepared, Unapplied

\* The preflights: the second one has seen a sound ledger, so what is not applied is pending.
LEMMA PreflightStep == ASSUME DeployIInv, Preflight PROVE DeployIInv'
<1> USE DEF DeployIInv, Preflight, Passes
<1>1. stage \in {"initial", "repeat"} /\ stage' = After(stage) /\ snapshot' \in {snapshot, Seen}
    OBVIOUS
<1>2. stage' \in {"repeat", "apply"} /\ (stage' = "apply" => Sound /\ snapshot' = Seen)
    BY StageOrder DEF Stable, LedgerAdmits
<1>3. Seen \in [pending : SUBSET Release, applied : BOOLEAN, facts : 0..MaxTraffic,
                cases : 0..MaxTraffic]
    BY DEF Seen, Pending, Hardened, FinancialDigest, CaseCounts, DeployTypeOK
<1>4. DeployTypeOK'
    BY <1>1, <1>2, <1>3, StageNames DEF DeployTypeOK, Hardened
<1>5. FailuresLeft'
    BY <1>1 DEF FailuresLeft
<1>6. Reviewed'
    <2>1. stage' = "apply" => Unapplied' \subseteq snapshot'.pending
        BY <1>2 DEF Unapplied, Sound, Seen, Pending, DeployTypeOK
    <2> QED
        BY <2>1 DEF Reviewed, Unapplied
<1> QED
    BY <1>2, <1>4, <1>5, <1>6 DEF StagesPassed, ServesPrepared, DeployTypeOK

\* A prisma process is started for what the snapshot holds.
LEMMA ApplyStep == ASSUME DeployIInv, Apply PROVE DeployIInv'
<1> USE DEF DeployIInv, Apply, Passes
<1>1. stage = "apply" /\ stage' = "wait"
    BY StageOrder
<1>2. \/ prisma' = prisma
      \/ prisma' = [alive |-> TRUE, admitted |-> snapshot.pending]
    OBVIOUS
<1>3. DeployTypeOK'
    <2>1. prisma' \in [alive : BOOLEAN, admitted : SUBSET Release]
        <3>1. prisma \in [alive : BOOLEAN, admitted : SUBSET Release]
            BY DEF DeployTypeOK
        <3>2. snapshot.pending \subseteq Release
            BY DEF DeployTypeOK
        <3>3. [alive |-> TRUE, admitted |-> snapshot.pending]
                  \in [alive : BOOLEAN, admitted : SUBSET Release]
            BY <3>2, Zenon
        <3> QED
            BY <1>2, <3>1, <3>3, Zenon
    <2> QED
        BY <1>1, <2>1, StageNames DEF DeployTypeOK, Hardened
<1>4. Reviewed'
    BY <1>1, <1>2 DEF Reviewed, Unapplied
<1> QED
    BY <1>1, <1>3, <1>4 DEF FailuresLeft, StagesPassed, ServesPrepared, DeployTypeOK

\* Checks that pass: the stages in between change nothing but the stage.
LEMMA CheckStep ==
    ASSUME DeployIInv, PrismaEnded \/ Postflight \/ GuardVerified \/ RoleVerified
    PROVE  DeployIInv'
<1> USE DEF DeployIInv, Passes
<1>1. /\ <<stage, stage'>> \in {<<"wait", "postflight">>, <<"postflight", "revoke">>,
                                <<"guard", "grant">>, <<"verify", "restart">>}
      /\ stage = "verify" => RoleReady
      /\ UNCHANGED <<row, facts, cases, marker, usable, serving, approved, snapshot, prisma,
                     failures>>
    BY StageOrder DEF PrismaEnded, Postflight, GuardVerified, RoleVerified
<1>2. DeployTypeOK'
    BY <1>1, StageNames DEF DeployTypeOK, Hardened
<1>3. Reviewed' /\ FailuresLeft'
    BY <1>1 DEF Reviewed, FailuresLeft, Unapplied
<1>4. StagesPassed'
    BY <1>1 DEF StagesPassed, RoleReady
<1> QED
    BY <1>1, <1>2, <1>3, <1>4 DEF ServesPrepared

\* The rights of the runtime role.
LEMMA RightsStep == ASSUME DeployIInv, RevokeMarkers \/ GrantUse PROVE DeployIInv'
<1> USE DEF DeployIInv, Passes
<1>1. CASE RevokeMarkers
    <2>1. stage = "revoke" /\ stage' = "guard" /\ marker' = "closed" /\ Hardened
        BY <1>1, StageOrder DEF RevokeMarkers
    <2>2. DeployTypeOK'
        BY <1>1, <2>1, StageNames DEF RevokeMarkers, DeployTypeOK, Hardened
    <2> QED
        BY <1>1, <2>1, <2>2 DEF RevokeMarkers, Reviewed, FailuresLeft, Unapplied, StagesPassed,
           ServesPrepared, DeployTypeOK
<1>2. CASE GrantUse
    <2>1. stage = "grant" /\ stage' = "verify"
        BY <1>2, StageOrder DEF GrantUse
    <2>2. DeployTypeOK'
        BY <1>2, <2>1, StageNames DEF GrantUse, DeployTypeOK, Hardened
    <2> QED
        BY <1>2, <2>1, <2>2 DEF GrantUse, Reviewed, FailuresLeft, Unapplied, StagesPassed,
           ServesPrepared, DeployTypeOK
<1> QED BY <1>1, <1>2

\* The restart comes after the role was verified.
LEMMA RestartStep == ASSUME DeployIInv, Restart PROVE DeployIInv'
<1> USE DEF DeployIInv, Restart, Passes
<1>1. stage = "restart" /\ stage' = "idle"
    BY StageOrder
<1>2. DeployTypeOK'
    BY <1>1, StageNames DEF DeployTypeOK, Hardened
<1>3. ServesPrepared'
    BY <1>1 DEF StagesPassed, ServesPrepared, DeployTypeOK
<1> QED
    BY <1>1, <1>2, <1>3 DEF Reviewed, FailuresLeft, Unapplied, StagesPassed

\* A deployment that fails leaves what it did.
LEMMA FailStep == ASSUME DeployIInv, Fail PROVE DeployIInv'
<1> USE DEF DeployIInv, Fail
<1>1. DeployTypeOK'
    BY StageNames, DeploymentAssumption DEF DeployTypeOK, Hardened, FailuresLeft
<1> QED
    BY <1>1 DEF Reviewed, FailuresLeft, Unapplied, StagesPassed, ServesPrepared, DeployTypeOK

-----------------------------------------------------------------------------
(* prisma, the operator and the application                                 *)

\* prisma takes a migration that is pending: none of the applied ones is touched.
LEMMA BeginStep == ASSUME DeployIInv, BeginMigration PROVE DeployIInv'
<1> USE DEF DeployIInv, BeginMigration
<1> PICK m \in Release : row[m] = "absent" /\ row' = [row EXCEPT ![m] = "unfinished"]
    BY DEF Pending
<1>1. DeployTypeOK'
    BY StageNames DEF DeployTypeOK, Hardened
<1>2. Unapplied' = Unapplied
    BY DEF Unapplied, DeployTypeOK
<1>3. ServesPrepared'
    BY DEF ServesPrepared
<1> QED
    BY <1>1, <1>2, <1>3 DEF Reviewed, FailuresLeft, StagesPassed

\* Only the target touches the markers, and it is finished once, before they are closed.
LEMMA FinishStep ==
    ASSUME DeployIInv, NEW m \in Release, FinishMigration(m) PROVE DeployIInv'
<1> USE DEF DeployIInv, FinishMigration
<1>1. DeployTypeOK'
    BY StageNames DEF DeployTypeOK, Hardened, Release
<1>2. Unapplied' \subseteq Unapplied
    BY DEF Unapplied, DeployTypeOK
<1>3. marker = "closed" => marker' = "closed"
    BY DEF DeployTypeOK, Hardened
<1>4. ServesPrepared'
    BY <1>3 DEF ServesPrepared
<1>5. Reviewed'
    BY <1>2 DEF Reviewed
<1>6. StagesPassed'
    BY <1>3 DEF StagesPassed
<1> QED
    BY <1>1, <1>4, <1>5, <1>6 DEF FailuresLeft

\* A failed migration is pending again.
LEMMA ResolveStep ==
    ASSUME DeployIInv, NEW m \in Release, ResolveFailed(m) PROVE DeployIInv'
<1> USE DEF DeployIInv, ResolveFailed
<1>1. DeployTypeOK'
    BY StageNames DEF DeployTypeOK, Hardened
<1>2. Unapplied' = Unapplied
    BY DEF Unapplied, DeployTypeOK
<1>3. ServesPrepared'
    BY DEF ServesPrepared
<1> QED
    BY <1>1, <1>2, <1>3 DEF Reviewed, FailuresLeft, StagesPassed

\* The process ends, or the application writes: no migration moves.
LEMMA OutsideStep == ASSUME DeployIInv, PrismaStops \/ Traffic PROVE DeployIInv'
<1> USE DEF DeployIInv, PrismaStops, Traffic
<1>1. DeployTypeOK'
    <2>1. prisma' \in [alive : BOOLEAN, admitted : SUBSET Release]
        BY DEF DeployTypeOK
    <2>2. facts' \in 0..MaxTraffic /\ cases' \in 0..MaxTraffic
        BY DeploymentAssumption DEF DeployTypeOK
    <2> QED
        BY <2>1, <2>2 DEF DeployTypeOK, Hardened
<1>2. Reviewed'
    BY DEF Reviewed, Unapplied, DeployTypeOK
<1> QED
    BY <1>1, <1>2 DEF FailuresLeft, StagesPassed, ServesPrepared

-----------------------------------------------------------------------------
(* The theorems                                                             *)

\* Every step keeps the invariant.
LEMMA DeployStep == DeployIInv /\ [DeployNext]_deployVars => DeployIInv'
<1> SUFFICES ASSUME DeployIInv, [DeployNext]_deployVars PROVE DeployIInv'
    OBVIOUS
<1>1. CASE \E approval \in BOOLEAN : StartDeployment(approval)
    BY <1>1, StartStep
<1>2. CASE Preflight
    BY <1>2, PreflightStep
<1>3. CASE Apply
    BY <1>3, ApplyStep
<1>4. CASE PrismaEnded \/ Postflight \/ GuardVerified \/ RoleVerified
    BY <1>4, CheckStep
<1>5. CASE RevokeMarkers \/ GrantUse
    BY <1>5, RightsStep
<1>6. CASE Restart
    BY <1>6, RestartStep
<1>7. CASE Fail
    BY <1>7, FailStep
<1>8. CASE BeginMigration
    BY <1>8, BeginStep
<1>9. CASE PrismaStops \/ Traffic
    BY <1>9, OutsideStep
<1>10. CASE \E m \in Release : FinishMigration(m) \/ ResolveFailed(m)
    BY <1>10, FinishStep, ResolveStep
<1>11. CASE UNCHANGED deployVars
    BY <1>11 DEF deployVars, DeployIInv, DeployTypeOK, Hardened, FailuresLeft, Reviewed, Unapplied,
       StagesPassed, ServesPrepared
<1> QED
    BY <1>1, <1>2, <1>3, <1>4, <1>5, <1>6, <1>7, <1>8, <1>9, <1>10, <1>11 DEF DeployNext

\* Types and stages of a deployment, what it has reviewed and what it has made sure of.
THEOREM DeployInvariant == DeploySpec => []DeployIInv
BY DeployInitInvariant, DeployStep, PTL DEF DeploySpec

\* The release that serves is prepared for the database it finds: every migration is
\* applied, the markers are closed to it and every table is its to use, however many
\* deployments stopped half way before (run, deploy-production.yml).
THEOREM ReleaseSafeHolds == DeploySpec => []ReleaseSafe
<1>1. DeployIInv => ReleaseSafe
    BY DEF DeployIInv, ReleaseSafe
<1> QED BY DeployInvariant, <1>1, PTL

\* What prisma applies, the preflight that admitted it has seen as pending, also when the
\* process outlives its deployment and another one runs (assertMigrationLedgerState).
THEOREM AppliesWhatWasAdmittedHolds == DeploySpec => AppliesWhatWasAdmitted
<1> DEFINE Admitted == \A m \in Release : row[m] # "applied" /\ row'[m] = "applied" =>
                           m \in prisma.admitted
<1>1. ASSUME DeployIInv, DeployNext PROVE Admitted
    <2> SUFFICES ASSUME NEW m \in Release, row[m] # "applied", row'[m] = "applied"
                 PROVE  m \in prisma.admitted
        OBVIOUS
    <2>1. \E n \in Release : FinishMigration(n)
        BY <1>1 DEF DeployNext, StartDeployment, Preflight, Apply, PrismaEnded, Postflight,
           RevokeMarkers, GuardVerified, GrantUse, RoleVerified, Restart, Fail, BeginMigration,
           PrismaStops, Traffic, ResolveFailed, DeployIInv, DeployTypeOK, Pending
    <2>2. prisma.alive
        BY <2>1 DEF FinishMigration
    <2> QED
        BY <1>1, <2>2 DEF DeployIInv, Reviewed, Unapplied
<1>2. DeployIInv /\ [DeployNext]_deployVars => [Admitted]_deployVars
    BY <1>1
<1> QED BY DeployInvariant, <1>2, PTL DEF DeploySpec, AppliesWhatWasAdmitted

-----------------------------------------------------------------------------
(* Accounts: the inductive invariant                                        *)

UserRecord ==
    [role : {"none", "student", "admin"}, active : BOOLEAN, uid : Uids \cup {"none"},
     by : Flows \cup Uids \cup {"none", "seed"}]

IdentityRecord ==
    [status : {"none", "pending", "linked"}, mail : Emails \cup {"none"},
     user : Emails \cup {"none"}]

Known == {"identified", "creating", "updating", "resolved", "ticket", "exchanging", "issuing",
          "exchanged", "onboarding", "completing", "done"}

Steps == Known \cup {"none", "started", "called", "stopped"}

\* The steps of a flow that leads to a session, and of one that leads to an onboarding.
Exchanging == {"exchanging", "issuing"}
Onboarding == {"creating", "updating", "exchanged", "onboarding", "completing"}

FlowRecord ==
    [step : Steps, mode : {"login", "register"}, identity : Identities \cup {"none"},
     mail : Emails \cup {"none"}, kind : {"none", "session", "onboarding"},
     user : Emails \cup {"none"}, opens : {0, 1}]

\* What the step of a flow says of its keys in the store, of what it knows and of what
\* it has opened.  Only a login is resolved to a session.
FlowFacts == \A f \in Flows :
    /\ <<f, "state">> \in store => flow[f].step = "started"
    /\ <<f, "ticket">> \in store => flow[f].step \in {"ticket", "onboarding"}
    /\ flow[f].step # "done" => flow[f].opens = 0
    /\ flow[f].step \in Known => flow[f].identity \in Identities
    /\ flow[f].step \in {"none", "started", "called", "identified"} => flow[f].kind = "none"
    /\ flow[f].step \in Onboarding => flow[f].kind = "onboarding"
    /\ flow[f].step \in Exchanging => flow[f].kind = "session"
    /\ flow[f].step = "completing" => flow[f].user \in Emails
    /\ flow[f].kind = "session" => flow[f].mode = "login"

\* The account was created by a completion for the identity.
Owned(e, i) ==
    e \in Emails /\ \E g \in Flows :
        user[e].by = g /\ flow[g].identity = i /\ flow[g].step = "done"

\* Whoever an identity is linked to, resolved to or has a session of is its own account.
Ownership ==
    /\ \A i \in Identities : external[i].user # "none" => Owned(external[i].user, i)
    /\ \A f \in Flows : flow[f].kind = "session" => Owned(flow[f].user, flow[f].identity)
    /\ \A e \in Emails, i \in Identities : <<e, i>> \in opened => Owned(e, i)
    /\ \A f \in Flows : flow[f].mode = "register" /\ flow[f].opens > 0 =>
           flow[f].user \in Emails /\ user[flow[f].user].by = f

AccountsIInv ==
    /\ AccountsTypeOK /\ flow \in [Flows -> FlowRecord]
    /\ FlowFacts /\ Ownership /\ LastAdminKept

\* An account stays its identity's: nobody writes who created it, and a flow that has
\* ended stays as it is.
LEMMA OwnedKept ==
    ASSUME \A e \in Emails : user[e].by \in Flows => user'[e].by = user[e].by,
           \A g \in Flows : flow[g].step = "done" =>
               flow'[g].step = "done" /\ flow'[g].identity = flow[g].identity
    PROVE  \A e, i : Owned(e, i) => Owned(e, i)'
BY DEF Owned

\* Two administrators and nothing else.
LEMMA AccountsInitInvariant == AccountsInit => AccountsIInv
<1> SUFFICES ASSUME AccountsInit PROVE AccountsIInv
    OBVIOUS
<1>1. /\ flow = [f \in Flows |-> NoFlow] /\ external = [i \in Identities |-> NoIdentity]
      /\ fresh = {} /\ store = {} /\ opened = {} /\ signing = {} /\ admitted = {}
      /\ user \in [Emails -> {NoUser, [role |-> "admin", active |-> TRUE, uid |-> "none",
                                       by |-> "seed"]}]
    BY DEF AccountsInit
<1>2. AccountsTypeOK
    <2>1. NoUser \in UserRecord
        BY DEF NoUser, UserRecord
    <2>2. [role |-> "admin", active |-> TRUE, uid |-> "none", by |-> "seed"] \in UserRecord
        BY DEF UserRecord
    <2>3. user \in [Emails -> UserRecord]
        BY <1>1, <2>1, <2>2
    <2>4. external \in [Identities -> [status : {"none", "pending", "linked"},
                                      mail : Emails \cup {"none"}, user : Emails \cup {"none"}]]
        BY <1>1 DEF NoIdentity
    <2> QED
        BY <1>1, <2>3, <2>4 DEF AccountsTypeOK, UserRecord
<1>3. flow \in [Flows -> FlowRecord] /\ FlowFacts
    BY <1>1 DEF FlowRecord, NoFlow, Steps, Known, Exchanging, Onboarding, FlowFacts
<1>4. Ownership
    BY <1>1 DEF Ownership, NoFlow, NoIdentity
<1>6. LastAdminKept
    <2>1. {e \in Emails : user[e] # NoUser} # {}
        BY FS_EmptySet DEF AccountsInit
    <2> QED
        BY <1>1, <2>1 DEF LastAdminKept
<1> QED BY <1>2, <1>3, <1>4, <1>6 DEF AccountsIInv

-----------------------------------------------------------------------------
(* Steps of users and administrators                                        *)

\* A user row changes, nobody's creator does, and the flows stay as they are.
LEMMA UserRowChanges ==
    ASSUME AccountsIInv, NEW e \in Emails, NEW entry \in UserRecord,
           user' = [user EXCEPT ![e] = entry],
           user[e].by \in Flows => entry.by = user[e].by,
           LastAdminKept', signing' \subseteq signing,
           opened' \subseteq Emails \X (Uids \cup Identities),
           \A i \in Identities : \A d \in Emails : <<d, i>> \in opened' => <<d, i>> \in opened,
           admitted' \subseteq Emails,
           UNCHANGED <<external, fresh, flow, store>>
    PROVE  AccountsIInv'
<1>1. AccountsTypeOK'
    BY DEF AccountsIInv, AccountsTypeOK, UserRecord
<1>2. \A d \in Emails : user[d].by \in Flows => user'[d].by = user[d].by
    BY DEF AccountsIInv, AccountsTypeOK
<1>3. \A d, i : Owned(d, i) => Owned(d, i)'
    BY <1>2, OwnedKept
<1>4. Ownership'
    BY <1>2, <1>3 DEF AccountsIInv, Ownership
<1> QED
    BY <1>1, <1>4 DEF AccountsIInv, FlowFacts

\* A Firebase login updates the row it has read, whatever that has become: the account
\* may get another uid, and its creator, its role and its status stay.
LEMMA FirebaseUpdatesStep ==
    ASSUME AccountsIInv, NEW r \in signing, FirebaseUpdates(r) PROVE AccountsIInv'
<1>1. r.uid \in Uids /\ r.account \in Emails /\ signing' \subseteq signing
    BY DEF AccountsIInv, AccountsTypeOK, FirebaseUpdates, FirebaseOpens
<1> PICK a \in Emails, u \in Uids : a = r.account /\ u = r.uid
    BY <1>1
<1> DEFINE entry == [user[a] EXCEPT !.uid = IF r.does = "link" THEN u ELSE user[a].uid]
<1>2. user \in [Emails -> UserRecord]
    BY DEF AccountsIInv, AccountsTypeOK, UserRecord
<1>3. /\ user' = [user EXCEPT ![a] = entry] /\ opened' = opened \cup {<<a, u>>}
      /\ UNCHANGED <<external, fresh, flow, store, admitted>>
    BY <1>2 DEF FirebaseUpdates, FirebaseOpens
<1>4. /\ entry \in UserRecord /\ entry.by = user[a].by
      /\ entry.role = user[a].role /\ entry.active = user[a].active
    BY <1>2 DEF UserRecord
<1> HIDE DEF entry
<1>5. user'[a] = entry /\ \A d \in Emails : d # a => user'[d] = user[d]
    BY <1>2, <1>3
<1>6. LastAdminKept'
    BY <1>4, <1>5 DEF AccountsIInv, LastAdminKept
<1>7. /\ opened' \subseteq Emails \X (Uids \cup Identities) /\ admitted' \subseteq Emails
      /\ \A i \in Identities, d \in Emails : <<d, i>> \in opened' => <<d, i>> \in opened
    BY <1>3, AccountsAssumption DEF AccountsIInv, AccountsTypeOK
<1> QED
    BY <1>1, <1>3, <1>4, <1>6, <1>7, UserRowChanges

\* A login that found no account makes one, where the email has none by then.
LEMMA FirebaseCreatesStep ==
    ASSUME AccountsIInv, NEW r \in signing, FirebaseCreates(r) PROVE AccountsIInv'
<1>1. r.uid \in Uids /\ r.account \in Emails /\ signing' \subseteq signing
    BY DEF AccountsIInv, AccountsTypeOK, FirebaseCreates, FirebaseOpens
<1> PICK e \in Emails, u \in Uids : e = r.account /\ u = r.uid
    BY <1>1
<1> DEFINE entry == [role |-> "student", active |-> TRUE, uid |-> u, by |-> u]
<1>2. /\ user[e] = NoUser /\ user' = [user EXCEPT ![e] = entry]
      /\ opened' = opened \cup {<<e, u>>}
      /\ UNCHANGED <<external, fresh, flow, store, admitted>>
    BY DEF FirebaseCreates, FirebaseOpens, Exists
<1>3. entry \in UserRecord
    BY DEF UserRecord
<1>4. user[e].by = "none" /\ user[e].role = "none"
    BY <1>2 DEF NoUser
<1> HIDE DEF entry
<1>5. user'[e] = entry /\ \A d \in Emails : d # e => user'[d] = user[d]
    BY <1>2 DEF AccountsIInv, AccountsTypeOK
<1>6. LastAdminKept'
    BY <1>4, <1>5 DEF AccountsIInv, LastAdminKept
<1>7. /\ opened' \subseteq Emails \X (Uids \cup Identities) /\ admitted' \subseteq Emails
      /\ \A i \in Identities, d \in Emails : <<d, i>> \in opened' => <<d, i>> \in opened
    BY <1>2, AccountsAssumption DEF AccountsIInv, AccountsTypeOK
<1> QED
    BY <1>1, <1>2, <1>3, <1>4, <1>6, <1>7, AccountsAssumption, UserRowChanges

\* An administrator suspends, restores, promotes or demotes: another one is left who can act.
LEMMA AdministrationStep ==
    ASSUME AccountsIInv, NEW a \in Emails, NEW e \in Emails,
           \/ \E active \in BOOLEAN : SetStatus(a, e, active)
           \/ \E role \in {"student", "admin"} : SetRoles(a, e, role)
    PROVE  AccountsIInv'
<1> PICK active \in BOOLEAN, role \in {"student", "admin"} :
        SetStatus(a, e, active) \/ SetRoles(a, e, role)
    OBVIOUS
<1> DEFINE entry == user'[e]
<1>1. user[e] \in UserRecord /\ user \in [Emails -> UserRecord] /\ admitted \subseteq Emails
    BY DEF AccountsIInv, AccountsTypeOK, UserRecord
<1>2. \/ user' = [user EXCEPT ![e] = [user[e] EXCEPT !.active = active]]
      \/ user' = [user EXCEPT ![e] = [user[e] EXCEPT !.role = role]]
    BY DEF SetStatus, SetRoles
<1>3. /\ [user[e] EXCEPT !.active = active] \in UserRecord
      /\ [user[e] EXCEPT !.role = role] \in UserRecord
    BY <1>1 DEF UserRecord
<1>4. /\ user' = [user EXCEPT ![e] = entry] /\ entry \in UserRecord
      /\ entry.by = user[e].by /\ entry.uid = user[e].uid
      /\ \A d \in Emails : d # e => user'[d] = user[d]
    BY <1>1, <1>2, <1>3 DEF UserRecord
<1>5. /\ admitted' \subseteq admitted /\ UNCHANGED <<external, fresh, flow, store, opened, signing>>
    BY DEF SetStatus, SetRoles
<1>6. LastAdminKept'
    <2>1. CASE \E d \in Emails \ {e} : user[d].role = "admin" /\ user[d].active
        BY <1>4, <2>1 DEF LastAdminKept
    <2>2. CASE ~\E d \in Emails \ {e} : user[d].role = "admin" /\ user[d].active
        <3>1. user[e].role = "admin" /\ user[e].active
            BY <2>2 DEF AccountsIInv, LastAdminKept
        <3>2. ~SetStatus(a, e, active)
            BY <2>2, <3>1 DEF SetStatus, AnotherActiveAdmin
        <3>3. ~SetRoles(a, e, role)
            BY <2>2, <3>1 DEF SetRoles, AnotherActiveAdmin
        <3> QED BY <3>2, <3>3
    <2> QED BY <2>1, <2>2
<1>8. opened' \subseteq Emails \X (Uids \cup Identities)
    BY <1>5 DEF AccountsIInv, AccountsTypeOK
<1> HIDE DEF entry
<1> QED
    BY <1>1, <1>4, <1>5, <1>6, <1>8, UserRowChanges

-----------------------------------------------------------------------------
(* Steps of flows                                                           *)

\* What FlowFacts says of one flow, given its keys in the store.
FlowSound(rec, stateKey, ticketKey) ==
    /\ stateKey => rec.step = "started"
    /\ ticketKey => rec.step \in {"ticket", "onboarding"}
    /\ rec.step # "done" => rec.opens = 0
    /\ rec.step \in Known => rec.identity \in Identities
    /\ rec.step \in {"none", "started", "called", "identified"} => rec.kind = "none"
    /\ rec.step \in Onboarding => rec.kind = "onboarding"
    /\ rec.step \in Exchanging => rec.kind = "session"
    /\ rec.step = "completing" => rec.user \in Emails
    /\ rec.kind = "session" => rec.mode = "login"

\* A flow that has not ended goes on, without opening anything; it may leave an identity
\* pending.
LEMMA FlowGoesOn ==
    ASSUME AccountsIInv, NEW f \in Flows, NEW rec \in FlowRecord,
           flow' = [flow EXCEPT ![f] = rec],
           flow[f].step # "done", rec.step # "done",
           FlowSound(rec, <<f, "state">> \in store', <<f, "ticket">> \in store'),
           rec.kind = "session" => Owned(rec.user, rec.identity),
           store' \subseteq Flows \X {"state", "ticket"},
           \A g \in Flows, what \in {"state", "ticket"} :
               g # f /\ <<g, what>> \in store' => <<g, what>> \in store,
           AccountsTypeOK', \A i \in Identities : external'[i].user = external[i].user,
           UNCHANGED <<user, opened, signing, admitted>>
    PROVE  AccountsIInv'
<1>1. flow'[f] = rec /\ \A g \in Flows : g # f => flow'[g] = flow[g]
    BY DEF AccountsIInv
<1>2. flow' \in [Flows -> FlowRecord]
    BY DEF AccountsIInv
<1>3. FlowFacts'
    <2> SUFFICES ASSUME NEW g \in Flows
                 PROVE  FlowSound(flow'[g], <<g, "state">> \in store', <<g, "ticket">> \in store')
        BY DEF FlowFacts, FlowSound
    <2>1. CASE g = f
        BY <1>1, <2>1
    <2>2. CASE g # f
        BY <1>1, <2>2 DEF AccountsIInv, FlowFacts, FlowSound
    <2> QED BY <2>1, <2>2
<1>4. \A g \in Flows : flow[g].step = "done" => flow'[g] = flow[g]
    BY <1>1
<1>5. Ownership'
    <2>1. rec.opens = 0
        BY DEF FlowSound
    <2>2. (\A i \in Identities : external[i].user # "none" => Owned(external[i].user, i))'
        BY <1>4 DEF AccountsIInv, Ownership, Owned
    <2>3. (\A g \in Flows : flow[g].kind = "session" => Owned(flow[g].user, flow[g].identity))'
        BY <1>1, <1>4 DEF AccountsIInv, Ownership, Owned
    <2>4. (\A e \in Emails, i \in Identities : <<e, i>> \in opened => Owned(e, i))'
        BY <1>4 DEF AccountsIInv, Ownership, Owned
    <2>5. \A g \in Flows : flow'[g].mode = "register" /\ flow'[g].opens > 0 =>
              flow'[g].user \in Emails /\ user'[flow'[g].user].by = g
        BY <1>1, <2>1 DEF AccountsIInv, Ownership
    <2> QED BY <2>2, <2>3, <2>4, <2>5 DEF Ownership
<1> QED
    BY <1>2, <1>3, <1>5 DEF AccountsIInv, LastAdminKept

\* What the invariant says of a flow.
LEMMA FlowIs ==
    ASSUME AccountsIInv, NEW f \in Flows
    PROVE  /\ flow[f] \in FlowRecord
           /\ FlowSound(flow[f], <<f, "state">> \in store, <<f, "ticket">> \in store)
           /\ store \subseteq Flows \X {"state", "ticket"}
BY DEF AccountsIInv, FlowFacts, FlowSound, AccountsTypeOK

\* A flow is started, called back, answered by its provider, or it stops.
LEMMA FlowBegins ==
    ASSUME AccountsIInv, NEW f \in Flows,
           \/ \E mode \in {"login", "register"} : OAuthStart(f, mode)
           \/ Callback(f)
           \/ \E i \in Identities, told \in Emails \cup {"none"} : ProviderAnswers(f, i, told)
           \/ FlowStops(f)
    PROVE  AccountsIInv'
<1> DEFINE rec == flow'[f]
<1>1. flow[f] \in FlowRecord /\ FlowSound(flow[f], <<f, "state">> \in store, <<f, "ticket">> \in store)
      /\ store \subseteq Flows \X {"state", "ticket"} /\ flow \in [Flows -> FlowRecord]
    BY FlowIs DEF AccountsIInv
<1>2. UNCHANGED <<user, external, fresh, opened, signing, admitted>>
    BY DEF OAuthStart, Callback, ProviderAnswers, FlowStops
<1>3. AccountsTypeOK' <=> store' \subseteq Flows \X {"state", "ticket"}
    BY <1>2 DEF AccountsIInv, AccountsTypeOK
<1>4. ASSUME NEW mode \in {"login", "register"}, OAuthStart(f, mode) PROVE AccountsIInv'
    <2> DEFINE new == [flow[f] EXCEPT !.step = "started", !.mode = mode]
    <2>1. flow' = [flow EXCEPT ![f] = new] /\ flow[f].step = "none"
          /\ store' = store \cup {<<f, "state">>}
        BY <1>1, <1>4 DEF OAuthStart
    <2>2. new \in FlowRecord /\ FlowSound(new, <<f, "state">> \in store', <<f, "ticket">> \in store')
          /\ new.kind = "none" /\ new.step = "started"
        BY <1>1, <2>1 DEF FlowRecord, FlowSound, Steps, Known, Exchanging, Onboarding
    <2> HIDE DEF new
    <2>3. /\ store' \subseteq Flows \X {"state", "ticket"}
          /\ \A g \in Flows, what \in {"state", "ticket"} :
                 g # f /\ <<g, what>> \in store' => <<g, what>> \in store
        BY <1>1, <2>1
    <2> QED BY <1>2, <1>3, <2>1, <2>2, <2>3, FlowGoesOn
<1>5. CASE Callback(f)
    <2> DEFINE new == [flow[f] EXCEPT !.step = "called"]
    <2>1. flow' = [flow EXCEPT ![f] = new] /\ <<f, "state">> \in store
          /\ store' = store \ {<<f, "state">>}
        BY <1>5 DEF Callback, Consume
    <2>2. new \in FlowRecord /\ FlowSound(new, <<f, "state">> \in store', <<f, "ticket">> \in store')
          /\ new.kind = "none" /\ flow[f].step = "started" /\ new.step = "called"
        BY <1>1, <2>1 DEF FlowRecord, FlowSound, Steps, Known, Exchanging, Onboarding
    <2> HIDE DEF new
    <2> QED BY <1>1, <1>2, <1>3, <2>1, <2>2, FlowGoesOn
<1>6. ASSUME NEW i \in Identities, NEW told \in Emails \cup {"none"}, ProviderAnswers(f, i, told)
      PROVE  AccountsIInv'
    <2> DEFINE new == [flow[f] EXCEPT !.step = "identified", !.identity = i, !.mail = told]
    <2>1. flow' = [flow EXCEPT ![f] = new] /\ flow[f].step = "called" /\ store' = store
        BY <1>1, <1>6 DEF ProviderAnswers
    <2>2. new \in FlowRecord /\ FlowSound(new, <<f, "state">> \in store', <<f, "ticket">> \in store')
          /\ new.kind = "none" /\ new.step = "identified"
        BY <1>1, <2>1 DEF FlowRecord, FlowSound, Steps, Known, Exchanging, Onboarding
    <2> HIDE DEF new
    <2> QED BY <1>1, <1>2, <1>3, <2>1, <2>2, FlowGoesOn
<1>7. CASE FlowStops(f)
    <2> DEFINE new == [flow[f] EXCEPT !.step = "stopped"]
    <2>1. flow' = [flow EXCEPT ![f] = new] /\ store' = store
          /\ flow[f].step \notin {"none", "started", "ticket", "onboarding", "done"}
        BY <1>7 DEF FlowStops
    <2>2. new \in FlowRecord /\ FlowSound(new, <<f, "state">> \in store', <<f, "ticket">> \in store')
          /\ new.kind = flow[f].kind /\ new.user = flow[f].user /\ new.identity = flow[f].identity
          /\ new.step = "stopped"
        BY <1>1, <2>1 DEF FlowRecord, FlowSound, Steps, Known, Exchanging, Onboarding
    <2> HIDE DEF new
    <2>3. new.kind = "session" => Owned(new.user, new.identity)
        BY <2>2 DEF AccountsIInv, Ownership
    <2> QED BY <1>1, <1>2, <1>3, <2>1, <2>2, <2>3, FlowGoesOn
<1> QED BY <1>4, <1>5, <1>6, <1>7

\* A ticket is put for what was resolved, or for the onboarding.
LEMMA PutTicketStep == ASSUME AccountsIInv, NEW f \in Flows, PutTicket(f) PROVE AccountsIInv'
<1> DEFINE new == [flow[f] EXCEPT !.step = IF flow[f].step = "resolved" THEN "ticket"
                                           ELSE "onboarding"]
<1>1. flow[f] \in FlowRecord /\ FlowSound(flow[f], <<f, "state">> \in store, <<f, "ticket">> \in store)
      /\ store \subseteq Flows \X {"state", "ticket"}
    BY FlowIs
<1>2. /\ flow[f].step \in {"resolved", "exchanged"} /\ flow' = [flow EXCEPT ![f] = new]
      /\ store' = store \cup {<<f, "ticket">>}
      /\ UNCHANGED <<user, external, fresh, opened, signing, admitted>>
    BY DEF PutTicket
<1>3. new \in FlowRecord /\ FlowSound(new, <<f, "state">> \in store', <<f, "ticket">> \in store')
      /\ new.kind = flow[f].kind /\ new.user = flow[f].user /\ new.identity = flow[f].identity
      /\ new.step # "done"
    BY <1>1, <1>2 DEF FlowRecord, FlowSound, Steps, Known, Exchanging, Onboarding
<1> HIDE DEF new
<1>4. new.kind = "session" => Owned(new.user, new.identity)
    BY <1>3 DEF AccountsIInv, Ownership
<1>5. /\ store' \subseteq Flows \X {"state", "ticket"}
      /\ \A g \in Flows, what \in {"state", "ticket"} :
             g # f /\ <<g, what>> \in store' => <<g, what>> \in store
    BY <1>1, <1>2
<1>6. AccountsTypeOK'
    BY <1>2, <1>5 DEF AccountsIInv, AccountsTypeOK
<1> QED BY <1>2, <1>3, <1>4, <1>5, <1>6, FlowGoesOn

\* A login is resolved to the account of its identity; a first-time identity is to be
\* written down, and whoever has its email is not asked.
LEMMA ResolveReadsStep == ASSUME AccountsIInv, NEW f \in Flows, ResolveReads(f) PROVE AccountsIInv'
<1> DEFINE i == flow[f].identity
<1>1. flow[f] \in FlowRecord /\ FlowSound(flow[f], <<f, "state">> \in store, <<f, "ticket">> \in store)
      /\ store \subseteq Flows \X {"state", "ticket"}
    BY FlowIs
<1>2. /\ flow[f].step = "identified"
      /\ UNCHANGED <<user, external, fresh, store, opened, signing, admitted>>
    BY DEF ResolveReads
<1>3. i \in Identities
    BY <1>1, <1>2 DEF FlowSound, Known
<1>4. AccountsTypeOK'
    BY <1>2 DEF AccountsIInv, AccountsTypeOK
<1>5. CASE /\ Registered(f)
           /\ flow' = [flow EXCEPT ![f].step = "resolved", ![f].kind = "session",
                                   ![f].user = AccountOf(f)]
    <2> DEFINE new == [flow[f] EXCEPT !.step = "resolved", !.kind = "session",
                                      !.user = external[i].user]
    <2>1. flow' = [flow EXCEPT ![f] = new]
        BY <1>5 DEF AccountsIInv, AccountOf
    <2>2. external[i].user # "none" /\ flow[f].mode = "login"
        BY <1>5 DEF Registered, AccountOf
    <2>3. Owned(external[i].user, i) /\ external[i].user \in Emails
        BY <1>3, <2>2 DEF AccountsIInv, Ownership, Owned
    <2>4. new \in FlowRecord /\ FlowSound(new, <<f, "state">> \in store', <<f, "ticket">> \in store')
          /\ new.user = external[i].user /\ new.identity = i /\ new.step = "resolved"
        BY <1>1, <1>2, <1>3, <2>2, <2>3 DEF FlowRecord, FlowSound, Steps, Known, Exchanging, Onboarding
    <2> HIDE DEF new, i
    <2> QED BY <1>1, <1>2, <1>4, <2>1, <2>3, <2>4, FlowGoesOn
<1>6. ASSUME NEW next \in {"creating", "updating"},
             flow' = [flow EXCEPT ![f].kind = "onboarding", ![f].step = next]
      PROVE  AccountsIInv'
    <2> DEFINE new == [flow[f] EXCEPT !.kind = "onboarding", !.step = next]
    <2>1. flow' = [flow EXCEPT ![f] = new]
        BY <1>6 DEF AccountsIInv
    <2>2. new \in FlowRecord /\ FlowSound(new, <<f, "state">> \in store', <<f, "ticket">> \in store')
          /\ new.kind = "onboarding" /\ new.step = next
        BY <1>1, <1>2, <1>3 DEF FlowRecord, FlowSound, Steps, Known, Exchanging, Onboarding
    <2> HIDE DEF new, i
    <2> QED BY <1>1, <1>2, <1>4, <2>1, <2>2, FlowGoesOn
<1> QED BY <1>5, <1>6 DEF ResolveReads

\* The identity is written down, or renewed: whose it is stays as it is by then.
LEMMA ResolveWritesStep == ASSUME AccountsIInv, NEW f \in Flows, ResolveWrites(f) PROVE AccountsIInv'
<1>1. flow[f] \in FlowRecord /\ FlowSound(flow[f], <<f, "state">> \in store, <<f, "ticket">> \in store)
      /\ store \subseteq Flows \X {"state", "ticket"}
    BY FlowIs
<1>2. /\ flow[f].step \in {"creating", "updating"} /\ flow[f].kind = "onboarding"
      /\ UNCHANGED <<user, store, opened, signing, admitted>>
    BY <1>1 DEF ResolveWrites, FlowSound, Onboarding
<1>3. flow[f].identity \in Identities /\ flow[f].mail \in Emails \cup {"none"}
    BY <1>1, <1>2 DEF FlowSound, Known, FlowRecord
<1> PICK i \in Identities : i = flow[f].identity
    BY <1>3
<1> DEFINE new == [flow[f] EXCEPT !.step = "resolved"]
           renewed == [external[i] EXCEPT !.mail = flow[f].mail,
                     !.status = IF external[i].status = "none" THEN "pending" ELSE external[i].status]
<1>4. external \in [Identities -> IdentityRecord] /\ fresh \subseteq {j \in Identities : external[j].status # "none"}
    BY DEF AccountsIInv, AccountsTypeOK, IdentityRecord
<1>5. external' = [external EXCEPT ![i] = renewed] /\ fresh' = fresh \cup {i}
    BY <1>4 DEF ResolveWrites
<1>6. renewed \in IdentityRecord /\ renewed.status # "none" /\ renewed.user = external[i].user
    <2>1. external[i] \in IdentityRecord
        BY <1>4
    <2>2. CASE external[i].status = "none"
        BY <1>3, <2>1, <2>2 DEF IdentityRecord
    <2>3. CASE external[i].status # "none"
        BY <1>3, <2>1, <2>3 DEF IdentityRecord
    <2> QED BY <2>2, <2>3
<1>7. flow' = [flow EXCEPT ![f] = new]
    BY DEF ResolveWrites, AccountsIInv
<1>8. new \in FlowRecord /\ FlowSound(new, <<f, "state">> \in store', <<f, "ticket">> \in store')
      /\ new.kind = "onboarding" /\ new.step = "resolved"
    BY <1>1, <1>2, <1>3 DEF FlowRecord, FlowSound, Steps, Known, Exchanging, Onboarding
<1> HIDE DEF new, renewed
<1>9. /\ external' \in [Identities -> IdentityRecord] /\ external'[i] = renewed
      /\ \A j \in Identities : j # i => external'[j] = external[j]
    BY <1>4, <1>5, <1>6
<1>10. fresh' \subseteq {j \in Identities : external'[j].status # "none"}
    BY <1>4, <1>5, <1>6, <1>9
<1>11. AccountsTypeOK'
    BY <1>2, <1>9, <1>10 DEF AccountsIInv, AccountsTypeOK, IdentityRecord
<1>12. \A j \in Identities : external'[j].user = external[j].user
    BY <1>6, <1>9
<1> QED BY <1>1, <1>2, <1>7, <1>8, <1>11, <1>12, FlowGoesOn

\* The ticket of an onboarding is exchanged, and then used for a completion that reads.
LEMMA OnboardingStep ==
    ASSUME AccountsIInv, NEW f \in Flows,
           ExchangeOnboarding(f) \/ \E e \in Emails : CompletionReads(f, e)
    PROVE  AccountsIInv'
<1>1. flow[f] \in FlowRecord /\ FlowSound(flow[f], <<f, "state">> \in store, <<f, "ticket">> \in store)
      /\ store \subseteq Flows \X {"state", "ticket"}
    BY FlowIs
<1>2. /\ store' = store \ {<<f, "ticket">>} /\ UNCHANGED <<user, external, fresh, opened, signing, admitted>>
    BY DEF ExchangeOnboarding, CompletionReads, Consume
<1>3. AccountsTypeOK'
    BY <1>2 DEF AccountsIInv, AccountsTypeOK
<1>4. CASE ExchangeOnboarding(f)
    <2> DEFINE new == [flow[f] EXCEPT !.step = "exchanged"]
    <2>1. flow' = [flow EXCEPT ![f] = new] /\ flow[f].kind = "onboarding" /\ flow[f].step = "ticket"
        BY <1>4 DEF ExchangeOnboarding
    <2>2. new \in FlowRecord /\ FlowSound(new, <<f, "state">> \in store', <<f, "ticket">> \in store')
          /\ new.kind = "onboarding" /\ new.step = "exchanged"
        BY <1>1, <1>2, <2>1 DEF FlowRecord, FlowSound, Steps, Known, Exchanging, Onboarding
    <2> HIDE DEF new
    <2> QED BY <1>1, <1>2, <1>3, <2>1, <2>2, FlowGoesOn
<1>5. ASSUME NEW e \in Emails, CompletionReads(f, e) PROVE AccountsIInv'
    <2> DEFINE new == [flow[f] EXCEPT !.step = "completing", !.user = e]
    <2>1. flow' = [flow EXCEPT ![f] = new] /\ flow[f].step = "onboarding"
        BY <1>5 DEF CompletionReads, AccountsIInv
    <2>2. new \in FlowRecord /\ FlowSound(new, <<f, "state">> \in store', <<f, "ticket">> \in store')
          /\ new.kind = "onboarding" /\ new.step = "completing"
        BY <1>1, <1>2, <2>1 DEF FlowRecord, FlowSound, Steps, Known, Exchanging, Onboarding
    <2> HIDE DEF new
    <2> QED BY <1>1, <1>2, <1>3, <2>1, <2>2, FlowGoesOn
<1> QED BY <1>4, <1>5

\* A flow ends in a session of an account that is its identity's own.
LEMMA FlowEnds ==
    ASSUME AccountsIInv, NEW f \in Flows, NEW e \in Emails, NEW i \in Identities,
           NEW rec \in FlowRecord, flow' = [flow EXCEPT ![f] = rec], flow[f].step # "done",
           rec.step = "done", rec.user = e, rec.identity = i,
           rec.kind = "session" => rec.mode = "login",
           rec.mode = "register" => user'[e].by = f,
           \E g \in Flows : user'[e].by = g /\ flow'[g].identity = i /\ flow'[g].step = "done",
           \A d \in Emails : user[d].by \in Flows => user'[d].by = user[d].by,
           \A j \in Identities :
               external'[j].user = external[j].user \/ (j = i /\ external'[j].user = e),
           opened' = opened \cup {<<e, i>>}, store' = store \ {<<f, "ticket">>},
           <<f, "state">> \notin store,
           AccountsTypeOK', LastAdminKept'
    PROVE  AccountsIInv'
<1>1. /\ flow'[f] = rec /\ \A g \in Flows : g # f => flow'[g] = flow[g]
      /\ flow' \in [Flows -> FlowRecord]
    BY DEF AccountsIInv
<1>2. FlowFacts'
    <2> SUFFICES ASSUME NEW g \in Flows
                 PROVE  FlowSound(flow'[g], <<g, "state">> \in store', <<g, "ticket">> \in store')
        BY DEF FlowFacts, FlowSound
    <2>1. CASE g = f
        BY <1>1, <2>1 DEF FlowSound, Known, Exchanging, Onboarding
    <2>2. CASE g # f
        BY <1>1, <2>2 DEF AccountsIInv, FlowFacts, FlowSound
    <2> QED BY <2>1, <2>2
<1>3. Owned(e, i)'
    BY DEF Owned
<1>4. \A d, j : Owned(d, j) => Owned(d, j)'
    BY <1>1, OwnedKept
<1>5. (\A j \in Identities : external[j].user # "none" => Owned(external[j].user, j))'
    <2> SUFFICES ASSUME NEW j \in Identities, NEW d, d = external'[j].user, d # "none"
                 PROVE  Owned(d, j)'
        BY DEF Owned
    <2>1. CASE d = external[j].user
        BY <1>4, <2>1 DEF AccountsIInv, Ownership
    <2>2. CASE j = i /\ d = e
        BY <1>3, <2>2
    <2> QED BY <2>1, <2>2
<1>6. (\A g \in Flows : flow[g].kind = "session" => Owned(flow[g].user, flow[g].identity))'
    <2> SUFFICES ASSUME NEW g \in Flows, NEW d, NEW j, d = flow'[g].user, j = flow'[g].identity,
                        flow'[g].kind = "session"
                 PROVE  Owned(d, j)'
        BY DEF Owned
    <2>1. CASE g = f
        BY <1>1, <1>3, <2>1
    <2>2. CASE g # f
        BY <1>1, <1>4, <2>2 DEF AccountsIInv, Ownership
    <2> QED BY <2>1, <2>2
<1>7. (\A d \in Emails, j \in Identities : <<d, j>> \in opened => Owned(d, j))'
    <2> SUFFICES ASSUME NEW d \in Emails, NEW j \in Identities, <<d, j>> \in opened'
                 PROVE  Owned(d, j)'
        OBVIOUS
    <2>1. CASE <<d, j>> \in opened
        BY <1>4, <2>1 DEF AccountsIInv, Ownership
    <2>2. CASE d = e /\ j = i
        BY <1>3, <2>2
    <2> QED BY <2>1, <2>2
<1>8. \A g \in Flows : flow'[g].mode = "register" /\ flow'[g].opens > 0 =>
          flow'[g].user \in Emails /\ user'[flow'[g].user].by = g
    BY <1>1 DEF AccountsIInv, Ownership
<1> QED
    BY <1>1, <1>2, <1>5, <1>6, <1>7, <1>8 DEF AccountsIInv, Ownership

\* A ticket is consumed, and its account is read again.
LEMMA ExchangeStep ==
    ASSUME AccountsIInv, NEW f \in Flows, ExchangeSession(f) \/ ExchangeReads(f) PROVE AccountsIInv'
<1>1. flow[f] \in FlowRecord /\ FlowSound(flow[f], <<f, "state">> \in store, <<f, "ticket">> \in store)
      /\ store \subseteq Flows \X {"state", "ticket"}
    BY FlowIs
<1>2. PICK next \in {"exchanging", "issuing"} :
          /\ flow' = [flow EXCEPT ![f].step = next]
          /\ flow[f].kind = "session" /\ store' = store \ {<<f, "ticket">>}
          /\ UNCHANGED <<user, external, fresh, opened, signing, admitted>>
    BY <1>1 DEF ExchangeSession, ExchangeReads, Consume, FlowSound, Exchanging
<1>3. flow[f].step \in {"ticket", "exchanging"}
    BY <1>1 DEF ExchangeSession, ExchangeReads, Consume, FlowSound
<1> DEFINE new == [flow[f] EXCEPT !.step = next]
<1>4. flow' = [flow EXCEPT ![f] = new]
    BY <1>2
<1>5. /\ new \in FlowRecord /\ FlowSound(new, <<f, "state">> \in store', <<f, "ticket">> \in store')
      /\ new.user = flow[f].user /\ new.identity = flow[f].identity /\ new.step = next
    BY <1>1, <1>2, <1>3 DEF FlowRecord, FlowSound, Steps, Known, Exchanging, Onboarding
<1> HIDE DEF new
<1>6. Owned(new.user, new.identity)
    BY <1>2, <1>5 DEF AccountsIInv, Ownership
<1>7. AccountsTypeOK'
    BY <1>2 DEF AccountsIInv, AccountsTypeOK
<1> QED BY <1>1, <1>2, <1>3, <1>4, <1>5, <1>6, <1>7, FlowGoesOn

\* A session is opened for the account its callback found: the ticket was the only one.
LEMMA IssueStep == ASSUME AccountsIInv, NEW f \in Flows, ExchangeIssues(f) PROVE AccountsIInv'
<1>1. flow[f] \in FlowRecord /\ FlowSound(flow[f], <<f, "state">> \in store, <<f, "ticket">> \in store)
      /\ store \subseteq Flows \X {"state", "ticket"}
    BY FlowIs
<1>2. /\ flow[f].step = "issuing"
      /\ opened' = opened \cup {<<flow[f].user, flow[f].identity>>}
      /\ flow' = [flow EXCEPT ![f].step = "done", ![f].user = flow[f].user, ![f].opens = @ + 1]
      /\ UNCHANGED <<user, external, fresh, store, signing, admitted>>
    BY DEF ExchangeIssues, SessionOpened
<1>3. /\ flow[f].kind = "session" /\ flow[f].opens = 0 /\ flow[f].identity \in Identities
      /\ flow[f].mode = "login" /\ <<f, "state">> \notin store /\ <<f, "ticket">> \notin store
    BY <1>1, <1>2 DEF FlowSound, Known, Exchanging
<1>4. Owned(flow[f].user, flow[f].identity)
    BY <1>3 DEF AccountsIInv, Ownership
<1> PICK e \in Emails, i \in Identities : e = flow[f].user /\ i = flow[f].identity
    BY <1>3, <1>4 DEF Owned
<1> DEFINE new == [flow[f] EXCEPT !.step = "done", !.opens = 1]
<1>5. flow' = [flow EXCEPT ![f] = new]
    BY <1>1, <1>2, <1>3 DEF AccountsIInv, FlowRecord
<1>6. /\ new \in FlowRecord /\ new.step = "done" /\ new.user = e /\ new.identity = i
      /\ new.mode = "login"
    BY <1>1, <1>3 DEF FlowRecord, Steps, Known
<1> HIDE DEF new
<1>7. \E g \in Flows : user'[e].by = g /\ flow'[g].identity = i /\ flow'[g].step = "done"
    BY <1>2, <1>4, <1>5 DEF Owned, AccountsIInv
<1>8. opened' = opened \cup {<<e, i>>} /\ store' = store \ {<<f, "ticket">>}
    BY <1>2, <1>3
<1>9. AccountsTypeOK' /\ LastAdminKept'
    BY <1>1, <1>2, <1>8 DEF AccountsIInv, AccountsTypeOK, LastAdminKept
<1>10. /\ flow[f].step # "done" /\ (new.mode = "register" => user'[e].by = f)
       /\ (new.kind = "session" => new.mode = "login")
       /\ \A d \in Emails : user[d].by \in Flows => user'[d].by = user[d].by
       /\ \A j \in Identities :
              external'[j].user = external[j].user \/ (j = i /\ external'[j].user = e)
    BY <1>2, <1>6
<1> QED
    BY <1>3, <1>5, <1>6, <1>7, <1>8, <1>9, <1>10, FlowEnds

\* A completion creates the account of an email that nobody has, links the identity to it
\* and opens its session.
LEMMA CompletionStep ==
    ASSUME AccountsIInv, NEW f \in Flows, CompletionWrites(f) PROVE AccountsIInv'
<1>1. flow[f] \in FlowRecord /\ FlowSound(flow[f], <<f, "state">> \in store, <<f, "ticket">> \in store)
      /\ store \subseteq Flows \X {"state", "ticket"}
    BY FlowIs
<1>2. flow[f].step = "completing"
    BY DEF CompletionWrites
<1>3. /\ flow[f].user \in Emails /\ flow[f].identity \in Identities /\ flow[f].kind = "onboarding"
      /\ flow[f].opens = 0 /\ <<f, "state">> \notin store /\ <<f, "ticket">> \notin store
    BY <1>1, <1>2 DEF FlowSound, Known, Onboarding
<1> PICK e \in Emails, i \in Identities : e = flow[f].user /\ i = flow[f].identity
    BY <1>3
<1> DEFINE new == [flow[f] EXCEPT !.step = "done", !.opens = 1]
           entry == [NoUser EXCEPT !.role = "student", !.active = TRUE, !.by = f]
           ext == [external[i] EXCEPT !.status = "linked", !.user = e, !.mail = e]
<1>4. /\ user[e] = NoUser /\ user' = [user EXCEPT ![e] = entry]
      /\ fresh' = fresh \ {i} /\ opened' = opened \cup {<<e, i>>}
      /\ external' = [external EXCEPT ![i].status = "linked", ![i].user = e, ![i].mail = e]
      /\ flow' = [flow EXCEPT ![f].step = "done", ![f].user = e, ![f].opens = @ + 1]
      /\ UNCHANGED <<store, signing, admitted>>
    BY DEF CompletionWrites, SessionOpened, Settled, Exists
<1>5. flow' = [flow EXCEPT ![f] = new]
    BY <1>1, <1>3, <1>4 DEF AccountsIInv, FlowRecord
<1>6. /\ new \in FlowRecord /\ new.step = "done" /\ new.user = e /\ new.identity = i
      /\ new.kind = "onboarding"
    BY <1>1, <1>3 DEF FlowRecord, Steps, Known
<1>7. /\ entry \in UserRecord /\ entry.by = f /\ entry.uid = "none"
    BY DEF UserRecord, NoUser
<1>22. user[e].by = "none" /\ user[e].uid = "none" /\ user[e].role = "none"
    BY <1>4 DEF NoUser
<1>8. external \in [Identities -> IdentityRecord] /\ user \in [Emails -> UserRecord]
    BY DEF AccountsIInv, AccountsTypeOK, IdentityRecord, UserRecord
<1>9. external' = [external EXCEPT ![i] = ext]
    BY <1>4, <1>8
<1>10. ext \in IdentityRecord /\ ext.user = e
    BY <1>8 DEF IdentityRecord
<1> HIDE DEF new, entry, ext
<1>11. /\ user' \in [Emails -> UserRecord] /\ user'[e] = entry
       /\ \A d \in Emails : d # e => user'[d] = user[d]
    BY <1>4, <1>7, <1>8
<1>12. /\ external' \in [Identities -> IdentityRecord] /\ external'[i] = ext
       /\ \A j \in Identities : j # i => external'[j] = external[j]
    BY <1>8, <1>9, <1>10
<1>13. fresh' \subseteq {j \in Identities : external'[j].status # "none"}
    BY <1>4, <1>12 DEF AccountsIInv, AccountsTypeOK
<1>14. AccountsTypeOK'
    BY <1>4, <1>11, <1>12, <1>13 DEF AccountsIInv, AccountsTypeOK, IdentityRecord, UserRecord
<1>15. flow'[f] = new
    BY <1>5 DEF AccountsIInv
<1>16. \E g \in Flows : user'[e].by = g /\ flow'[g].identity = i /\ flow'[g].step = "done"
    BY <1>6, <1>7, <1>11, <1>15
<1>17. \A d \in Emails : user[d].by \in Flows => user'[d].by = user[d].by
    BY <1>11, <1>22, AccountsAssumption
<1>19. LastAdminKept'
    BY <1>11, <1>22 DEF AccountsIInv, LastAdminKept
<1>20. /\ opened' = opened \cup {<<e, i>>} /\ store' = store \ {<<f, "ticket">>} /\ <<f, "state">> \notin store
       /\ flow[f].step # "done" /\ (new.mode = "register" => user'[e].by = f)
       /\ (new.kind = "session" => new.mode = "login")
    BY <1>2, <1>3, <1>4, <1>6, <1>7, <1>11
<1>21. \A j \in Identities :
           external'[j].user = external[j].user \/ (j = i /\ external'[j].user = e)
    BY <1>10, <1>12
<1> QED
    BY <1>5, <1>6, <1>14, <1>16, <1>17, <1>19, <1>20, <1>21, FlowEnds

-----------------------------------------------------------------------------
(* Every step, and the theorems                                             *)

\* Keys and pending identities time out, administrators are let in, and a Firebase login
\* reads or is given up.
LEMMA QuietStep ==
    ASSUME AccountsIInv,
           \/ \E u \in Uids, e \in Emails : FirebaseReads(u, e)
           \/ \E r \in signing : FirebaseStops(r)
           \/ \E f \in Flows : TtlPasses(f)
           \/ \E i \in Identities : PendingExpires(i)
           \/ \E a \in Emails : AdmitAdmin(a)
    PROVE  AccountsIInv'
<1>1. /\ UNCHANGED <<user, external, flow, opened>> /\ store' \subseteq store
      /\ fresh' \subseteq fresh /\ admitted' \subseteq Emails
    BY DEF TtlPasses, Consume, PendingExpires, AdmitAdmin, FirebaseReads, FirebaseStops,
           AccountsIInv, AccountsTypeOK
<1>2. signing' \subseteq [uid : Uids, account : Emails, does : {"create", "link", "keep"}]
    BY DEF TtlPasses, PendingExpires, AdmitAdmin, FirebaseReads, FirebaseStops, Intended,
           AccountsIInv, AccountsTypeOK
<1>3. AccountsTypeOK'
    BY <1>1, <1>2 DEF AccountsIInv, AccountsTypeOK
<1>4. FlowFacts'
    BY <1>1 DEF AccountsIInv, FlowFacts
<1>5. Ownership'
    BY <1>1 DEF AccountsIInv, Ownership, Owned
<1> QED
    BY <1>1, <1>3, <1>4, <1>5 DEF AccountsIInv, LastAdminKept

\* Every step keeps the invariant.
LEMMA AccountsStep == AccountsIInv /\ [AccountsNext]_accountVars => AccountsIInv'
<1> SUFFICES ASSUME AccountsIInv, [AccountsNext]_accountVars PROVE AccountsIInv'
    OBVIOUS
<1>1. CASE UNCHANGED accountVars
    BY <1>1 DEF accountVars, AccountsIInv, AccountsTypeOK, FlowFacts, Ownership, Owned,
                LastAdminKept
<1>2. CASE AccountsNext
    BY <1>2, QuietStep, FirebaseUpdatesStep, FirebaseCreatesStep, AdministrationStep, FlowBegins,
       PutTicketStep, ResolveReadsStep, ResolveWritesStep, OnboardingStep, ExchangeStep, IssueStep,
       CompletionStep
       DEF AccountsNext
<1> QED BY <1>1, <1>2

LEMMA AccountsAlways == AccountsSpec => []AccountsIInv
BY AccountsInitInvariant, AccountsStep, PTL DEF AccountsSpec

\* The invariant says what the runs check.
LEMMA AccountsIInvImplies == AccountsIInv => AccountsConsistent
<1> SUFFICES ASSUME AccountsIInv PROVE AccountsConsistent
    OBVIOUS
<1>1. OneSessionPerFlow
    BY DEF AccountsIInv, FlowRecord, OneSessionPerFlow
<1>4. RegisterOpensNew
    BY DEF AccountsIInv, Ownership, RegisterOpensNew
<1>5. NeverMergedByEmail
    BY DEF AccountsIInv, Ownership, Owned, NeverMergedByEmail
<1> QED
    BY <1>1, <1>4, <1>5 DEF AccountsIInv, AccountsConsistent

\* Users, identities, flows and sessions agree in every reachable state: an administrator
\* remains who can act, a social flow opens one session at most, and it is of the account
\* that a completion of its identity made, never of one found by its email, although every
\* sign-in writes by id what it read before (oauth.service.ts, admin-user.service.ts).
THEOREM AccountsConsistentHolds == AccountsSpec => []AccountsConsistent
BY AccountsAlways, AccountsIInvImplies, PTL

-----------------------------------------------------------------------------
(* Notifications: the inductive invariant                                   *)

CallRecord ==
    [step : {"none", "preferences read", "stored", "published"}, of : EventKeys \cup {"none"},
     email : BOOLEAN]

SendRecord == [step : {"none", "start", "sending"}, of : EventKeys \cup {"none"}]

ClientRecord ==
    [step : {"away", "joined", "open"}, last : Nat, after : Nat, got : SUBSET EventKeys,
     due : SUBSET EventKeys, cut : BOOLEAN]

Rows == {e \in EventKeys : createdAt[e] > 0}

\* A row's time is at most the number of rows, so there is always time for one more; the
\* event of a purchase has a row only with its email.
RowsSound ==
    /\ \A e \in EventKeys : createdAt[e] <= Cardinality(Rows)
    /\ \A e \in Purchases : createdAt[e] > 0 => mail[e] # "none"
    /\ \A e \in Purchases : outbox[e] = "dispatched" => createdAt[e] > 0

\* What the step of a call says of the row, and of the delivery, which it starts last.
CallsSound == \A c \in Callers :
    /\ call[c].step # "none" => call[c].of \in EventKeys
    /\ call[c].step # "none" /\ call[c].of \in Purchases => call[c].email
    /\ call[c].step \in {"stored", "published"} => createdAt[call[c].of] > 0
    /\ call[c].step \in {"preferences read", "stored"} => sending[c].step = "none"

\* Deliveries are of rows, and the one that claimed an email has it to itself.
SendersSound ==
    /\ \A c \in Callers : sending[c].step = "none" => sending[c] = NoSend
    /\ \A c \in Callers : sending[c].step # "none" =>
           sending[c].of \in EventKeys /\ createdAt[sending[c].of] > 0
    /\ \A c \in Callers : sending[c].step = "sending" => mail[sending[c].of] = "processing"
    /\ \A c, d \in Callers : sending[c].step = "sending" /\ sending[d].step = "sending" /\
           sending[c].of = sending[d].of => c = d

\* A connection that takes part has what was published since, unless a replay was cut.
ClientsSound == \A k \in Clients :
    /\ client[k].step = "joined" => ~client[k].cut
    /\ client[k].step # "away" /\ ~client[k].cut => client[k].due \subseteq client[k].got

NotifyIInv ==
    /\ NotifyTypeOK /\ call \in [Callers -> CallRecord] /\ sending \in [Callers -> SendRecord]
    /\ client \in [Clients -> ClientRecord]
    /\ RowsSound /\ CallsSound /\ SendersSound /\ ClientsSound

\* No row, no call and no connection yet.
LEMMA NotifyInitInvariant == NotifyInit => NotifyIInv
<1> SUFFICES ASSUME NotifyInit PROVE NotifyIInv
    OBVIOUS
<1>1. Cardinality(EventKeys) \in Nat /\ Cardinality(Rows) \in Nat
    <2>1. IsFiniteSet(EventKeys) /\ Rows \subseteq EventKeys
        BY NotificationAssumption DEF Rows
    <2>2. IsFiniteSet(Rows)
        BY <2>1, FS_Subset, Zenon
    <2> QED BY <2>1, <2>2, FS_CardinalityType
<1>2. NotifyTypeOK
    BY <1>1 DEF NotifyInit, NotifyTypeOK
<1>3. /\ call \in [Callers -> CallRecord] /\ sending \in [Callers -> SendRecord]
      /\ client \in [Clients -> ClientRecord]
    BY DEF NotifyInit, NoCall, NoSend, Away, CallRecord, SendRecord, ClientRecord
<1>4. RowsSound
    BY <1>1, NotificationAssumption DEF NotifyInit, RowsSound
<1>5. CallsSound /\ SendersSound /\ ClientsSound
    BY DEF NotifyInit, CallsSound, SendersSound, ClientsSound, NoCall, NoSend, Away
<1> QED BY <1>2, <1>3, <1>4, <1>5 DEF NotifyIInv

-----------------------------------------------------------------------------
(* Calls                                                                    *)

\* Orders queue events and the user changes the preference.
LEMMA QuietNotifyStep ==
    ASSUME NotifyIInv, setPreference \/ \E e \in Purchases : Queue(e)
    PROVE  NotifyIInv'
<1>1. /\ UNCHANGED <<createdAt, mail, call, sending, announced, client>>
      /\ outbox' \in [Purchases -> {"absent", "pending", "dispatched"}]
      /\ \A e \in Purchases : outbox'[e] = "dispatched" => outbox[e] = "dispatched"
    BY DEF setPreference, Queue, mailVars, NotifyIInv, NotifyTypeOK
<1>2. NotifyTypeOK' /\ RowsSound'
    BY <1>1 DEF NotifyIInv, NotifyTypeOK, RowsSound, Rows
<1> QED
    BY <1>1, <1>2 DEF NotifyIInv, CallsSound, SendersSound, ClientsSound

\* A call begins, ends or is lost; the dispatcher closes an entry whose row there is.
LEMMA CallStep ==
    ASSUME NotifyIInv, NEW c \in Callers,
           \/ \E e \in EventKeys : CallCreate(c, e)
           \/ CallDone(c) \/ CallLost(c)
    PROVE  NotifyIInv'
<1>1. UNCHANGED <<createdAt, mail, sending, announced, client>>
    BY DEF CallCreate, CallDone, CallLost, mailVars
<1>2. \A e \in EventKeys : [step |-> "preferences read", of |-> e,
                            email |-> e \in Purchases \/ wantsMail = TRUE] \in CallRecord
    BY DEF CallRecord
<1>3. NoCall \in CallRecord
    BY DEF CallRecord, NoCall
<1>4. PICK new \in CallRecord :
          /\ call' = [call EXCEPT ![c] = new]
          /\ \/ new.step = "none"
             \/ /\ new.step = "preferences read" /\ new.of \in EventKeys
                /\ (new.of \in Purchases => new.email) /\ sending[c] = NoSend
    BY <1>2, <1>3 DEF CallCreate, CallDone, CallLost, NoCall
<1>5. call' \in [Callers -> CallRecord] /\ call'[c] = new
      /\ \A d \in Callers : d # c => call'[d] = call[d]
    BY <1>4 DEF NotifyIInv
<1>6. CallsSound'
    <2> SUFFICES ASSUME NEW d \in Callers
                 PROVE  /\ call'[d].step # "none" => call'[d].of \in EventKeys
                        /\ call'[d].step # "none" /\ call'[d].of \in Purchases => call'[d].email
                        /\ call'[d].step \in {"stored", "published"} => createdAt[call'[d].of] > 0
                        /\ call'[d].step \in {"preferences read", "stored"} =>
                               sending[d].step = "none"
        BY <1>1 DEF CallsSound
    <2>1. CASE d = c
        <3>1. CASE new.step = "none"
            BY <1>5, <2>1, <3>1
        <3>2. CASE /\ new.step = "preferences read" /\ new.of \in EventKeys
                   /\ (new.of \in Purchases => new.email) /\ sending[c] = NoSend
            <4>1. sending[d].step = "none"
                <5>1. sending[d] = NoSend
                    BY <2>1, <3>2
                <5> QED BY <5>1 DEF NoSend
            <4>2. call'[d] = new
                BY <1>5, <2>1
            <4>3. new.step \notin {"stored", "published"}
                BY <3>2
            <4> QED BY <3>2, <4>1, <4>2, <4>3
        <3> QED BY <1>4, <3>1, <3>2
    <2>2. CASE d # c
        BY <1>5, <2>2 DEF NotifyIInv, CallsSound
    <2> QED BY <2>1, <2>2
<1>7. /\ outbox' \in [Purchases -> {"absent", "pending", "dispatched"}]
      /\ \A e \in Purchases : outbox'[e] = "dispatched" =>
             outbox[e] = "dispatched" \/ createdAt[e] > 0
    BY DEF CallCreate, CallDone, CallLost, NotifyIInv, NotifyTypeOK, CallsSound
<1>8. NotifyTypeOK' /\ RowsSound'
    BY <1>1, <1>7 DEF NotifyIInv, NotifyTypeOK, RowsSound, Rows
<1> QED
    BY <1>1, <1>5, <1>6, <1>8 DEF NotifyIInv, SendersSound, ClientsSound

\* The latest of some rows is one of them.
LEMMA LatestOfRows ==
    ASSUME NotifyIInv, NEW es \in SUBSET EventKeys, es # {}
    PROVE  Max({createdAt[e] : e \in es}) \in {createdAt[e] : e \in es}
           /\ {createdAt[e] : e \in es} \subseteq Nat
<1> DEFINE S == {createdAt[e] : e \in es}
<1>1. Cardinality(EventKeys) \in Nat
    BY NotificationAssumption, FS_CardinalityType
<1>2. S \subseteq 0 .. Cardinality(EventKeys) /\ S # {}
    BY DEF NotifyIInv, NotifyTypeOK
<1>3. S \in SUBSET Nat
    BY <1>1, <1>2
<1>4. IsFiniteSet(S)
    <2>1. IsFiniteSet(0 .. Cardinality(EventKeys))
        BY <1>1, FS_Interval
    <2> QED BY <1>2, <2>1, FS_Subset, Zenon
<1> HIDE DEF S
<1>5. \E m \in S : \A x \in S : x <= m
    BY <1>2, <1>3, <1>4, Greatest
<1>6. Max(S) \in S
    BY <1>3, <1>5 DEF Max
<1> QED BY <1>3, <1>6 DEF S

\* Rows are stored one after the other.
LEMMA NextRow ==
    ASSUME NotifyIInv, EventKeys # {}
    PROVE  NewestRow \in Nat /\ NewestRow <= Cardinality(Rows)
<1>1. NewestRow \in {createdAt[e] : e \in EventKeys} /\ {createdAt[e] : e \in EventKeys} \subseteq Nat
    BY LatestOfRows DEF NewestRow
<1> QED BY <1>1 DEF NotifyIInv, RowsSound

\* The upsert makes the row of an event that has none, with its email, or leaves it.
LEMMA UpsertStep == ASSUME NotifyIInv, NEW c \in Callers, Upsert(c) PROVE NotifyIInv'
<1> DEFINE e == call[c].of
<1>1. /\ call[c].step = "preferences read" /\ call[c] \in CallRecord
      /\ UNCHANGED <<outbox, sending, announced, client>>
      /\ call' = [call EXCEPT ![c] = [call[c] EXCEPT !.step = "stored"]]
    BY DEF Upsert, NotifyIInv
<1>2. e \in EventKeys /\ (e \in Purchases => call[c].email)
    BY <1>1 DEF NotifyIInv, CallsSound
<1> DEFINE new == [call[c] EXCEPT !.step = "stored"]
<1>3. /\ new \in CallRecord /\ new.step = "stored" /\ new.of = e /\ new.email = call[c].email
    BY <1>1 DEF CallRecord
<1>4. call' \in [Callers -> CallRecord] /\ call'[c] = new
      /\ \A d \in Callers : d # c => call'[d] = call[d]
    BY <1>1, <1>3 DEF NotifyIInv
<1>5. IsFiniteSet(EventKeys) /\ IsFiniteSet(Rows) /\ IsFiniteSet(Rows')
      /\ Rows \subseteq EventKeys /\ Rows' \subseteq EventKeys
    <2>1. Rows \subseteq EventKeys /\ Rows' \subseteq EventKeys
        BY DEF Rows
    <2> QED BY <2>1, NotificationAssumption, FS_Subset, Zenon
<1>6. /\ createdAt'[e] > 0 /\ createdAt' \in [EventKeys -> Nat]
      /\ \A f \in EventKeys : f # e \/ createdAt[e] > 0 =>
             createdAt'[f] = createdAt[f] /\ mail'[f] = mail[f]
      /\ createdAt[e] = 0 => /\ createdAt'[e] = NewestRow + 1
                             /\ mail'[e] = IF call[c].email THEN "pending" ELSE mail[e]
      /\ mail' \in [EventKeys -> {"none", "pending", "processing", "failed", "delivered"}]
    <2>1. Cardinality(EventKeys) \in Nat /\ createdAt \in [EventKeys -> Nat]
          /\ mail \in [EventKeys -> {"none", "pending", "processing", "failed", "delivered"}]
        BY <1>5, FS_CardinalityType DEF NotifyIInv, NotifyTypeOK
    <2>2. NewestRow \in Nat
        BY <1>2, NextRow
    <2>3. /\ createdAt' = IF createdAt[e] = 0 THEN [createdAt EXCEPT ![e] = NewestRow + 1]
                          ELSE createdAt
          /\ mail' = IF createdAt[e] = 0 /\ call[c].email THEN [mail EXCEPT ![e] = "pending"]
                     ELSE mail
        BY DEF Upsert
    <2>4. CASE createdAt[e] = 0 /\ call[c].email
        BY <1>2, <2>1, <2>2, <2>3, <2>4
    <2>5. CASE createdAt[e] = 0 /\ ~call[c].email
        BY <1>2, <2>1, <2>2, <2>3, <2>5
    <2>6. CASE createdAt[e] # 0
        BY <1>2, <2>1, <2>3, <2>6
    <2> QED BY <2>4, <2>5, <2>6
<1> HIDE DEF e, new
<1>7. \A f \in EventKeys : createdAt'[f] <= Cardinality(Rows')
    <2>1. CASE createdAt[e] = 0
        <3>1. Rows' = Rows \cup {e} /\ e \notin Rows
            BY <1>2, <1>6, <2>1 DEF Rows
        <3>2. Cardinality(Rows') = Cardinality(Rows) + 1 /\ Cardinality(Rows) \in Nat
            BY <1>5, <3>1, FS_AddElement, FS_CardinalityType
        <3>3. NewestRow \in Nat /\ NewestRow <= Cardinality(Rows)
            BY <1>2, NextRow
        <3> QED BY <1>2, <1>6, <2>1, <3>2, <3>3 DEF NotifyIInv, RowsSound
    <2>2. CASE createdAt[e] # 0
        <3>1. createdAt[e] > 0
            BY <1>2, <2>2, FS_CardinalityType, <1>5 DEF NotifyIInv, NotifyTypeOK
        <3>2. Rows' = Rows
            BY <1>6, <3>1 DEF Rows
        <3> QED BY <1>6, <3>1, <3>2 DEF NotifyIInv, RowsSound
    <2> QED BY <2>1, <2>2
<1>8. NotifyTypeOK'
    <2>1. Cardinality(Rows') <= Cardinality(EventKeys) /\ Cardinality(Rows') \in Nat
          /\ Cardinality(EventKeys) \in Nat
        BY <1>5, FS_Subset, FS_CardinalityType
    <2>2. createdAt' \in [EventKeys -> 0 .. Cardinality(EventKeys)]
        BY <1>6, <1>7, <2>1
    <2> QED BY <1>1, <1>6, <2>2 DEF NotifyIInv, NotifyTypeOK
<1>9. RowsSound'
    <2>1. ASSUME NEW f \in Purchases, createdAt'[f] > 0 PROVE mail'[f] # "none"
        <3>1. f \in EventKeys
            BY NotificationAssumption
        <3>2. CASE f # e \/ createdAt[e] > 0
            BY <1>6, <2>1, <3>1, <3>2 DEF NotifyIInv, RowsSound
        <3>3. CASE f = e /\ createdAt[e] = 0
            BY <1>2, <1>6, <3>3
        <3>4. createdAt[e] = 0 \/ createdAt[e] > 0
            BY <1>2, <1>5, FS_CardinalityType DEF NotifyIInv, NotifyTypeOK
        <3> QED BY <3>2, <3>3, <3>4
    <2>2. ASSUME NEW f \in Purchases, outbox'[f] = "dispatched" PROVE createdAt'[f] > 0
        <3>1. f \in EventKeys /\ createdAt[f] > 0
            BY <1>1, <2>2, NotificationAssumption DEF NotifyIInv, RowsSound
        <3> QED BY <1>6, <3>1
    <2> QED BY <1>7, <2>1, <2>2 DEF RowsSound
<1>10. \A f \in EventKeys : createdAt[f] > 0 => createdAt'[f] = createdAt[f] /\ mail'[f] = mail[f]
    BY <1>6
<1>11. CallsSound'
    BY <1>1, <1>2, <1>3, <1>4, <1>6, <1>10 DEF NotifyIInv, CallsSound
<1>12. SendersSound'
    BY <1>1, <1>10 DEF NotifyIInv, SendersSound
<1> QED
    BY <1>1, <1>4, <1>8, <1>9, <1>11, <1>12 DEF NotifyIInv, ClientsSound

-----------------------------------------------------------------------------
(* Deliveries                                                               *)

\* Whoever claims an email has it to itself, until it is sent, refused or lost.
LEMMA DeliveryStep ==
    ASSUME NotifyIInv, NEW c \in Callers,
           ClaimMail(c) \/ SendLost(c) \/ \E taken \in BOOLEAN : SendEnds(c, taken)
    PROVE  NotifyIInv'
<1> DEFINE e == sending[c].of
<1>1. UNCHANGED <<outbox, createdAt, call, announced, client>>
    BY DEF ClaimMail, SendLost, SendEnds
<1>2. sending[c] \in SendRecord /\ NoSend \in SendRecord /\ sending[c].step # "none"
    BY DEF NotifyIInv, SendersSound, SendRecord, NoSend, ClaimMail, SendLost, SendEnds
<1>3. e \in EventKeys /\ createdAt[e] > 0
    BY <1>2 DEF NotifyIInv, SendersSound
<1>4. PICK new \in SendRecord :
          /\ sending' = [sending EXCEPT ![c] = new]
          /\ \/ new = NoSend /\ new.step = "none" /\ (mail' = mail \/ sending[c].step = "sending")
             \/ new.step = "sending" /\ new.of = e /\ Claimable(e)
                /\ mail' = [mail EXCEPT ![e] = "processing"]
    <2>1. [sending[c] EXCEPT !.step = "sending"] \in SendRecord
        BY <1>2 DEF SendRecord
    <2>2. ClaimMail(c) =>
              \/ sending' = [sending EXCEPT ![c] = NoSend] /\ mail' = mail
              \/ /\ sending' = [sending EXCEPT ![c] = [sending[c] EXCEPT !.step = "sending"]]
                 /\ Claimable(e) /\ mail' = [mail EXCEPT ![e] = "processing"]
        BY DEF ClaimMail, NotifyIInv
    <2>3. [sending[c] EXCEPT !.step = "sending"].step = "sending"
          /\ [sending[c] EXCEPT !.step = "sending"].of = e
        BY <1>2 DEF SendRecord
    <2>4. SendLost(c) => sending' = [sending EXCEPT ![c] = NoSend] /\ mail' = mail
        BY DEF SendLost
    <2>5. (\E taken \in BOOLEAN : SendEnds(c, taken)) =>
              sending' = [sending EXCEPT ![c] = NoSend] /\ sending[c].step = "sending"
        BY DEF SendEnds
    <2>6. NoSend.step = "none"
        BY DEF NoSend
    <2> QED BY <1>2, <2>1, <2>2, <2>3, <2>4, <2>5, <2>6
<1>5. /\ mail' \in [EventKeys -> {"none", "pending", "processing", "failed", "delivered"}]
      /\ \A f \in EventKeys : f # e => mail'[f] = mail[f]
      /\ mail'[e] # "none" \/ mail' = mail
    BY <1>3 DEF ClaimMail, SendLost, SendEnds, NotifyIInv, NotifyTypeOK
<1> HIDE DEF e
<1>6. /\ sending' \in [Callers -> SendRecord] /\ sending'[c] = new
      /\ \A d \in Callers : d # c => sending'[d] = sending[d]
    BY <1>4 DEF NotifyIInv
<1>7. NotifyTypeOK'
    BY <1>1, <1>5 DEF NotifyIInv, NotifyTypeOK
<1>8. RowsSound'
    BY <1>1, <1>5, NotificationAssumption DEF NotifyIInv, RowsSound, Rows
<1>9. CallsSound'
    <2>1. call[c].step \notin {"preferences read", "stored"}
        BY <1>2 DEF NotifyIInv, CallsSound
    <2> QED BY <1>1, <1>6, <2>1 DEF NotifyIInv, CallsSound
<1>10. \A d \in Callers : d # c /\ sending[d].step = "sending" /\ sending[d].of = e =>
           mail' = mail /\ new.step = "none"
    <2> SUFFICES ASSUME NEW d \in Callers, d # c, sending[d].step = "sending", sending[d].of = e
                 PROVE  mail' = mail /\ new.step = "none"
        OBVIOUS
    <2>1. mail[e] = "processing" /\ sending[c].step # "sending"
        BY DEF NotifyIInv, SendersSound, e
    <2> QED BY <1>4, <2>1 DEF Claimable
<1>11. SendersSound'
    <2>1. \A d \in Callers : sending'[d].step # "none" =>
              sending'[d].of \in EventKeys /\ createdAt'[sending'[d].of] > 0
        BY <1>1, <1>3, <1>4, <1>6 DEF NotifyIInv, SendersSound
    <2>2. \A d \in Callers : sending'[d].step = "sending" => mail'[sending'[d].of] = "processing"
        <3> SUFFICES ASSUME NEW d \in Callers, sending'[d].step = "sending"
                     PROVE  mail'[sending'[d].of] = "processing"
            OBVIOUS
        <3>1. CASE d = c
            BY <1>3, <1>4, <1>6, <3>1 DEF NotifyIInv, NotifyTypeOK
        <3>2. CASE d # c
            <4>1. sending'[d] = sending[d] /\ sending[d].of \in EventKeys
                  /\ mail[sending[d].of] = "processing"
                BY <1>6, <3>2 DEF NotifyIInv, SendersSound
            <4> QED BY <1>5, <1>10, <3>2, <4>1
        <3> QED BY <3>1, <3>2
    <2>3. \A b, d \in Callers : sending'[b].step = "sending" /\ sending'[d].step = "sending" /\
              sending'[b].of = sending'[d].of => b = d
        BY <1>4, <1>6, <1>10 DEF NotifyIInv, SendersSound
    <2>4. \A d \in Callers : sending'[d].step = "none" => sending'[d] = NoSend
        BY <1>4, <1>6 DEF NotifyIInv, SendersSound
    <2> QED BY <2>1, <2>2, <2>3, <2>4 DEF SendersSound
<1> QED
    BY <1>1, <1>6, <1>7, <1>8, <1>9, <1>11 DEF NotifyIInv, ClientsSound

-----------------------------------------------------------------------------
(* The stream                                                               *)

\* A row goes to every connection that takes part, and its delivery is started.
LEMMA PublishStep == ASSUME NotifyIInv, NEW c \in Callers, Publish(c) PROVE NotifyIInv'
<1> DEFINE e == call[c].of
           new == [call[c] EXCEPT !.step = "published"]
           start == [step |-> "start", of |-> e]
<1>1. /\ call[c].step = "stored" /\ call[c] \in CallRecord
      /\ UNCHANGED <<outbox, createdAt, mail>> /\ announced' = announced \cup {e}
      /\ call' = [call EXCEPT ![c] = new]
      /\ sending' = sending \/ sending' = [sending EXCEPT ![c] = start]
    BY DEF Publish, NotifyIInv
<1>2. /\ e \in EventKeys /\ (e \in Purchases => call[c].email) /\ createdAt[e] > 0
      /\ sending[c].step = "none"
    BY <1>1 DEF NotifyIInv, CallsSound
<1>3. /\ new \in CallRecord /\ new.step = "published" /\ new.of = e /\ new.email = call[c].email
      /\ start \in SendRecord /\ start.step = "start" /\ start.of = e
    BY <1>1, <1>2 DEF CallRecord, SendRecord
<1>4. /\ client' \in [Clients -> ClientRecord]
      /\ \A k \in Clients : /\ client'[k].step = client[k].step /\ client'[k].cut = client[k].cut
                            /\ client'[k].got = IF Joined(k) THEN client[k].got \cup {e}
                                                ELSE client[k].got
                            /\ client'[k].due = IF client[k].step = "away" THEN client[k].due
                                                ELSE client[k].due \cup {e}
    <2>1. \A k \in Clients : client[k] \in ClientRecord
        BY DEF NotifyIInv
    <2>2. createdAt[e] \in Nat
        BY <1>2, NotificationAssumption, FS_CardinalityType DEF NotifyIInv, NotifyTypeOK
    <2> DEFINE to(k) == [client[k] EXCEPT
                             !.got = IF Joined(k) THEN client[k].got \cup {e} ELSE client[k].got,
                             !.last = IF Joined(k) THEN createdAt[e] ELSE client[k].last,
                             !.due = IF client[k].step = "away" THEN client[k].due
                                     ELSE client[k].due \cup {e}]
    <2>3. client' = [k \in Clients |-> to(k)]
        BY DEF Publish
    <2>4. ASSUME NEW k \in Clients
          PROVE  /\ to(k) \in ClientRecord /\ to(k).step = client[k].step
                 /\ to(k).cut = client[k].cut
                 /\ to(k).got = IF Joined(k) THEN client[k].got \cup {e} ELSE client[k].got
                 /\ to(k).due = IF client[k].step = "away" THEN client[k].due
                                ELSE client[k].due \cup {e}
        BY <1>2, <2>1, <2>2 DEF ClientRecord
    <2> HIDE DEF to
    <2> QED BY <2>3, <2>4
<1> HIDE DEF new, start, e
<1>5. /\ call' \in [Callers -> CallRecord] /\ call'[c] = new
      /\ \A d \in Callers : d # c => call'[d] = call[d]
      /\ sending' \in [Callers -> SendRecord] /\ sending'[c] \in {sending[c], start}
      /\ \A d \in Callers : d # c => sending'[d] = sending[d]
    BY <1>1, <1>3 DEF NotifyIInv
<1>6. NotifyTypeOK' /\ RowsSound'
    BY <1>1, <1>2 DEF NotifyIInv, NotifyTypeOK, RowsSound, Rows
<1>7. CallsSound'
    BY <1>1, <1>2, <1>3, <1>5 DEF NotifyIInv, CallsSound
<1>8. SendersSound'
    BY <1>1, <1>2, <1>3, <1>5 DEF NotifyIInv, SendersSound
<1>9. ClientsSound'
    <2> SUFFICES ASSUME NEW k \in Clients
                 PROVE  /\ client'[k].step = "joined" => ~client'[k].cut
                        /\ client'[k].step # "away" /\ ~client'[k].cut =>
                               client'[k].due \subseteq client'[k].got
        BY DEF ClientsSound
    <2>1. client[k].step # "away" => Joined(k)
        BY DEF Joined, NotifyIInv, ClientRecord
    <2> QED BY <1>4, <2>1 DEF NotifyIInv, ClientsSound
<1> QED
    BY <1>4, <1>5, <1>6, <1>7, <1>8, <1>9 DEF NotifyIInv

\* A connection joins before it asks for what it missed, so nothing falls between; it
\* then has all of it, or knows that the replay was cut.
LEMMA StreamStep ==
    ASSUME NotifyIInv, NEW k \in Clients, OpenStream(k) \/ ReplayMissed(k) \/ Disconnect(k)
    PROVE  NotifyIInv'
<1>1. UNCHANGED <<outbox, createdAt, mail, call, sending, announced>>
    BY DEF OpenStream, ReplayMissed, Disconnect, mailVars
<1>2. client[k] \in ClientRecord
    BY DEF NotifyIInv
<1>3. PICK new \in ClientRecord :
          /\ client' = [client EXCEPT ![k] = new]
          /\ new.step = "joined" => ~new.cut
          /\ new.step # "away" /\ ~new.cut => new.due \subseteq new.got
    <2>1. CASE OpenStream(k) \/ Disconnect(k)
        <3> DEFINE joins == [Away EXCEPT !.step = "joined", !.last = client[k].last,
                                         !.after = client[k].last]
                   leaves == [Away EXCEPT !.last = client[k].last]
        <3>1. client' = [client EXCEPT ![k] = joins] \/ client' = [client EXCEPT ![k] = leaves]
            BY <2>1 DEF OpenStream, Disconnect
        <3>2. joins \in ClientRecord /\ ~joins.cut /\ joins.due \subseteq joins.got
            BY <1>2 DEF ClientRecord, Away
        <3>3. leaves \in ClientRecord /\ leaves.step = "away"
            BY <1>2 DEF ClientRecord, Away
        <3> HIDE DEF joins, leaves
        <3> QED BY <3>1, <3>2, <3>3
    <2>2. CASE ReplayMissed(k)
        <3> DEFINE missed == {e \in EventKeys :
                                  client[k].after > 0 /\ createdAt[e] > client[k].after}
                   sent == {e \in missed : Cardinality({f \in missed : createdAt[f] <= createdAt[e]})
                                               <= MaxReplay}
                   last == IF sent = {} THEN client[k].last ELSE Max({createdAt[e] : e \in sent})
                   due == client[k].due \cup {e \in missed : e \in announced}
                   new == [client[k] EXCEPT !.step = "open", !.got = client[k].got \cup sent,
                               !.due = due, !.cut = missed # sent, !.last = last]
        <3>1. client' = [client EXCEPT ![k] = new] /\ client[k].step = "joined"
            BY <1>2, <2>2 DEF ReplayMissed, NotifyIInv, ClientRecord
        <3>2. sent \subseteq missed /\ missed \subseteq EventKeys
            OBVIOUS
        <3> HIDE DEF missed, sent
        <3>3. last \in Nat
            <4>1. CASE sent = {}
                BY <1>2, <4>1 DEF ClientRecord
            <4>2. CASE sent # {}
                BY <3>2, <4>2, LatestOfRows
            <4> QED BY <4>1, <4>2
        <3> HIDE DEF last
        <3>4. due \subseteq EventKeys /\ (missed = sent => due \subseteq client[k].due \cup sent)
            BY <1>2, <3>2 DEF ClientRecord
        <3> HIDE DEF due
        <3>5. ~client[k].cut /\ client[k].due \subseteq client[k].got
            BY <3>1 DEF NotifyIInv, ClientsSound
        <3>6. /\ new \in ClientRecord /\ new.step = "open" /\ new.due = due
              /\ new.got = client[k].got \cup sent /\ (new.cut <=> missed # sent)
            BY <1>2, <3>2, <3>3, <3>4 DEF ClientRecord
        <3> HIDE DEF new
        <3> QED BY <3>1, <3>4, <3>5, <3>6
    <2> QED BY <2>1, <2>2
<1>4. /\ client' \in [Clients -> ClientRecord] /\ client'[k] = new
      /\ \A j \in Clients : j # k => client'[j] = client[j]
    BY <1>3 DEF NotifyIInv
<1>5. ClientsSound'
    BY <1>3, <1>4 DEF NotifyIInv, ClientsSound
<1> QED
    BY <1>1, <1>4, <1>5 DEF NotifyIInv, NotifyTypeOK, RowsSound, Rows, CallsSound, SendersSound

-----------------------------------------------------------------------------
(* Every step, and the theorem                                              *)

\* Every step keeps the invariant.
LEMMA NotifyStep == NotifyIInv /\ [NotifyNext]_notifyVars => NotifyIInv'
<1> SUFFICES ASSUME NotifyIInv, [NotifyNext]_notifyVars PROVE NotifyIInv'
    OBVIOUS
<1>1. CASE UNCHANGED notifyVars
    BY <1>1 DEF notifyVars, NotifyIInv, NotifyTypeOK, RowsSound, Rows, CallsSound, SendersSound,
                ClientsSound
<1>2. CASE NotifyNext
    BY <1>2, QuietNotifyStep, CallStep, UpsertStep, PublishStep, DeliveryStep, StreamStep
       DEF NotifyNext
<1> QED BY <1>1, <1>2

\* The invariant says what the runs check.
LEMMA NotifyIInvImplies == NotifyIInv => NotificationsKept
<1> SUFFICES ASSUME NotifyIInv PROVE NotificationsKept
    OBVIOUS
<1>1. DispatchedIsNotified
    BY NotificationAssumption DEF NotifyIInv, RowsSound, DispatchedIsNotified
<1>2. ASSUME NEW e \in EventKeys, NEW at,
             at = {c \in Callers : sending[c].of = e /\ sending[c].step = "sending"}
      PROVE  Cardinality(at) <= 1 /\ (at # {} => mail[e] = "processing")
    <2>1. CASE at = {}
        BY <2>1, FS_EmptySet
    <2>2. ASSUME NEW c \in at PROVE Cardinality(at) <= 1 /\ mail[e] = "processing"
        <3>1. at = {c} /\ mail[e] = "processing"
            BY <1>2, <2>2 DEF NotifyIInv, SendersSound
        <3>2. Cardinality({c}) = 1
            BY FS_Singleton
        <3> QED BY <3>1, <3>2
    <2> QED BY <2>1, <2>2
<1>3. OneSender
    BY <1>2 DEF OneSender
<1>4. StreamHasNoGap
    BY DEF NotifyIInv, ClientsSound, StreamHasNoGap
<1> QED BY <1>1, <1>3, <1>4 DEF NotifyIInv, NotificationsKept

\* Whatever dispatchers, retries and connections overlap: no outbox entry is closed before
\* its buyer has a row and an email, an email has one sender at a time, and a connection
\* that has caught up has all that was published (notifications.service.ts,
\* notification-email-delivery.service.ts, notification-stream.service.ts).
THEOREM NotificationsKeptHolds == NotifySpec => []NotificationsKept
<1>1. NotifySpec => []NotifyIInv
    BY NotifyInitInvariant, NotifyStep, PTL DEF NotifySpec
<1> QED BY <1>1, NotifyIInvImplies, PTL

-----------------------------------------------------------------------------
(* Community: the inductive invariant                                       *)

Moderations == {"clear", "hidden", "rejected", "archived"}

ItemRecord ==
    [there : BOOLEAN, removed : {"no", "author", "admin"}, visible : BOOLEAN,
     moderation : Moderations, under : Posts \cup {"none"}, category : Categories \cup {"none"}]

AuditRecord == [on : Items, from : Moderations, to : Moderations]

\* Only a resource is archived.
StatusOf(i) ==
    {"clear", "hidden", "rejected"} \cup (IF i \in Resources THEN {"archived"} ELSE {})

\* What an item is by its kind, once it is there.
ItemSound(i, r) ==
    /\ r.moderation \in StatusOf(i)
    /\ r.there => /\ (i \in Resources <=> r.category \in Categories)
                  /\ (i \in Comments <=> r.under \in Posts)
    /\ ~r.there => r.category = "none" /\ r.under = "none"

\* What a request carries from its reads to its write.
RequestSound(r) ==
    /\ r.op = "update" => r.on \in Posts /\ r.visible \in BOOLEAN
    /\ r.op = "delete" => r.on \in Posts \cup Comments /\ r.by \in {"author", "admin"}
    /\ r.op = "comment" => r.on \in Posts
    /\ r.op = "mark" => r.on \in Posts \cup Resources /\ r.by \in People
    /\ r.op \in {"upload", "create"} => r.on \in Resources /\ r.category \in Categories
                                     /\ r = [op |-> r.op, on |-> r.on, category |-> r.category]
    /\ r.op = "create" => r.on \in files
    /\ r.op = "moderate" => /\ r.on \in Items /\ r.from \in Moderations
                            /\ r.to \in StatusOf(r.on)

CommunityIInv ==
    /\ item \in [Items -> ItemRecord] /\ modLog \in Seq(AuditRecord)
    /\ work = [w \in Writers |-> work[w]]
    /\ categories \subseteq Categories /\ files \subseteq Resources
    /\ marks \subseteq People \X (Posts \cup Resources)
    /\ \A i \in Items : ItemSound(i, item[i])
    /\ \A w \in Writers : RequestSound(work[w])
    /\ StatusIsLastAudited /\ RemovalsAudited /\ ResourceIsWhole

\* Nothing is published and nobody asks for anything.
LEMMA CommunityInitInvariant == CommunityInit => CommunityIInv
<1> SUFFICES ASSUME CommunityInit PROVE CommunityIInv
    OBVIOUS
<1>1. /\ item = [i \in Items |-> NoItem] /\ categories = Categories /\ files = {} /\ marks = {}
      /\ modLog = <<>> /\ work = [w \in Writers |-> Idle]
    BY DEF CommunityInit
<1>2. NoItem \in ItemRecord
    BY DEF NoItem, ItemRecord, Moderations
<1>3. \A i \in Items : ItemSound(i, item[i])
    BY <1>1 DEF NoItem, ItemSound, StatusOf
<1>4. \A w \in Writers : RequestSound(work[w])
    BY <1>1 DEF Idle, RequestSound
<1>5. StatusIsLastAudited
    <2>1. \A i \in Items : RecordsOf(i) = {}
        BY <1>1 DEF RecordsOf
    <2> QED BY <1>1, <2>1 DEF StatusIsLastAudited, NoItem
<1>6. RemovalsAudited /\ ResourceIsWhole
    BY <1>1 DEF RemovalsAudited, ResourceIsWhole, NoItem, Items
<1> QED BY <1>1, <1>2, <1>3, <1>4, <1>5, <1>6 DEF CommunityIInv

\* The last record of an item is one of its records.
LEMMA LastRecord ==
    ASSUME modLog \in Seq(AuditRecord), NEW i, RecordsOf(i) # {}
    PROVE  Max(RecordsOf(i)) \in RecordsOf(i)
<1>1. RecordsOf(i) \subseteq 1 .. Len(modLog) /\ Len(modLog) \in Nat
    BY DEF RecordsOf
<1>2. IsFiniteSet(1 .. Len(modLog))
    BY <1>1, FS_Interval
<1>3. IsFiniteSet(RecordsOf(i)) /\ RecordsOf(i) \in SUBSET Nat
    <2>1. IsFiniteSet(RecordsOf(i))
        BY <1>1, <1>2, FS_Subset, Zenon
    <2> QED BY <1>1, <2>1
<1>4. \E m \in RecordsOf(i) : \A x \in RecordsOf(i) : x <= m
    BY <1>3, Greatest
<1> QED BY <1>3, <1>4 DEF Max

-----------------------------------------------------------------------------
(* Community: the steps                                                     *)

\* A request ends.
LEMMA RequestEnds ==
    ASSUME CommunityIInv, NEW w \in Writers, Finish(w), files \subseteq files'
    PROVE  (work = [v \in Writers |-> work[v]])' /\ (\A v \in Writers : RequestSound(work[v]))'
<1>1. work' = [work EXCEPT ![w] = Idle] /\ work = [v \in Writers |-> work[v]]
    BY DEF Finish, CommunityIInv
<1>2. work'[w] = Idle /\ \A v \in Writers : v # w => work'[v] = work[v]
    BY <1>1
<1>3. (work = [v \in Writers |-> work[v]])'
    BY <1>1
<1>4. Idle.op = "none"
    BY DEF Idle
<1>5. ASSUME NEW v \in Writers PROVE RequestSound(work[v])'
    <2>1. CASE v = w
        BY <1>2, <1>4, <2>1 DEF RequestSound
    <2>2. CASE v # w
        BY <1>2, <2>2 DEF CommunityIInv, RequestSound
    <2> QED BY <2>1, <2>2
<1> QED BY <1>3, <1>5

\* A request that has read what it needs waits to write it.
LEMMA RequestStarts ==
    ASSUME CommunityIInv, NEW w \in Writers, NEW r, RequestSound(r),
           work' = [work EXCEPT ![w] = r],
           UNCHANGED <<item, categories, files, marks, modLog, removals>>
    PROVE  CommunityIInv'
<1>1. /\ work'[w] = r /\ \A v \in Writers : v # w => work'[v] = work[v]
      /\ (work = [v \in Writers |-> work[v]])'
    BY DEF CommunityIInv
<1>2. files \subseteq files'
    OBVIOUS
<1>3. ASSUME NEW v \in Writers PROVE RequestSound(work[v])'
    <2>1. CASE v = w
        BY <1>1, <1>2, <2>1 DEF RequestSound
    <2>2. CASE v # w
        BY <1>1, <1>2, <2>2 DEF CommunityIInv, RequestSound
    <2> QED BY <2>1, <2>2
<1>4. (\A i \in Items : ItemSound(i, item[i]))'
    BY DEF CommunityIInv, ItemSound
<1>5. StatusIsLastAudited' /\ RemovalsAudited' /\ ResourceIsWhole'
    BY <1>2 DEF CommunityIInv, StatusIsLastAudited, RecordsOf, RemovalsAudited, ResourceIsWhole
<1> QED BY <1>1, <1>3, <1>4, <1>5 DEF CommunityIInv

\* One row is written, but for its moderation.
LEMMA ItemWritten ==
    ASSUME CommunityIInv, NEW i \in Items, NEW rec \in ItemRecord, ItemSound(i, rec),
           item' = [item EXCEPT ![i] = rec], rec.moderation = item[i].moderation,
           rec.removed = "admin" => i \in removals', removals \subseteq removals',
           i \in Resources /\ rec.there => rec.category \in categories /\ i \in files,
           work' = work \/ \E w \in Writers : Finish(w),
           UNCHANGED <<categories, files, marks, modLog>>
    PROVE  CommunityIInv'
<1>1. item'[i] = rec /\ (\A j \in Items : j # i => item'[j] = item[j])
      /\ item' \in [Items -> ItemRecord]
    BY DEF CommunityIInv
<1>2. (work = [v \in Writers |-> work[v]])' /\ (\A v \in Writers : RequestSound(work[v]))'
    <2>1. CASE work' = work
        BY <2>1 DEF CommunityIInv, RequestSound
    <2>2. CASE \E w \in Writers : Finish(w)
        BY <2>2, RequestEnds
    <2> QED BY <2>1, <2>2
<1>3. (\A j \in Items : ItemSound(j, item[j]))'
    BY <1>1 DEF CommunityIInv, ItemSound
<1>4. StatusIsLastAudited'
    BY <1>1 DEF CommunityIInv, StatusIsLastAudited, RecordsOf
<1>5. RemovalsAudited' /\ ResourceIsWhole'
    BY <1>1 DEF CommunityIInv, RemovalsAudited, ResourceIsWhole, Items
<1> QED BY <1>1, <1>2, <1>3, <1>4, <1>5 DEF CommunityIInv

\* A post is created, edited or removed, and a comment removed.
LEMMA PostStep ==
    ASSUME CommunityIInv,
           \/ \E p \in Posts, visible \in BOOLEAN : CreatePost(p, visible)
           \/ \E w \in Writers : UpdatePostWrites(w) \/ DeleteWrites(w)
    PROVE  CommunityIInv'
<1>1. \A i \in Items : item[i] \in ItemRecord /\ ItemSound(i, item[i])
    BY DEF CommunityIInv
<1>2. ASSUME NEW p \in Posts, NEW visible \in BOOLEAN, CreatePost(p, visible) PROVE CommunityIInv'
    <2> DEFINE rec == [item[p] EXCEPT !.there = TRUE, !.visible = visible]
    <2>1. p \in Items /\ p \notin Resources /\ p \notin Comments
        BY CommunityAssumption DEF Items
    <2>2. /\ ~item[p].there /\ item' = [item EXCEPT ![p] = rec]
          /\ UNCHANGED <<categories, files, marks, work, modLog, removals>>
        BY <1>2, <2>1 DEF CreatePost, CommunityIInv
    <2>3. /\ rec \in ItemRecord /\ ItemSound(p, rec) /\ rec.moderation = item[p].moderation
          /\ rec.removed = item[p].removed
        BY <1>1, <2>1, <2>2, CommunityAssumption DEF ItemRecord, ItemSound
    <2>4. rec.removed = "admin" => p \in removals'
        BY <2>1, <2>2, <2>3 DEF CommunityIInv, RemovalsAudited
    <2> HIDE DEF rec
    <2> QED BY <2>1, <2>2, <2>3, <2>4, ItemWritten
<1>3. ASSUME NEW w \in Writers, UpdatePostWrites(w) PROVE CommunityIInv'
    <2> PICK p \in Posts, visible \in BOOLEAN : p = work[w].on /\ visible = work[w].visible
        BY <1>3 DEF UpdatePostWrites, CommunityIInv, RequestSound
    <2> DEFINE rec == [item[p] EXCEPT !.visible = visible]
    <2>1. p \in Items /\ p \notin Resources
        BY CommunityAssumption DEF Items
    <2>2. /\ item' = [item EXCEPT ![p] = rec] /\ Finish(w)
          /\ UNCHANGED <<categories, files, marks, modLog, removals>>
        BY <1>3 DEF UpdatePostWrites, Edited
    <2>3. /\ rec \in ItemRecord /\ ItemSound(p, rec) /\ rec.moderation = item[p].moderation
          /\ rec.removed = item[p].removed
        BY <1>1, <2>1 DEF ItemRecord, ItemSound
    <2>4. rec.removed = "admin" => p \in removals'
        BY <2>1, <2>2, <2>3 DEF CommunityIInv, RemovalsAudited
    <2> HIDE DEF rec
    <2> QED BY <2>1, <2>2, <2>3, <2>4, ItemWritten
<1>4. ASSUME NEW w \in Writers, DeleteWrites(w) PROVE CommunityIInv'
    <2> PICK i \in Posts \cup Comments, by \in {"author", "admin"} :
                i = work[w].on /\ by = work[w].by
        BY <1>4 DEF DeleteWrites, CommunityIInv, RequestSound
    <2> DEFINE rec == [item[i] EXCEPT !.removed = by]
    <2>1. i \in Items /\ i \notin Resources
        BY CommunityAssumption DEF Items
    <2>2. /\ item' = [item EXCEPT ![i] = rec] /\ Finish(w)
          /\ UNCHANGED <<categories, files, marks, modLog>>
          /\ removals \subseteq removals' /\ (by = "admin" => i \in removals')
        BY <1>4, <2>1 DEF DeleteWrites, AuditedRemoval, CommunityIInv
    <2>3. /\ rec \in ItemRecord /\ ItemSound(i, rec) /\ rec.moderation = item[i].moderation
          /\ rec.removed = by
        BY <1>1, <2>1 DEF ItemRecord, ItemSound
    <2> HIDE DEF rec
    <2> QED BY <2>1, <2>2, <2>3, ItemWritten
<1> QED BY <1>2, <1>3, <1>4

\* A comment is stored under its post, a resource with its file and a category that is there.
LEMMA CreationStep ==
    ASSUME CommunityIInv, NEW w \in Writers, CommentWrites(w) \/ CreateResourceWrites(w)
    PROVE  CommunityIInv'
<1>1. \A i \in Items : item[i] \in ItemRecord /\ ItemSound(i, item[i])
    BY DEF CommunityIInv
<1>2. CASE CommentWrites(w)
    <2> PICK p \in Posts : p = work[w].on
        BY <1>2 DEF CommentWrites, CommunityIInv, RequestSound
    <2> PICK c \in Comments :
            ~item[c].there /\ item' = [item EXCEPT ![c].there = TRUE, ![c].under = p]
        BY <1>2 DEF CommentWrites
    <2> DEFINE rec == [item[c] EXCEPT !.there = TRUE, !.under = p]
    <2>1. c \in Items /\ c \notin Resources
        BY CommunityAssumption DEF Items
    <2>2. /\ item' = [item EXCEPT ![c] = rec] /\ Finish(w)
          /\ UNCHANGED <<categories, files, marks, modLog, removals>>
        BY <1>2, <2>1 DEF CommentWrites, CommunityIInv
    <2>3. /\ rec \in ItemRecord /\ ItemSound(c, rec) /\ rec.moderation = item[c].moderation
          /\ rec.removed = item[c].removed
        BY <1>1, <2>1, CommunityAssumption DEF ItemRecord, ItemSound
    <2>4. rec.removed = "admin" => c \in removals'
        BY <2>1, <2>2, <2>3 DEF CommunityIInv, RemovalsAudited
    <2> HIDE DEF rec
    <2> QED BY <2>1, <2>2, <2>3, <2>4, ItemWritten
<1>3. CASE CreateResourceWrites(w)
    <2> PICK r \in Resources, g \in Categories : r = work[w].on /\ g = work[w].category /\ r \in files
        BY <1>3 DEF CreateResourceWrites, CommunityIInv, RequestSound
    <2> DEFINE rec == IF g \in categories THEN [item[r] EXCEPT !.there = TRUE, !.category = g]
                      ELSE item[r]
    <2>1. r \in Items /\ r \notin Comments
        BY CommunityAssumption DEF Items
    <2>2. /\ item' = [item EXCEPT ![r] = rec] /\ Finish(w)
          /\ UNCHANGED <<categories, files, marks, modLog, removals>>
        <3>1. CASE g \in categories
            BY <1>3, <2>1, <3>1 DEF CreateResourceWrites, CategoryThere, CommunityIInv
        <3>2. CASE g \notin categories
            BY <1>3, <2>1, <3>2 DEF CreateResourceWrites, CategoryThere, CommunityIInv
        <3> QED BY <3>1, <3>2
    <2>3. /\ rec \in ItemRecord /\ ItemSound(r, rec) /\ rec.moderation = item[r].moderation
          /\ rec.removed = item[r].removed /\ (rec.there => rec.category \in categories)
        <3>1. CASE g \in categories
            <4> DEFINE new == [item[r] EXCEPT !.there = TRUE, !.category = g]
            <4>1. rec = new
                BY <3>1
            <4>2. /\ new \in ItemRecord /\ new.there /\ new.category = g
                  /\ new.moderation = item[r].moderation /\ new.removed = item[r].removed
                  /\ new.under = item[r].under
                BY <1>1, <2>1 DEF ItemRecord
            <4>3. item[r].under \notin Posts
                BY <1>1, <2>1, CommunityAssumption DEF ItemSound
            <4> HIDE DEF new
            <4>4. ItemSound(r, new)
                BY <1>1, <2>1, <4>2, <4>3 DEF ItemSound
            <4> HIDE DEF rec
            <4> QED BY <3>1, <4>1, <4>2, <4>4
        <3>2. CASE g \notin categories
            BY <1>1, <2>1, <3>2 DEF CommunityIInv, ResourceIsWhole
        <3> QED BY <3>1, <3>2
    <2> HIDE DEF rec
    <2>4. rec.removed = "admin" => r \in removals'
        BY <2>1, <2>2, <2>3 DEF CommunityIInv, RemovalsAudited
    <2> QED BY <2>1, <2>2, <2>3, <2>4, ItemWritten
<1> QED BY <1>2, <1>3

\* Members like and save, and a category goes that no resource has.
LEMMA MarkStep ==
    ASSUME CommunityIInv,
           \/ \E w \in Writers : MarkWrites(w)
           \/ \E u \in People, i \in Posts \cup Resources : Unmark(u, i)
           \/ \E g \in Categories : DeleteCategory(g)
    PROVE  CommunityIInv'
<1>1. UNCHANGED <<item, files, modLog, removals>>
    BY DEF MarkWrites, Unmark, DeleteCategory
<1>2. (work = [v \in Writers |-> work[v]])' /\ (\A v \in Writers : RequestSound(work[v]))'
    <2>1. CASE work' = work
        BY <1>1, <2>1 DEF CommunityIInv, RequestSound
    <2>2. CASE \E w \in Writers : MarkWrites(w)
        BY <1>1, <2>2, RequestEnds DEF MarkWrites
    <2> QED BY <2>1, <2>2 DEF Unmark, DeleteCategory
<1>3. marks' \subseteq People \X (Posts \cup Resources)
    <2>1. marks \subseteq People \X (Posts \cup Resources)
        BY DEF CommunityIInv
    <2>2. ASSUME NEW w \in Writers, MarkWrites(w)
          PROVE  <<work[w].by, work[w].on>> \in People \X (Posts \cup Resources)
        BY <2>2 DEF MarkWrites, CommunityIInv, RequestSound
    <2> QED BY <2>1, <2>2 DEF MarkWrites, Unmark, DeleteCategory
<1>4. categories' \subseteq Categories /\ ResourceIsWhole'
    BY <1>1 DEF MarkWrites, Unmark, DeleteCategory, InUse, CommunityIInv, ResourceIsWhole
<1>5. (\A i \in Items : ItemSound(i, item[i]))' /\ StatusIsLastAudited' /\ RemovalsAudited'
    BY <1>1 DEF CommunityIInv, ItemSound, StatusIsLastAudited, RecordsOf, RemovalsAudited
<1> QED BY <1>1, <1>2, <1>3, <1>4, <1>5 DEF CommunityIInv

\* A moderation sets a status and appends its record, which is then the item's last.
LEMMA ModerationStep ==
    ASSUME CommunityIInv, NEW w \in Writers, ModerateWrites(w) PROVE CommunityIInv'
<1> PICK i \in Items, from \in Moderations, to \in Moderations :
            i = work[w].on /\ to \in StatusOf(i) /\ from = work[w].from /\ to = work[w].to
    BY DEF ModerateWrites, CommunityIInv, RequestSound, StatusOf, Moderations
<1> DEFINE rec == [item[i] EXCEPT !.moderation = to]
           entry == [on |-> i, from |-> from, to |-> to]
           n == Len(modLog) + 1
<1>1. /\ item' = [item EXCEPT ![i] = rec] /\ Finish(w) /\ modLog' = Append(modLog, entry)
      /\ UNCHANGED <<categories, files, marks, removals>>
    BY DEF ModerateWrites, Logged, CommunityIInv
<1>2. /\ rec \in ItemRecord /\ ItemSound(i, rec) /\ rec.moderation = to
      /\ rec.removed = item[i].removed /\ rec.there = item[i].there
      /\ rec.category = item[i].category
    BY DEF CommunityIInv, ItemRecord, ItemSound, StatusOf, Moderations
<1>3. entry \in AuditRecord /\ entry.on = i /\ entry.to = to
    BY DEF AuditRecord, StatusOf, Moderations
<1> HIDE DEF rec, entry
<1>4. /\ item'[i] = rec /\ (\A j \in Items : j # i => item'[j] = item[j])
      /\ item' \in [Items -> ItemRecord]
    BY <1>1, <1>2 DEF CommunityIInv
<1>5. /\ modLog' \in Seq(AuditRecord) /\ modLog'[n] = entry /\ DOMAIN modLog' = 1 .. n
      /\ DOMAIN modLog = 1 .. Len(modLog) /\ Len(modLog) \in Nat
      /\ \A m \in 1 .. Len(modLog) : modLog'[m] = modLog[m]
    BY <1>1, <1>3 DEF CommunityIInv
<1>6. (work = [v \in Writers |-> work[v]])' /\ (\A v \in Writers : RequestSound(work[v]))'
    BY <1>1, RequestEnds
<1>7. (\A j \in Items : ItemSound(j, item[j]))'
    BY <1>2, <1>4 DEF CommunityIInv, ItemSound
<1>8. RemovalsAudited' /\ ResourceIsWhole'
    BY <1>1, <1>2, <1>4 DEF CommunityIInv, RemovalsAudited, ResourceIsWhole, Items
<1>9. StatusIsLastAudited'
    <2> SUFFICES ASSUME NEW j \in Items
                 PROVE  item'[j].moderation =
                            IF RecordsOf(j)' = {} THEN "clear" ELSE modLog'[Max(RecordsOf(j)')].to
        BY DEF StatusIsLastAudited
    <2>1. CASE j = i
        <3>1. n \in RecordsOf(j)' /\ \A m \in RecordsOf(j)' : m \in Nat /\ m <= n
            BY <1>3, <1>5, <2>1 DEF RecordsOf
        <3>2. Max(RecordsOf(j)') = n
            BY <1>5, <3>1 DEF Max
        <3> QED BY <1>2, <1>3, <1>4, <1>5, <2>1, <3>1, <3>2
    <2>2. CASE j # i
        <3>1. RecordsOf(j)' = RecordsOf(j)
            BY <1>3, <1>5, <2>2 DEF RecordsOf
        <3>2. RecordsOf(j) # {} => modLog'[Max(RecordsOf(j))] = modLog[Max(RecordsOf(j))]
            BY <1>5, LastRecord DEF RecordsOf, CommunityIInv
        <3> QED BY <1>4, <2>2, <3>1, <3>2 DEF CommunityIInv, StatusIsLastAudited
    <2> QED BY <2>1, <2>2
<1> QED BY <1>1, <1>4, <1>5, <1>6, <1>7, <1>8, <1>9 DEF CommunityIInv

\* What a request reads is what it needs to write.
LEMMA ReadStep ==
    ASSUME CommunityIInv, NEW w \in Writers,
           \/ \E p \in Posts : UpdatePostReads(w, p)
           \/ \E p \in Posts, parent \in Comments \cup {"none"} : CommentReads(w, p, parent)
           \/ \E i \in Posts \cup Comments : DeleteReads(w, i)
           \/ \E u \in People, i \in Posts \cup Resources : MarkReads(w, u, i)
           \/ \E r \in Resources, g \in Categories : CreateResourceReads(w, r, g)
           \/ \E i \in Items, action \in DOMAIN ActionStatus : ModerateReads(w, i, action)
           \/ Uploads(w)
    PROVE  CommunityIInv'
<1>1. ASSUME NEW p \in Posts, UpdatePostReads(w, p) PROVE CommunityIInv'
    <2> PICK visible \in BOOLEAN :
            work' = [work EXCEPT ![w] = [op |-> "update", on |-> p, visible |-> visible, row |-> item[p]]]
        BY <1>1 DEF UpdatePostReads, Start
    <2> DEFINE r == [op |-> "update", on |-> p, visible |-> visible, row |-> item[p]]
    <2>1. RequestSound(r)
        BY DEF RequestSound
    <2> HIDE DEF r
    <2> QED BY <1>1, <2>1, RequestStarts DEF UpdatePostReads, CommunityIInv, r
<1>2. ASSUME NEW p \in Posts, NEW parent, CommentReads(w, p, parent) PROVE CommunityIInv'
    <2>1. RequestSound([op |-> "comment", on |-> p])
        BY DEF RequestSound
    <2> QED BY <1>2, <2>1, RequestStarts DEF CommentReads, Start, CommunityIInv
<1>3. ASSUME NEW i \in Posts \cup Comments, DeleteReads(w, i) PROVE CommunityIInv'
    <2> PICK by \in {"author", "admin"} :
            work' = [work EXCEPT ![w] = [op |-> "delete", on |-> i, by |-> by]]
        BY <1>3 DEF DeleteReads, Start
    <2>1. RequestSound([op |-> "delete", on |-> i, by |-> by])
        BY DEF RequestSound
    <2> QED BY <1>3, <2>1, RequestStarts DEF DeleteReads, CommunityIInv
<1>4. ASSUME NEW u \in People, NEW i \in Posts \cup Resources, MarkReads(w, u, i)
      PROVE  CommunityIInv'
    <2>1. RequestSound([op |-> "mark", on |-> i, by |-> u])
        BY DEF RequestSound
    <2> QED BY <1>4, <2>1, RequestStarts DEF MarkReads, Start, CommunityIInv
<1>5. ASSUME NEW r \in Resources, NEW g \in Categories, CreateResourceReads(w, r, g)
      PROVE  CommunityIInv'
    <2>1. RequestSound([op |-> "upload", on |-> r, category |-> g])
        BY DEF RequestSound
    <2> QED BY <1>5, <2>1, RequestStarts DEF CreateResourceReads, Start, CommunityIInv
<1>6. ASSUME NEW i \in Items, NEW action \in DOMAIN ActionStatus, ModerateReads(w, i, action)
      PROVE  CommunityIInv'
    <2> DEFINE to == ActionStatus[action]
    <2>1. item[i].moderation \in Moderations
        BY DEF CommunityIInv, ItemRecord
    <2>2. to \in StatusOf(i)
        BY <1>6 DEF ModerateReads, AllowedActions, ActionStatus, StatusOf
    <2>3. work' = [work EXCEPT ![w] = [op |-> "moderate", on |-> i,
                                       from |-> item[i].moderation, to |-> to]]
        BY <1>6 DEF ModerateReads, Start
    <2> HIDE DEF to
    <2>4. RequestSound([op |-> "moderate", on |-> i, from |-> item[i].moderation, to |-> to])
        BY <2>1, <2>2 DEF RequestSound
    <2> QED BY <1>6, <2>3, <2>4, RequestStarts DEF ModerateReads, CommunityIInv
<1>7. CASE Uploads(w)
    <2>1. work[w].op = "upload" /\ UNCHANGED <<item, categories, marks, modLog, removals>>
        BY <1>7 DEF Uploads
    <2> PICK r \in Resources, g \in Categories : r = work[w].on /\ g = work[w].category
        BY <2>1 DEF CommunityIInv, RequestSound
    <2>2. CASE UNCHANGED files /\ Finish(w)
        <3>1. RequestSound(Idle)
            BY DEF RequestSound, Idle
        <3> QED BY <2>1, <2>2, <3>1, RequestStarts DEF Finish, CommunityIInv
    <2>3. CASE files' = files \cup {r} /\ work' = [work EXCEPT ![w].op = "create"]
        <3> DEFINE new == [op |-> "create", on |-> r, category |-> g]
        <3>1. work[w] = [op |-> "upload", on |-> r, category |-> g]
            BY <2>1 DEF CommunityIInv, RequestSound
        <3>2. work' = [work EXCEPT ![w] = new]
            <4>1. [work[w] EXCEPT !.op = "create"] = new
                BY <3>1
            <4>2. work' = [work EXCEPT ![w] = [work[w] EXCEPT !.op = "create"]]
                BY <2>3
            <4> HIDE DEF new
            <4> QED BY <4>1, <4>2
        <3>3. new.op = "create" /\ new.on = r /\ new.category = g
            OBVIOUS
        <3> HIDE DEF new
        <3>4. (\A v \in Writers : RequestSound(work[v]))'
            <4> SUFFICES ASSUME NEW v \in Writers PROVE RequestSound(work[v])'
                OBVIOUS
            <4>1. CASE v = w
                BY <2>3, <3>2, <3>3, <4>1 DEF CommunityIInv, RequestSound, new
            <4>2. CASE v # w
                BY <2>3, <3>2, <4>2 DEF CommunityIInv, RequestSound
            <4> QED BY <4>1, <4>2
        <3>5. (work = [v \in Writers |-> work[v]])'
            BY <3>2 DEF CommunityIInv
        <3>6. ResourceIsWhole' /\ files' \subseteq Resources
            BY <2>1, <2>3 DEF CommunityIInv, ResourceIsWhole
        <3>7. /\ StatusIsLastAudited' /\ RemovalsAudited'
              /\ (\A i \in Items : ItemSound(i, item[i]))'
            BY <2>1 DEF CommunityIInv, StatusIsLastAudited, RecordsOf, RemovalsAudited, ItemSound
        <3> QED BY <2>1, <3>4, <3>5, <3>6, <3>7 DEF CommunityIInv
    <2> QED BY <1>7, <2>2, <2>3 DEF Uploads
<1> QED BY <1>1, <1>2, <1>3, <1>4, <1>5, <1>6, <1>7

\* Every step keeps the invariant.
LEMMA CommunityStep == CommunityIInv /\ [CommunityNext]_communityVars => CommunityIInv'
<1> SUFFICES ASSUME CommunityIInv, [CommunityNext]_communityVars PROVE CommunityIInv'
    OBVIOUS
<1>1. CASE UNCHANGED communityVars
    BY <1>1 DEF communityVars, CommunityIInv, RequestSound, ItemSound, StatusIsLastAudited,
                RecordsOf, RemovalsAudited, ResourceIsWhole
<1>2. CASE CommunityNext
    BY <1>2, PostStep, CreationStep, MarkStep, ModerationStep, ReadStep DEF CommunityNext
<1> QED BY <1>1, <1>2

LEMMA CommunityAlways == CommunitySpec => []CommunityIInv
BY CommunityInitInvariant, CommunityStep, PTL DEF CommunitySpec

\* What is shown, its category and file and the audit of moderators and administrators
\* agree, whatever requests and moderations cross (community.service.ts, library.service.ts,
\* moderation.service.ts).
THEOREM CommunityConsistentHolds == CommunitySpec => []CommunityConsistent
<1>1. CommunityIInv => CommunityConsistent
    BY DEF CommunityIInv, CommunityConsistent, CommunityTypeOK, ItemRecord, ItemSound, StatusOf
<1> QED BY CommunityAlways, <1>1, PTL

\* No edit, comment or moderation that was under way shows again what was removed.
THEOREM RemovedStaysRemovedHolds == CommunitySpec => RemovedStaysRemoved
<1>1. CommunityIInv /\ [CommunityNext]_communityVars =>
          [\A i \in Items : item[i].removed # "no" => item'[i].removed # "no"]_communityVars
    <2> SUFFICES ASSUME CommunityIInv, CommunityNext, NEW i \in Items, item[i].removed # "no"
                 PROVE  item'[i].removed # "no"
        OBVIOUS
    <2>1. item \in [Items -> ItemRecord] /\ item[i] \in ItemRecord
        BY DEF CommunityIInv
    <2>2. CASE item' = item
        BY <2>2
    <2>3. CASE \E p \in Posts, visible \in BOOLEAN : CreatePost(p, visible)
        BY <2>1, <2>3 DEF CreatePost, ItemRecord
    <2>4. CASE \E w \in Writers : UpdatePostWrites(w)
        BY <2>1, <2>4 DEF UpdatePostWrites, Edited, ItemRecord
    <2>5. CASE \E w \in Writers : DeleteWrites(w)
        <3> PICK w \in Writers : DeleteWrites(w)
            BY <2>5
        <3>1. work[w].by # "no"
            BY DEF DeleteWrites, CommunityIInv, RequestSound
        <3> QED BY <2>1, <3>1 DEF DeleteWrites, ItemRecord
    <2>6. CASE \E w \in Writers : CommentWrites(w)
        BY <2>1, <2>6 DEF CommentWrites, ItemRecord
    <2>7. CASE \E w \in Writers : CreateResourceWrites(w)
        <3> PICK w \in Writers : CreateResourceWrites(w)
            BY <2>7
        <3>1. CASE CategoryThere(w)
            BY <2>1, <3>1 DEF CreateResourceWrites, ItemRecord
        <3>2. CASE ~CategoryThere(w)
            BY <2>1, <3>2 DEF CreateResourceWrites
        <3> QED BY <3>1, <3>2
    <2>8. CASE \E w \in Writers : ModerateWrites(w)
        BY <2>1, <2>8 DEF ModerateWrites, ItemRecord
    <2> QED
        BY <2>2, <2>3, <2>4, <2>5, <2>6, <2>7, <2>8
           DEF CommunityNext, UpdatePostReads, CommentReads, DeleteReads, MarkReads,
               CreateResourceReads, ModerateReads, MarkWrites, Uploads, Unmark, DeleteCategory
<1> QED
    BY <1>1, CommunityAlways, PTL DEF CommunitySpec, RemovedStaysRemoved

-----------------------------------------------------------------------------
(* Jobs: the inductive invariant                                            *)

JobStatuses == {"draft", "published", "closed"}
JobRow == [state : {"none", "there", "deleted"}, status : JobStatuses, open : BOOLEAN]
Change == [from : ApplicationStatuses \cup {"none"}, to : ApplicationStatuses]
ApplicationRow == [status : ApplicationStatuses \cup {"none"}, history : Seq(Change)]

WasPublished(j) == \E i \in DOMAIN trail[j] : trail[j][i] = "published"
HadStatus(a, to) == \E i \in DOMAIN application[a].history : application[a].history[i].to = to

\* What a request relies on between its read and its write: of a row that no other request
\* is about, that the status is the one that was read.
ReliesOn(r) ==
    /\ r = AtDesk \/ r.op \in {"update", "publish", "close", "remove", "save", "apply", "decide", "tell"}
    /\ r.op \in {"update", "publish", "close", "remove"} =>
           r.on \in JobIds /\ posting[r.on].state # "none"
    /\ r.op \in {"save", "apply"} => r.on \in Applications /\ WasPublished(r.on[2])
    /\ r.op = "decide" =>
           /\ r.on \in Applications /\ application[r.on] # NoApplication
           /\ r.from \in ApplicationStatuses /\ r.to \in Transitions(r.from)
    /\ r.op = "tell" => r.on \in Applications /\ r.to \in ApplicationStatuses /\ HadStatus(r.on, r.to)
    /\ r.op = "publish" /\ r.on \notin collided => posting[r.on].status = "draft"
    /\ r.op = "close" /\ r.on \notin collided => posting[r.on].status = "published"
    /\ r.op = "decide" /\ r.on \notin collided => r.from = application[r.on].status

\* Two requests about a row are known to have crossed.
CrossingsNoted ==
    \A c, d \in Clerks :
        c # d /\ clerk[c] # AtDesk /\ clerk[d] # AtDesk /\ clerk[c].on = clerk[d].on =>
            clerk[c].on \in collided

JobRowsSound ==
    /\ trail \in [JobIds -> Seq(JobStatuses)]
    /\ \A j \in JobIds : posting[j].state = "none" => trail[j] = <<>>

ApplicationRowsSound ==
    /\ application \in [Applications -> ApplicationRow]
    /\ \A a \in Applications : application[a].history = <<>> => application[a] = NoApplication

JobsIInv ==
    /\ JobsTypeOK /\ clerk = [c \in Clerks |-> clerk[c]]
    /\ JobRowsSound /\ ApplicationRowsSound
    /\ \A c \in Clerks : ReliesOn(clerk[c])
    /\ CrossingsNoted /\ JobsAudited /\ AppliedWhenPublished /\ HistoryExplains

\* Nothing is published, nobody has applied.
LEMMA JobsInitInvariant == JobsInit => JobsIInv
<1> SUFFICES ASSUME JobsInit PROVE JobsIInv
    OBVIOUS
<1> USE DEF JobsInit
<1>1. JobsTypeOK
    BY DEF JobsTypeOK
<1>2. JobRowsSound /\ JobsAudited
    BY DEF JobRowsSound, JobsAudited
<1>3. ApplicationRowsSound
    BY DEF ApplicationRowsSound, ApplicationRow, NoApplication
<1>4. \A c \in Clerks : clerk[c] = AtDesk /\ ReliesOn(clerk[c])
    BY DEF ReliesOn, AtDesk
<1>5. AppliedWhenPublished /\ HistoryExplains
    BY DEF AppliedWhenPublished, HistoryExplains, NoApplication
<1> QED BY <1>1, <1>2, <1>3, <1>4, <1>5 DEF JobsIInv, CrossingsNoted

\* The rows that two requests in flight are about.
Crossings ==
    {clerk[c].on : c \in {d \in Clerks : clerk[d] # AtDesk /\
        \E e \in Clerks \ {d} : clerk[e] # AtDesk /\ clerk[e].on = clerk[d].on}}

Noted == collided' = collided \cup Crossings'

\* Every step notes the crossings of the requests it leaves in flight.
LEMMA StepNotes ==
    ASSUME JobsIInv, Noted, \A d \in Clerks : ReliesOn(clerk[d])'
    PROVE  CrossingsNoted' /\ collided' \subseteq JobIds \cup Applications /\ collided \subseteq collided'
<1>1. \A d \in Clerks : clerk'[d] # AtDesk => clerk'[d].on \in JobIds \cup Applications
    BY DEF ReliesOn
<1>2. CrossingsNoted'
    BY DEF CrossingsNoted, Crossings, Noted
<1>3. Crossings' \subseteq JobIds \cup Applications
    BY <1>1 DEF Crossings
<1> QED BY <1>2, <1>3 DEF Noted, JobsIInv, JobsTypeOK

\* What the other requests rely on is kept by a step that only adds to the records and
\* changes the status of no row that one of them alone is about.
LEMMA OthersRely ==
    ASSUME JobsIInv, NEW d \in Clerks, clerk'[d] = clerk[d], collided \subseteq collided',
           \A j \in JobIds : posting[j].state # "none" => posting'[j].state # "none",
           \A j \in JobIds : WasPublished(j) => WasPublished(j)',
           \A a \in Applications : application[a] # NoApplication => application'[a] # NoApplication,
           \A a \in Applications, to \in ApplicationStatuses : HadStatus(a, to) => HadStatus(a, to)',
           \A j \in JobIds : clerk[d].op \in {"publish", "close"} /\ clerk[d].on = j /\ j \notin collided' =>
               posting'[j].status = posting[j].status,
           \A a \in Applications : clerk[d].op = "decide" /\ clerk[d].on = a /\ a \notin collided' =>
               application'[a].status = application[a].status
    PROVE  ReliesOn(clerk[d])'
<1>1. ReliesOn(clerk[d])
    BY DEF JobsIInv
<1>0. PICK r : r = clerk[d]
    OBVIOUS
<1>2. r = AtDesk => r.op = "none"
    BY DEF AtDesk
<1>3. r.op \in {"save", "apply"} => r.on[2] \in JobIds
    BY <1>0, <1>1 DEF ReliesOn, Applications
<1>4. r.op \in {"save", "apply"} => WasPublished(r.on[2])'
    BY <1>0, <1>1, <1>3 DEF ReliesOn
<1>5. r.op = "tell" => HadStatus(r.on, r.to)'
    BY <1>0, <1>1 DEF ReliesOn
<1>6. /\ r.op = "publish" /\ r.on \notin collided' => posting'[r.on].status = "draft"
      /\ r.op = "close" /\ r.on \notin collided' => posting'[r.on].status = "published"
      /\ r.op = "decide" /\ r.on \notin collided' => r.from = application'[r.on].status
    BY <1>0, <1>1, <1>2 DEF ReliesOn
<1>7. /\ r = AtDesk \/ r.op \in {"update", "publish", "close", "remove", "save", "apply", "decide", "tell"}
      /\ r.op \in {"update", "publish", "close", "remove"} =>
           r.on \in JobIds /\ posting'[r.on].state # "none"
      /\ r.op \in {"save", "apply"} => r.on \in Applications
      /\ r.op = "decide" =>
           /\ r.on \in Applications /\ application'[r.on] # NoApplication
           /\ r.from \in ApplicationStatuses /\ r.to \in Transitions(r.from)
      /\ r.op = "tell" => r.on \in Applications /\ r.to \in ApplicationStatuses
    BY <1>0, <1>1 DEF ReliesOn
<1>8. ReliesOn(r)'
    BY <1>4, <1>5, <1>6, <1>7 DEF ReliesOn
<1>9. clerk'[d] = r
    BY <1>0
<1> QED BY <1>8, <1>9

-----------------------------------------------------------------------------
(* Jobs: what is written                                                    *)

MayFollow(old, new) ==
    new = old \/ (old = "draft" /\ new = "published") \/ (old = "published" /\ new = "closed")

\* A record is added to the trail of a job, and only its last one may be new.
LEMMA TrailGrows ==
    ASSUME JobsIInv, NEW j \in JobIds, NEW newRow \in JobRow, Recorded(j, newRow), newRow.state # "none"
    PROVE  /\ posting' \in [JobIds -> JobRow] /\ posting'[j] = newRow
           /\ \A k \in JobIds : k # j => posting'[k] = posting[k] /\ trail'[k] = trail[k]
           /\ trail' \in [JobIds -> Seq(JobStatuses)] /\ Len(trail'[j]) = Len(trail[j]) + 1
           /\ trail'[j][Len(trail'[j])] = newRow.status
           /\ \A i \in DOMAIN trail[j] : i \in DOMAIN trail'[j] /\ trail'[j][i] = trail[j][i]
           /\ \A i \in DOMAIN trail'[j] : i = Len(trail'[j]) \/ i \in DOMAIN trail[j]
           /\ JobRowsSound'
           /\ \A k \in JobIds : WasPublished(k) => WasPublished(k)'
<1>1. /\ posting \in [JobIds -> JobRow] /\ trail \in [JobIds -> Seq(JobStatuses)]
      /\ \A k \in JobIds : posting[k].state = "none" => trail[k] = <<>>
    BY DEF JobsIInv, JobsTypeOK, JobRowsSound, JobRow, JobStatuses
<1>2. /\ posting' = [posting EXCEPT ![j] = newRow]
      /\ trail' = [trail EXCEPT ![j] = Append(@, newRow.status)]
      /\ newRow.status \in JobStatuses
    BY DEF Recorded, JobRow
<1>3. trail[j] \in Seq(JobStatuses) /\ trail'[j] = Append(trail[j], newRow.status)
    BY <1>1, <1>2
<1>4. /\ posting' \in [JobIds -> JobRow] /\ posting'[j] = newRow
      /\ \A k \in JobIds : k # j => posting'[k] = posting[k] /\ trail'[k] = trail[k]
    BY <1>1, <1>2
<1>5. trail' \in [JobIds -> Seq(JobStatuses)]
    <2>1. Append(trail[j], newRow.status) \in Seq(JobStatuses)
        BY <1>2, <1>3
    <2> QED BY <1>1, <1>2, <2>1
<1>6. /\ Len(trail'[j]) = Len(trail[j]) + 1 /\ trail'[j][Len(trail'[j])] = newRow.status
      /\ \A i \in DOMAIN trail[j] : i \in DOMAIN trail'[j] /\ trail'[j][i] = trail[j][i]
      /\ \A i \in DOMAIN trail'[j] : i = Len(trail'[j]) \/ i \in DOMAIN trail[j]
    BY <1>2, <1>3
<1>7. JobRowsSound'
    BY <1>1, <1>4, <1>5 DEF JobRowsSound
<1>8. \A k \in JobIds : WasPublished(k) => WasPublished(k)'
    BY <1>4, <1>6 DEF WasPublished
<1> QED BY <1>4, <1>5, <1>6, <1>7, <1>8

\* The audit goes on as the statuses do.
LEMMA JobWritten ==
    ASSUME JobsIInv, NEW j \in JobIds, NEW newRow \in JobRow, Recorded(j, newRow), newRow.state # "none",
           collided \subseteq collided',
           posting[j].state = "none" => newRow.status = "draft",
           posting[j].state # "none" /\ j \notin collided' => MayFollow(posting[j].status, newRow.status)
    PROVE  JobsAudited'
<1>1. /\ posting'[j] = newRow
      /\ \A k \in JobIds : k # j => posting'[k] = posting[k] /\ trail'[k] = trail[k]
      /\ trail' \in [JobIds -> Seq(JobStatuses)] /\ Len(trail'[j]) = Len(trail[j]) + 1
      /\ trail'[j][Len(trail'[j])] = newRow.status
      /\ \A i \in DOMAIN trail[j] : i \in DOMAIN trail'[j] /\ trail'[j][i] = trail[j][i]
      /\ \A i \in DOMAIN trail'[j] : i = Len(trail'[j]) \/ i \in DOMAIN trail[j]
    BY TrailGrows
<1>2. JobsAudited /\ trail[j] \in Seq(JobStatuses) /\ (posting[j].state = "none" => trail[j] = <<>>)
    BY DEF JobsIInv, JobRowsSound
<1>3. ASSUME NEW k \in JobIds, k # j, posting'[k].state # "none"
      PROVE  /\ trail'[k] # <<>> /\ Last(trail'[k]) = posting'[k].status
             /\ k \notin collided' => \A i, m \in DOMAIN trail'[k] : i < m =>
                  /\ trail'[k][i] = "closed" => trail'[k][m] = "closed"
                  /\ trail'[k][i] = "published" => trail'[k][m] # "draft"
    <2>1. posting'[k] = posting[k] /\ trail'[k] = trail[k] /\ (k \notin collided' => k \notin collided)
        BY <1>1, <1>3
    <2>2. /\ trail[k] # <<>> /\ Last(trail[k]) = posting[k].status
          /\ k \notin collided => \A i, m \in DOMAIN trail[k] : i < m =>
                  /\ trail[k][i] = "closed" => trail[k][m] = "closed"
                  /\ trail[k][i] = "published" => trail[k][m] # "draft"
        BY <1>2, <1>3, <2>1 DEF JobsAudited
    <2> QED BY <2>1, <2>2
<1>4. trail'[j] # <<>> /\ Last(trail'[j]) = posting'[j].status
    <2>1. trail'[j] \in Seq(JobStatuses) /\ Len(trail'[j]) > 0
        BY <1>1, <1>2
    <2> QED BY <1>1, <2>1 DEF Last
<1>5. ASSUME j \notin collided', NEW i \in DOMAIN trail'[j], NEW m \in DOMAIN trail'[j], i < m
      PROVE  /\ trail'[j][i] = "closed" => trail'[j][m] = "closed"
             /\ trail'[j][i] = "published" => trail'[j][m] # "draft"
    <2>0. /\ DOMAIN trail[j] = 1 .. Len(trail[j]) /\ DOMAIN trail'[j] = 1 .. Len(trail'[j])
          /\ Len(trail[j]) \in Nat
        BY <1>1, <1>2
    <2>1. i \in DOMAIN trail[j] /\ trail'[j][i] = trail[j][i]
        BY <1>1, <1>5, <2>0
    <2>2. posting[j].state # "none" /\ trail[j] # <<>> /\ trail[j][Len(trail[j])] = posting[j].status
        BY <1>2, <2>0, <2>1 DEF JobsAudited, Last
    <2>3. j \notin collided
        BY <1>5
    <2>4. \A x, y \in DOMAIN trail[j] : x < y =>
              /\ trail[j][x] = "closed" => trail[j][y] = "closed"
              /\ trail[j][x] = "published" => trail[j][y] # "draft"
        BY <1>2, <2>2, <2>3 DEF JobsAudited
    <2>5. CASE m \in DOMAIN trail[j]
        BY <1>1, <1>5, <2>1, <2>4, <2>5
    <2>6. CASE m = Len(trail'[j])
        <3>1. trail'[j][m] = newRow.status /\ MayFollow(posting[j].status, newRow.status)
            BY <1>1, <1>5, <2>2, <2>6
        <3>2. Len(trail[j]) \in DOMAIN trail[j] /\ (i = Len(trail[j]) \/ i < Len(trail[j]))
            BY <2>0, <2>1
        <3>3. /\ trail[j][i] = "closed" => posting[j].status = "closed"
              /\ trail[j][i] = "published" => posting[j].status # "draft"
            <4>1. CASE i = Len(trail[j])
                BY <2>2, <4>1
            <4>2. CASE i < Len(trail[j])
                <5>1. /\ trail[j][i] = "closed" => trail[j][Len(trail[j])] = "closed"
                      /\ trail[j][i] = "published" => trail[j][Len(trail[j])] # "draft"
                    BY <2>1, <2>4, <3>2, <4>2
                <5> QED BY <2>2, <5>1
            <4> QED BY <3>2, <4>1, <4>2
        <3> QED BY <2>1, <3>1, <3>3 DEF MayFollow
    <2> QED BY <1>1, <2>5, <2>6
<1> QED BY <1>3, <1>4, <1>5 DEF JobsAudited

\* A change is added to the history of an application.
LEMMA HistoryGrows ==
    ASSUME JobsIInv, NEW a \in Applications, NEW change \in Change,
           application' = [application EXCEPT ![a] = [status |-> change.to,
                                   history |-> Append(application[a].history, change)]],
           collided \subseteq collided', notified' = notified,
           application[a] = NoApplication => change.from = "none",
           application[a] # NoApplication =>
               /\ change.to \in Transitions(change.from)
               /\ a \notin collided' => change.from = application[a].status
    PROVE  /\ ApplicationRowsSound' /\ HistoryExplains'
           /\ \A b \in Applications : b # a => application'[b] = application[b]
           /\ \A b \in Applications : application[b] # NoApplication => application'[b] # NoApplication
           /\ application'[a] # NoApplication /\ HadStatus(a, change.to)'
           /\ \A b \in Applications, to \in ApplicationStatuses : HadStatus(b, to) => HadStatus(b, to)'
<1> DEFINE old == application[a].history
           new == application'[a].history
<1>1. /\ application \in [Applications -> ApplicationRow] /\ old \in Seq(Change)
      /\ (old = <<>> <=> application[a] = NoApplication)
    BY DEF JobsIInv, ApplicationRowsSound, ApplicationRow, NoApplication
<1>2. /\ application'[a] = [status |-> change.to, history |-> Append(old, change)]
      /\ \A b \in Applications : b # a => application'[b] = application[b]
    BY <1>1
<1>3. new = Append(old, change) /\ application'[a].status = change.to
    BY <1>2
<1>4. /\ new \in Seq(Change) /\ Len(new) = Len(old) + 1 /\ Len(old) \in Nat /\ new[Len(new)] = change
      /\ DOMAIN new = 1 .. Len(new) /\ DOMAIN old = 1 .. Len(old)
      /\ \A i \in DOMAIN old : new[i] = old[i]
    BY <1>1, <1>3
<1>5. \A i \in DOMAIN old : i \in DOMAIN new
    BY <1>4
<1>6. \A i \in DOMAIN new : i = Len(new) \/ i \in DOMAIN old
    BY <1>4
<1>7. change.to \in ApplicationStatuses /\ new # <<>>
    <2>1. change.to \in ApplicationStatuses
        BY DEF Change
    <2>2. Len(new) # 0 /\ Len(<<>>) = 0
        BY <1>4
    <2> QED BY <2>1, <2>2
<1>8. application' \in [Applications -> ApplicationRow]
    <2>1. [status |-> change.to, history |-> Append(old, change)] \in ApplicationRow
        BY <1>3, <1>4, <1>7 DEF ApplicationRow
    <2> QED BY <1>1, <2>1
<1>9. application'[a] # NoApplication
    BY <1>3, <1>7 DEF NoApplication
<1>10. ApplicationRowsSound'
    BY <1>2, <1>7, <1>8 DEF ApplicationRowsSound, JobsIInv
<1>11. \A b \in Applications : application[b] # NoApplication => application'[b] # NoApplication
    BY <1>2, <1>9
<1>12. HadStatus(a, change.to)'
    BY <1>4 DEF HadStatus
<1>13. \A b \in Applications, to \in ApplicationStatuses : HadStatus(b, to) => HadStatus(b, to)'
    BY <1>2, <1>4, <1>5 DEF HadStatus
<1>14. HistoryExplains /\ collided \subseteq collided'
    BY DEF JobsIInv
<1>15. ASSUME NEW b \in Applications, b # a
       PROVE  LET h == application'[b].history IN
              /\ application'[b] # NoApplication =>
                    /\ h # <<>> /\ h[1].from = "none" /\ Last(h).to = application'[b].status
                    /\ \A i \in DOMAIN h : i > 1 => h[i].to \in Transitions(h[i].from)
                    /\ b \notin collided' => \A i \in DOMAIN h : i > 1 => h[i].from = h[i - 1].to
              /\ \A to \in ApplicationStatuses : <<b, to>> \in notified' => \E i \in DOMAIN h : h[i].to = to
    BY <1>2, <1>14, <1>15 DEF HistoryExplains
<1>16. new[1].from = "none"
    <2>1. CASE old = <<>>
        BY <1>1, <1>4, <2>1
    <2>2. CASE old # <<>>
        <3>1. 1 \in DOMAIN old /\ old[1].from = "none"
            BY <1>1, <1>4, <1>14, <2>2 DEF HistoryExplains
        <3> QED BY <1>4, <3>1
    <2> QED BY <2>1, <2>2
<1>17. ASSUME NEW i \in DOMAIN new, i > 1
       PROVE  /\ new[i].to \in Transitions(new[i].from)
              /\ a \notin collided' => new[i].from = new[i - 1].to
    <2>1. CASE i \in DOMAIN old
        <3>1. /\ old[i].to \in Transitions(old[i].from)
              /\ a \notin collided => old[i].from = old[i - 1].to
            BY <1>1, <1>4, <1>14, <1>17, <2>1 DEF HistoryExplains
        <3>2. i - 1 \in DOMAIN old
            BY <1>4, <1>17, <2>1
        <3> QED BY <1>4, <1>14, <2>1, <3>1, <3>2
    <2>2. CASE i = Len(new)
        <3>1. old # <<>> /\ i - 1 = Len(old) /\ Len(old) \in DOMAIN old
            BY <1>4, <1>17, <2>2
        <3>2. Last(old).to = application[a].status
            BY <1>1, <1>14, <3>1 DEF HistoryExplains
        <3>3. new[i - 1].to = application[a].status
            BY <1>4, <3>1, <3>2 DEF Last
        <3> QED BY <1>1, <1>4, <2>2, <3>1, <3>3
    <2> QED BY <1>6, <2>1, <2>2
<1>18. ASSUME NEW to \in ApplicationStatuses, <<a, to>> \in notified'
       PROVE  \E i \in DOMAIN new : new[i].to = to
    <2>1. PICK i \in DOMAIN old : old[i].to = to
        BY <1>14, <1>18 DEF HistoryExplains
    <2>2. i \in DOMAIN new /\ new[i].to = to
        BY <1>4, <1>5, <2>1
    <2> QED BY <2>2
<1>19. Last(new).to = application'[a].status
    BY <1>3, <1>4 DEF Last
<1> HIDE DEF new, old
<1>20. HistoryExplains'
    BY <1>7, <1>15, <1>16, <1>17, <1>18, <1>19 DEF HistoryExplains, new
<1> QED BY <1>2, <1>9, <1>10, <1>11, <1>12, <1>13, <1>20

-----------------------------------------------------------------------------
(* Jobs: the steps                                                          *)

\* What a step leaves as it is, it leaves consistent.
LEMMA RecordsKept ==
    ASSUME JobsIInv, collided \subseteq collided'
    PROVE  /\ posting' = posting /\ trail' = trail => JobRowsSound' /\ JobsAudited'
           /\ application' = application /\ notified' = notified => ApplicationRowsSound' /\ HistoryExplains'
           /\ (\A j \in JobIds : WasPublished(j) => WasPublished(j)') /\ application' = application
                  /\ saved' = saved => AppliedWhenPublished'
<1> USE DEF JobsIInv
<1>1. posting' = posting /\ trail' = trail => JobRowsSound' /\ JobsAudited'
    BY DEF JobRowsSound, JobsAudited
<1>2. application' = application /\ notified' = notified => ApplicationRowsSound' /\ HistoryExplains'
    BY DEF ApplicationRowsSound, HistoryExplains
<1>3. (\A j \in JobIds : WasPublished(j) => WasPublished(j)') /\ application' = application
          /\ saved' = saved => AppliedWhenPublished'
    <2>1. \A a \in Applications : a[2] \in JobIds
        BY DEF Applications
    <2> QED BY <2>1 DEF AppliedWhenPublished, WasPublished
<1> QED BY <1>1, <1>2, <1>3

\* A request begins, or ends, and writes nothing.
LEMMA QuietJobStep ==
    ASSUME JobsIInv, Noted, NEW c \in Clerks, clerk' = [clerk EXCEPT ![c] = clerk'[c]],
           UNCHANGED <<posting, trail, application, saved, notified>>, ReliesOn(clerk[c])'
    PROVE  JobsIInv'
<1>1. clerk = [d \in Clerks |-> clerk[d]] /\ JobsTypeOK
    BY DEF JobsIInv
<1>2. (clerk = [d \in Clerks |-> clerk[d]])' /\ \A d \in Clerks : d # c => clerk'[d] = clerk[d]
    BY <1>1
<1>3. collided \subseteq collided'
    BY DEF Noted
<1>4. ASSUME NEW d \in Clerks PROVE ReliesOn(clerk[d])'
    <2>1. CASE d = c
        BY <2>1
    <2>2. CASE d # c
        BY <1>2, <1>3, <2>2, OthersRely DEF WasPublished, HadStatus
    <2> QED BY <2>1, <2>2
<1>5. CrossingsNoted' /\ collided' \subseteq JobIds \cup Applications
    BY <1>4, StepNotes
<1>6. JobsTypeOK'
    BY <1>1, <1>5 DEF JobsTypeOK
<1>7. \A j \in JobIds : WasPublished(j) => WasPublished(j)'
    BY DEF WasPublished
<1> QED BY <1>2, <1>3, <1>4, <1>5, <1>6, <1>7, RecordsKept DEF JobsIInv

\* Requests read: the status they check is the one they rely on.
LEMMA ReadsStep ==
    ASSUME JobsIInv, Noted, NEW c \in Clerks,
           \/ \E j \in JobIds, op \in {"update", "publish", "close", "remove"} : ChangeReads(c, j, op)
           \/ \E a \in Applications, op \in {"save", "apply"} : CandidateReads(c, a, op)
           \/ \E a \in Applications, to \in ApplicationStatuses : StatusReads(c, a, to)
           \/ ClerkStops(c)
    PROVE  JobsIInv'
<1>1. ASSUME NEW j \in JobIds, NEW op \in {"update", "publish", "close", "remove"}, ChangeReads(c, j, op)
      PROVE  JobsIInv'
    <2>1. clerk' = [clerk EXCEPT ![c] = [op |-> op, on |-> j]] /\ MayChange(j, op)
          /\ UNCHANGED <<posting, trail, application, saved, notified>>
        BY <1>1 DEF ChangeReads, Asks
    <2>2. clerk'[c] = [op |-> op, on |-> j]
        BY <2>1 DEF JobsIInv
    <2>3. ReliesOn(clerk[c])'
        BY <2>1, <2>2 DEF ReliesOn, MayChange, JobThere
    <2> QED BY <2>1, <2>2, <2>3, QuietJobStep
<1>2. ASSUME NEW a \in Applications, NEW op \in {"save", "apply"}, CandidateReads(c, a, op)
      PROVE  JobsIInv'
    <2>1. clerk' = [clerk EXCEPT ![c] = [op |-> op, on |-> a]] /\ Active(a[2])
          /\ UNCHANGED <<posting, trail, application, saved, notified>>
        BY <1>2 DEF CandidateReads, Asks
    <2>2. clerk'[c] = [op |-> op, on |-> a]
        BY <2>1 DEF JobsIInv
    <2>3. WasPublished(a[2])
        <3>1. a[2] \in JobIds /\ posting[a[2]].state = "there" /\ posting[a[2]].status = "published"
            BY <2>1 DEF Applications, Active, JobThere
        <3>2. trail[a[2]] \in Seq(JobStatuses) /\ trail[a[2]] # <<>>
              /\ trail[a[2]][Len(trail[a[2]])] = "published"
            BY <3>1 DEF JobsIInv, JobRowsSound, JobsAudited, Last
        <3> QED BY <3>2 DEF WasPublished
    <2>4. ReliesOn(clerk[c])'
        BY <2>1, <2>2, <2>3 DEF ReliesOn, WasPublished
    <2> QED BY <2>1, <2>2, <2>4, QuietJobStep
<1>3. ASSUME NEW a \in Applications, NEW to \in ApplicationStatuses, StatusReads(c, a, to)
      PROVE  JobsIInv'
    <2>1. clerk' = [clerk EXCEPT ![c] =
                        [op |-> "decide", on |-> a, from |-> application[a].status, to |-> to]]
          /\ application[a] # NoApplication /\ to \in Transitions(application[a].status)
          /\ UNCHANGED <<posting, trail, application, saved, notified>>
        BY <1>3 DEF StatusReads, Asks
    <2>2. clerk'[c] = [op |-> "decide", on |-> a, from |-> application[a].status, to |-> to]
        BY <2>1 DEF JobsIInv
    <2>3. application[a].status \in ApplicationStatuses
        BY <2>1 DEF Transitions, ApplicationStatuses
    <2>4. ReliesOn(clerk[c])'
        BY <2>1, <2>2, <2>3 DEF ReliesOn
    <2> QED BY <2>1, <2>2, <2>4, QuietJobStep
<1>4. CASE ClerkStops(c)
    <2>1. clerk' = [clerk EXCEPT ![c] = AtDesk] /\ UNCHANGED <<posting, trail, application, saved, notified>>
        BY <1>4 DEF ClerkStops, Leaves
    <2>2. clerk'[c] = AtDesk
        BY <2>1 DEF JobsIInv
    <2>3. ReliesOn(clerk[c])'
        BY <2>2 DEF ReliesOn, AtDesk
    <2> QED BY <2>1, <2>2, <2>3, QuietJobStep
<1> QED BY <1>1, <1>2, <1>3, <1>4

\* A job is written: by a creation, of a job nobody could be about, or by a request that is.
LEMMA RecordedStep ==
    ASSUME JobsIInv, Noted, NEW j \in JobIds, NEW newRow \in JobRow, Recorded(j, newRow), newRow.state # "none",
           UNCHANGED <<application, saved, notified>>,
           \/ posting[j].state = "none" /\ newRow.status = "draft" /\ clerk' = clerk
           \/ /\ posting[j].state # "none"
              /\ j \notin collided' => MayFollow(posting[j].status, newRow.status)
              /\ \E c \in Clerks : clerk[c] # AtDesk /\ clerk[c].on = j /\ Leaves(c)
    PROVE  JobsIInv'
<1>1. clerk = [d \in Clerks |-> clerk[d]] /\ JobsTypeOK /\ CrossingsNoted
      /\ \A d \in Clerks : ReliesOn(clerk[d])
    BY DEF JobsIInv
<1>2. collided \subseteq collided'
    BY DEF Noted
<1>3. /\ posting' \in [JobIds -> JobRow] /\ posting'[j] = newRow
      /\ \A k \in JobIds : k # j => posting'[k] = posting[k]
      /\ JobRowsSound' /\ \A k \in JobIds : WasPublished(k) => WasPublished(k)'
    BY TrailGrows
<1>4. JobsAudited'
    BY <1>2, JobWritten
<1>5. \A k \in JobIds : posting[k].state # "none" => posting'[k].state # "none"
    BY <1>3
<1>6. (clerk = [d \in Clerks |-> clerk[d]])'
    BY <1>1 DEF Leaves
<1>7. ASSUME NEW d \in Clerks PROVE ReliesOn(clerk[d])'
    <2>1. CASE clerk'[d] = AtDesk
        BY <2>1 DEF ReliesOn, AtDesk
    <2>2. CASE clerk'[d] # AtDesk
        <3>1. clerk'[d] = clerk[d]
            BY <1>1, <2>2 DEF Leaves
        <3>2. ASSUME clerk[d].op \in {"publish", "close"}, clerk[d].on = j, j \notin collided'
              PROVE  FALSE
            <4>1. posting[j].state # "none"
                BY <1>1, <3>2 DEF ReliesOn
            <4>2. PICK c \in Clerks : clerk[c] # AtDesk /\ clerk[c].on = j /\ Leaves(c)
                BY <4>1
            <4>3. c # d
                BY <1>1, <2>2, <4>2 DEF Leaves
            <4> QED BY <1>1, <1>2, <2>2, <3>1, <3>2, <4>2, <4>3 DEF CrossingsNoted
        <3>3. \A k \in JobIds : clerk[d].op \in {"publish", "close"} /\ clerk[d].on = k /\ k \notin collided' =>
                  posting'[k].status = posting[k].status
            BY <1>3, <3>2
        <3> QED BY <1>2, <1>3, <1>5, <3>1, <3>3, OthersRely DEF HadStatus
    <2> QED BY <2>1, <2>2
<1>8. CrossingsNoted' /\ collided' \subseteq JobIds \cup Applications
    BY <1>7, StepNotes
<1>9. JobsTypeOK'
    BY <1>1, <1>3, <1>8 DEF JobsTypeOK, JobRow, JobStatuses
<1>10. ApplicationRowsSound' /\ HistoryExplains' /\ AppliedWhenPublished'
    BY <1>2, <1>3, RecordsKept
<1> QED BY <1>3, <1>4, <1>6, <1>7, <1>8, <1>9, <1>10 DEF JobsIInv

\* A row is deleted or its closing date passes: its status stays as the audit has it.
LEMMA RowTouchedStep ==
    ASSUME JobsIInv, Noted, UNCHANGED <<trail, application, saved, notified>>,
           (clerk = [d \in Clerks |-> clerk[d]])',
           \A d \in Clerks : clerk'[d] = clerk[d] \/ clerk'[d] = AtDesk,
           posting' \in [JobIds -> JobRow],
           \A j \in JobIds : /\ posting'[j].status = posting[j].status
                             /\ posting'[j].state = "none" <=> posting[j].state = "none"
    PROVE  JobsIInv'
<1>1. collided \subseteq collided'
    BY DEF Noted
<1>2. \A j \in JobIds : WasPublished(j) => WasPublished(j)'
    BY DEF WasPublished
<1>3. ASSUME NEW d \in Clerks PROVE ReliesOn(clerk[d])'
    <2>1. CASE clerk'[d] = AtDesk
        BY <2>1 DEF ReliesOn, AtDesk
    <2>2. CASE clerk'[d] = clerk[d]
        BY <1>1, <1>2, <2>2, OthersRely DEF HadStatus
    <2> QED BY <2>1, <2>2
<1>4. CrossingsNoted' /\ collided' \subseteq JobIds \cup Applications
    BY <1>3, StepNotes
<1>5. JobsTypeOK'
    BY <1>4 DEF JobsTypeOK, JobsIInv, JobRow, JobStatuses
<1>6. JobRowsSound' /\ JobsAudited'
    BY <1>1 DEF JobRowsSound, JobsAudited, JobsIInv
<1> QED BY <1>1, <1>2, <1>3, <1>4, <1>5, <1>6, RecordsKept DEF JobsIInv

\* Jobs are created, edited, published, closed and deleted.
LEMMA JobStep ==
    ASSUME JobsIInv, Noted,
           \/ \E j \in JobIds : ClosingDatePasses(j) \/ \E open \in BOOLEAN : CreateJob(j, open)
           \/ \E c \in Clerks : \/ \E open \in BOOLEAN : UpdateJob(c, open)
                                \/ Transition(c) \/ RemoveJob(c)
    PROVE  JobsIInv'
<1>1. /\ clerk = [d \in Clerks |-> clerk[d]] /\ \A d \in Clerks : ReliesOn(clerk[d])
      /\ posting \in [JobIds -> JobRow] /\ collided \subseteq collided'
    BY DEF JobsIInv, JobsTypeOK, JobRow, JobStatuses, Noted
<1>2. ASSUME NEW j \in JobIds, ClosingDatePasses(j) PROVE JobsIInv'
    <2>1. posting' = [posting EXCEPT ![j].open = FALSE] /\ clerk' = clerk
          /\ UNCHANGED <<trail, application, saved, notified>>
        BY <1>2 DEF ClosingDatePasses
    <2>2. /\ posting' \in [JobIds -> JobRow]
          /\ \A k \in JobIds : posting'[k].status = posting[k].status /\ posting'[k].state = posting[k].state
        BY <1>1, <2>1 DEF JobRow
    <2> QED BY <1>1, <2>1, <2>2, RowTouchedStep
<1>3. ASSUME NEW j \in JobIds, NEW open \in BOOLEAN, CreateJob(j, open) PROVE JobsIInv'
    <2> DEFINE newRow == [state |-> "there", status |-> "draft", open |-> open]
    <2>1. /\ newRow \in JobRow /\ newRow.state # "none" /\ newRow.status = "draft"
          /\ Recorded(j, newRow) /\ posting[j].state = "none" /\ clerk' = clerk
          /\ UNCHANGED <<application, saved, notified>>
        BY <1>3 DEF CreateJob, JobRow, JobStatuses
    <2> HIDE DEF newRow
    <2> QED BY <2>1, RecordedStep
<1>4. ASSUME NEW c \in Clerks, NEW open \in BOOLEAN, UpdateJob(c, open) PROVE JobsIInv'
    <2> DEFINE j == clerk[c].on
               newRow == [posting[j] EXCEPT !.open = open]
    <2>1. /\ clerk[c].op = "update" /\ Leaves(c) /\ Recorded(j, newRow)
          /\ UNCHANGED <<application, saved, notified>>
        BY <1>4 DEF UpdateJob
    <2>2. j \in JobIds /\ posting[j].state # "none" /\ clerk[c] # AtDesk
        BY <1>1, <2>1 DEF ReliesOn, AtDesk
    <2>3. newRow \in JobRow /\ newRow.state # "none" /\ MayFollow(posting[j].status, newRow.status)
        BY <1>1, <2>2 DEF JobRow, MayFollow
    <2> HIDE DEF newRow, j
    <2>4. \E d \in Clerks : clerk[d] # AtDesk /\ clerk[d].on = j /\ Leaves(d)
        BY <2>1, <2>2 DEF j
    <2> QED BY <2>1, <2>2, <2>3, <2>4, RecordedStep
<1>5. ASSUME NEW c \in Clerks, Transition(c) PROVE JobsIInv'
    <2> DEFINE j == clerk[c].on
               newRow == [posting[j] EXCEPT !.status =
                           IF clerk[c].op = "publish" THEN "published" ELSE "closed"]
    <2>1. /\ clerk[c].op \in {"publish", "close"} /\ Leaves(c) /\ Recorded(j, newRow)
          /\ UNCHANGED <<application, saved, notified>>
        BY <1>5 DEF Transition
    <2>2. /\ j \in JobIds /\ posting[j].state # "none" /\ clerk[c] # AtDesk
          /\ clerk[c].op = "publish" /\ j \notin collided => posting[j].status = "draft"
          /\ clerk[c].op = "close" /\ j \notin collided => posting[j].status = "published"
        BY <1>1, <2>1 DEF ReliesOn, AtDesk
    <2>3. /\ newRow \in JobRow /\ newRow.state # "none"
          /\ newRow.status = IF clerk[c].op = "publish" THEN "published" ELSE "closed"
        BY <1>1, <2>2 DEF JobRow, JobStatuses
    <2>4. j \notin collided' => MayFollow(posting[j].status, newRow.status)
        BY <1>1, <2>1, <2>2, <2>3 DEF MayFollow
    <2> HIDE DEF newRow, j
    <2>5. \E d \in Clerks : clerk[d] # AtDesk /\ clerk[d].on = j /\ Leaves(d)
        BY <2>1, <2>2 DEF j
    <2> QED BY <2>1, <2>2, <2>3, <2>4, <2>5, RecordedStep
<1>6. ASSUME NEW c \in Clerks, RemoveJob(c) PROVE JobsIInv'
    <2> DEFINE j == clerk[c].on
    <2>1. /\ clerk[c].op = "remove" /\ clerk' = [clerk EXCEPT ![c] = AtDesk]
          /\ posting' = [posting EXCEPT ![j].state = "deleted"]
          /\ UNCHANGED <<trail, application, saved, notified>>
        BY <1>6 DEF RemoveJob, Leaves
    <2>2. j \in JobIds /\ posting[j].state # "none"
        BY <1>1, <2>1 DEF ReliesOn
    <2> HIDE DEF j
    <2>3. /\ posting' \in [JobIds -> JobRow]
          /\ \A k \in JobIds : /\ posting'[k].status = posting[k].status
                               /\ posting'[k].state = "none" <=> posting[k].state = "none"
        BY <1>1, <2>1, <2>2 DEF JobRow
    <2>4. /\ (clerk = [d \in Clerks |-> clerk[d]])'
          /\ \A d \in Clerks : clerk'[d] = clerk[d] \/ clerk'[d] = AtDesk
        BY <1>1, <2>1
    <2> QED BY <2>1, <2>3, <2>4, RowTouchedStep
<1> QED BY <1>2, <1>3, <1>4, <1>5, <1>6

\* The row of an application and its history are written by a request that may have crossed.
LEMMA ChangeStep ==
    ASSUME JobsIInv, Noted, NEW c \in Clerks, NEW change \in Change,
           clerk[c] # AtDesk, clerk[c].on \in Applications,
           application' = [application EXCEPT ![clerk[c].on] = [status |-> change.to,
                               history |-> Append(application[clerk[c].on].history, change)]],
           UNCHANGED <<posting, trail, saved, notified>>,
           clerk' = [clerk EXCEPT ![c] = clerk'[c]],
           \/ clerk'[c] = AtDesk
           \/ clerk'[c] = [op |-> "tell", on |-> clerk[c].on, to |-> change.to],
           application[clerk[c].on] = NoApplication =>
               change.from = "none" /\ WasPublished(clerk[c].on[2]),
           application[clerk[c].on] # NoApplication =>
               /\ change.to \in Transitions(change.from)
               /\ clerk[c].on \notin collided' => change.from = application[clerk[c].on].status
    PROVE  JobsIInv'
<1>0. PICK a \in Applications : a = clerk[c].on
    OBVIOUS
<1>1. /\ clerk = [d \in Clerks |-> clerk[d]] /\ JobsTypeOK /\ CrossingsNoted
      /\ \A d \in Clerks : ReliesOn(clerk[d])
    BY DEF JobsIInv
<1>2. collided \subseteq collided' /\ a \in Applications
    BY <1>0 DEF Noted
<1>3. /\ ApplicationRowsSound' /\ HistoryExplains'
      /\ \A b \in Applications : b # a => application'[b] = application[b]
      /\ \A b \in Applications : application[b] # NoApplication => application'[b] # NoApplication
      /\ application'[a] # NoApplication /\ HadStatus(a, change.to)'
      /\ \A b \in Applications, to \in ApplicationStatuses : HadStatus(b, to) => HadStatus(b, to)'
    <2>1. /\ application' = [application EXCEPT ![a] = [status |-> change.to,
                                history |-> Append(application[a].history, change)]]
          /\ notified' = notified
          /\ application[a] = NoApplication => change.from = "none"
          /\ application[a] # NoApplication =>
                 /\ change.to \in Transitions(change.from)
                 /\ a \notin collided' => change.from = application[a].status
        BY <1>0
    <2> QED BY <1>2, <2>1, HistoryGrows
<1>4. (clerk = [d \in Clerks |-> clerk[d]])' /\ \A d \in Clerks : d # c => clerk'[d] = clerk[d]
    BY <1>1
<1>5. ASSUME NEW d \in Clerks PROVE ReliesOn(clerk[d])'
    <2>1. CASE clerk'[d] = AtDesk
        BY <2>1 DEF ReliesOn, AtDesk
    <2>2. CASE clerk'[d] = [op |-> "tell", on |-> a, to |-> change.to]
        <3>1. change.to \in ApplicationStatuses
            BY DEF Change
        <3>2. clerk'[d].op = "tell" /\ clerk'[d].on = a /\ clerk'[d].to = change.to
            BY <2>2
        <3>3. HadStatus(clerk[d].on, clerk[d].to)'
            <4>1. HadStatus(a, change.to)'
                BY <1>3
            <4>2. PICK i \in DOMAIN application'[a].history : application'[a].history[i].to = change.to
                BY <4>1 DEF HadStatus
            <4> QED BY <3>2, <4>2 DEF HadStatus
        <3> QED BY <1>2, <3>1, <3>2, <3>3 DEF ReliesOn
    <2>3. CASE d # c
        <3>1. clerk'[d] = clerk[d]
            BY <1>4, <2>3
        <3>2. ASSUME clerk[d].op = "decide", clerk[d].on = a, a \notin collided' PROVE FALSE
            <4>1. clerk[d] # AtDesk
                BY <3>2 DEF AtDesk
            <4> QED BY <1>1, <1>2, <2>3, <3>2, <4>1, <1>0 DEF CrossingsNoted
        <3>3. \A b \in Applications : clerk[d].op = "decide" /\ clerk[d].on = b /\ b \notin collided' =>
                  application'[b].status = application[b].status
            BY <1>3, <3>2
        <3> QED BY <1>2, <1>3, <3>1, <3>3, OthersRely DEF WasPublished
    <2> QED BY <1>0, <2>1, <2>2, <2>3
<1>6. CrossingsNoted' /\ collided' \subseteq JobIds \cup Applications
    BY <1>5, StepNotes
<1>7. JobsTypeOK'
    BY <1>1, <1>6 DEF JobsTypeOK
<1>8. JobRowsSound' /\ JobsAudited'
    BY <1>2, RecordsKept
<1>9. AppliedWhenPublished'
    <2>1. AppliedWhenPublished
        BY DEF JobsIInv
    <2>2. WasPublished(a[2])
        BY <1>0, <1>2, <2>1 DEF AppliedWhenPublished, WasPublished
    <2> QED BY <1>3, <2>1, <2>2 DEF AppliedWhenPublished, WasPublished
<1> QED BY <1>3, <1>4, <1>5, <1>6, <1>7, <1>8, <1>9 DEF JobsIInv

\* Candidates save jobs, apply, and are told of what becomes of their applications.
LEMMA CandidateStep ==
    ASSUME JobsIInv, Noted,
           \/ \E a \in Applications : UnsaveJob(a)
           \/ \E c \in Clerks : SaveJob(c) \/ ApplyToJob(c) \/ UpdateStatus(c) \/ Tell(c)
    PROVE  JobsIInv'
<1>1. /\ clerk = [d \in Clerks |-> clerk[d]] /\ JobsTypeOK /\ AppliedWhenPublished /\ HistoryExplains
      /\ \A d \in Clerks : ReliesOn(clerk[d])
      /\ ApplicationRowsSound /\ collided \subseteq collided'
    BY DEF JobsIInv, Noted
<1>2. ASSUME UNCHANGED <<posting, trail, application>>,
             (clerk = [d \in Clerks |-> clerk[d]])',
             \A d \in Clerks : clerk'[d] = clerk[d] \/ clerk'[d] = AtDesk,
             saved' \subseteq Applications, notified' \subseteq Applications \X ApplicationStatuses,
             AppliedWhenPublished', HistoryExplains'
      PROVE  JobsIInv'
    <2>1. ASSUME NEW d \in Clerks PROVE ReliesOn(clerk[d])'
        <3>1. CASE clerk'[d] = AtDesk
            BY <3>1 DEF ReliesOn, AtDesk
        <3>2. CASE clerk'[d] = clerk[d]
            BY <1>1, <1>2, <3>2, OthersRely DEF HadStatus, WasPublished
        <3> QED BY <1>2, <3>1, <3>2
    <2>2. CrossingsNoted' /\ collided' \subseteq JobIds \cup Applications
        BY <2>1, StepNotes
    <2>3. JobsTypeOK'
        BY <1>1, <1>2, <2>2 DEF JobsTypeOK
    <2>4. JobRowsSound' /\ JobsAudited'
        BY <1>1, <1>2, RecordsKept
    <2>5. ApplicationRowsSound'
        BY <1>1, <1>2 DEF ApplicationRowsSound
    <2> QED BY <1>2, <2>1, <2>2, <2>3, <2>4, <2>5 DEF JobsIInv
<1>3. ASSUME NEW a \in Applications, UnsaveJob(a) PROVE JobsIInv'
    <2>1. AppliedWhenPublished' /\ HistoryExplains'
        BY <1>1, <1>3 DEF UnsaveJob, AppliedWhenPublished, HistoryExplains
    <2> QED BY <1>1, <1>2, <1>3, <2>1 DEF UnsaveJob, JobsTypeOK
<1>4. ASSUME NEW c \in Clerks, SaveJob(c) PROVE JobsIInv'
    <2>1. /\ clerk' = [clerk EXCEPT ![c] = AtDesk] /\ saved' = saved \cup {clerk[c].on}
          /\ UNCHANGED <<posting, trail, application, notified>>
          /\ clerk[c].on \in Applications /\ WasPublished(clerk[c].on[2])
        BY <1>1, <1>4 DEF SaveJob, Leaves, ReliesOn
    <2>2. AppliedWhenPublished' /\ HistoryExplains'
        BY <1>1, <2>1 DEF AppliedWhenPublished, HistoryExplains, WasPublished
    <2>3. /\ (clerk = [d \in Clerks |-> clerk[d]])'
          /\ \A d \in Clerks : clerk'[d] = clerk[d] \/ clerk'[d] = AtDesk
        BY <1>1, <2>1
    <2> QED BY <1>1, <1>2, <2>1, <2>2, <2>3 DEF JobsTypeOK
<1>5. ASSUME NEW c \in Clerks, ApplyToJob(c) PROVE JobsIInv'
    <2> DEFINE change == [from |-> "none", to |-> "submitted"]
    <2>1. /\ clerk' = [clerk EXCEPT ![c] = AtDesk] /\ clerk[c] # AtDesk
          /\ application[clerk[c].on] = NoApplication
          /\ application' = [application EXCEPT ![clerk[c].on] =
                                [status |-> "submitted", history |-> <<change>>]]
          /\ UNCHANGED <<posting, trail, saved, notified>>
          /\ clerk[c].on \in Applications /\ WasPublished(clerk[c].on[2])
        BY <1>1, <1>5 DEF ApplyToJob, Leaves, ReliesOn, AtDesk
    <2>2. change \in Change /\ change.from = "none" /\ change.to = "submitted"
        BY DEF Change, ApplicationStatuses
    <2>3. <<change>> = Append(application[clerk[c].on].history, change)
        BY <2>1 DEF NoApplication
    <2>4. clerk'[c] = AtDesk /\ clerk' = [clerk EXCEPT ![c] = clerk'[c]]
        BY <1>1, <2>1
    <2> HIDE DEF change
    <2>5. application' = [application EXCEPT ![clerk[c].on] = [status |-> change.to,
                              history |-> Append(application[clerk[c].on].history, change)]]
        BY <2>1, <2>2, <2>3
    <2> QED BY <2>1, <2>2, <2>4, <2>5, ChangeStep
<1>6. ASSUME NEW c \in Clerks, UpdateStatus(c) PROVE JobsIInv'
    <2> DEFINE change == [from |-> clerk[c].from, to |-> clerk[c].to]
    <2>1. /\ clerk[c].op = "decide"
          /\ application' = [application EXCEPT ![clerk[c].on] = [status |-> change.to,
                                 history |-> Append(application[clerk[c].on].history, change)]]
          /\ \/ clerk' = [clerk EXCEPT ![c] = AtDesk]
             \/ clerk' = [clerk EXCEPT ![c] = [op |-> "tell", on |-> clerk[c].on, to |-> change.to]]
          /\ UNCHANGED <<posting, trail, saved, notified>>
        BY <1>6 DEF UpdateStatus, Leaves
    <2>2. /\ clerk[c] # AtDesk /\ clerk[c].on \in Applications
          /\ application[clerk[c].on] # NoApplication
          /\ clerk[c].from \in ApplicationStatuses /\ clerk[c].to \in Transitions(clerk[c].from)
          /\ clerk[c].on \notin collided' => clerk[c].from = application[clerk[c].on].status
        BY <1>1, <2>1 DEF ReliesOn, AtDesk
    <2>3. clerk[c].to \in ApplicationStatuses
        BY <2>2 DEF Transitions, ApplicationStatuses
    <2>4. change \in Change /\ change.from = clerk[c].from /\ change.to = clerk[c].to
        BY <2>2, <2>3 DEF Change
    <2> HIDE DEF change
    <2>5. /\ clerk' = [clerk EXCEPT ![c] = clerk'[c]]
          /\ \/ clerk'[c] = AtDesk
             \/ clerk'[c] = [op |-> "tell", on |-> clerk[c].on, to |-> change.to]
        BY <1>1, <2>1
    <2> QED BY <2>1, <2>2, <2>4, <2>5, ChangeStep
<1>7. ASSUME NEW c \in Clerks, Tell(c) PROVE JobsIInv'
    <2>1. /\ clerk' = [clerk EXCEPT ![c] = AtDesk] /\ notified' = notified \cup {<<clerk[c].on, clerk[c].to>>}
          /\ UNCHANGED <<posting, trail, application, saved>>
          /\ clerk[c].on \in Applications /\ clerk[c].to \in ApplicationStatuses
          /\ HadStatus(clerk[c].on, clerk[c].to)
        BY <1>1, <1>7 DEF Tell, Leaves, ReliesOn
    <2>2. AppliedWhenPublished' /\ HistoryExplains'
        BY <1>1, <2>1 DEF AppliedWhenPublished, HistoryExplains, HadStatus
    <2>3. /\ (clerk = [d \in Clerks |-> clerk[d]])'
          /\ \A d \in Clerks : clerk'[d] = clerk[d] \/ clerk'[d] = AtDesk
        BY <1>1, <2>1
    <2> QED BY <1>1, <1>2, <2>1, <2>2, <2>3 DEF JobsTypeOK
<1> QED BY <1>3, <1>4, <1>5, <1>6, <1>7

\* Every step of a request or of the clock.
LEMMA JobsStep == JobsIInv /\ [JobsNext]_jobVars => JobsIInv'
<1>1. CASE JobsNext
    <2>1. JobsNext => Noted
        BY DEF JobsNext, Noted, Crossings
    <2> QED BY <1>1, <2>1, ReadsStep, JobStep, CandidateStep DEF JobsNext
<1>2. CASE UNCHANGED jobVars
    BY <1>2 DEF jobVars, JobsIInv, JobsTypeOK, JobRowsSound, ApplicationRowsSound, ReliesOn, WasPublished,
                HadStatus, CrossingsNoted, JobsAudited, AppliedWhenPublished, HistoryExplains
<1> QED BY <1>1, <1>2

\* However the requests of administrators and candidates interleave, whatever they read before,
\* the audit of a job ends with its status, and the history of an application explains its own.
THEOREM JobsConsistentHolds == JobsSpec => []JobsConsistent
<1>1. JobsIInv => JobsConsistent
    BY DEF JobsIInv, JobsConsistent
<1> QED BY JobsInitInvariant, JobsStep, <1>1, PTL DEF JobsSpec

-----------------------------------------------------------------------------
(* Media: the inductive invariant                                           *)

ImageRow == [state : {"none", "there", "deleted"}, key : ImageKeys \cup {NoKey}]
LessonRow == [state : {"none", "there", "deleted"}, media : LessonMedia]

\* The object a request has stored and no row names yet.
Stores(u) == IF u.op \in {"create", "update"} THEN {u.new} \ {NoKey} ELSE {}

\* The object a request is to delete, or may be.
Dooms(u) ==
    (CASE u.op \in {"update", "delete"} -> {u.old}
       [] u.op = "remove" -> {u.key}
       [] OTHER -> {}) \ {NoKey}

\* A request about an image: what it stored is named by no row; what it is to replace is
\* named by no row but its own, and what it deletes by none that is there.
UploadSound(u) ==
    /\ u.op = "create" => u = [op |-> "create", rows |-> u.rows, new |-> u.new]
    /\ u.op = "update" => u = [op |-> "update", on |-> u.on, old |-> u.old, new |-> u.new]
    /\ u.op \in {"create", "update"} => u.new \in ImageKeys \cup {NoKey}
    /\ u.op \in {"update", "delete"} => u.on \in ImageRows /\ u.old \in ImageKeys \cup {NoKey}
    /\ u.op = "delete" => u.on \in PortfolioItems
    /\ u.op = "remove" => u.key \in ImageKeys
    /\ u.op = "create" => u.rows \subseteq ImageRows
    /\ \A k \in Stores(u) : k \in stored /\ \A i \in ImageRows : image[i].key # k
    /\ \A k \in Dooms(u) :
           /\ k \in drawn
           /\ \A i \in ImageRows : image[i].key = k =>
                  IF u.op = "remove" THEN image[i].state # "there" ELSE i = u.on

\* A stored object has one request, and no request is to delete it.
StoredOnce ==
    \A r, s \in Uploaders :
        /\ r # s => Stores(upload[r]) \cap Stores(upload[s]) = {}
        /\ Stores(upload[r]) \cap Dooms(upload[s]) = {}

ImagesIInv ==
    /\ image \in [ImageRows -> ImageRow] /\ upload = [r \in Uploaders |-> upload[r]]
    /\ \A i \in ImageRows : image[i].key # NoKey => image[i].key \in drawn
    /\ \A r \in Uploaders : UploadSound(upload[r])
    /\ StoredOnce /\ ImagesStored

\* A request about lessons: keys it has checked are in the bucket, and what it found free is
\* referred to by no lesson, unless another request named them as well.
AuthorSound(w) ==
    /\ w.op \in {"none", "save", "delete", "clean"}
    /\ w.op = "save" =>
           /\ w = [op |-> "save", on |-> w.on, given |-> w.given, unchecked |-> w.unchecked,
                   old |-> w.old]
           /\ w.given \in GivenMedia /\ w.old \in LessonMedia /\ w.on \in LessonRows \cup {NoKey}
           /\ KeysIn(w.given) \subseteq w.unchecked \cup stored \cup contested
    /\ w.op = "delete" => w.on \in LessonRows /\ w.old \in LessonMedia
    /\ w.op = "clean" =>
           /\ w.doomed \subseteq MediaKeys /\ w.free \in MediaKeys \cup {NoKey}
           /\ w.free # NoKey /\ w.free \notin contested => ~Referenced(w.free)

ContestsNoted ==
    \A r, s \in Authors :
        r # s => Named(author[r]) \cap Named(author[s]) \subseteq contested

LessonsIInv ==
    /\ lesson \in [LessonRows -> LessonRow] /\ author = [r \in Authors |-> author[r]]
    /\ contested \subseteq MediaKeys
    /\ \A r \in Authors : AuthorSound(author[r])
    /\ ContestsNoted /\ LessonMediaStored

MediaIInv ==
    /\ stored \subseteq drawn /\ drawn \subseteq ImageKeys \cup MediaKeys
    /\ ImagesIInv /\ LessonsIInv

\* Nothing is stored or drawn.
LEMMA MediaInitInvariant == MediaInit => MediaIInv
<1> SUFFICES ASSUME MediaInit PROVE MediaIInv
    OBVIOUS
<1> USE DEF MediaInit
<1>1. image \in [ImageRows -> ImageRow] /\ \A i \in ImageRows : image[i].key = NoKey
    BY DEF ImageRow
<1>2. \A r \in Uploaders : /\ upload[r] = NoRequest /\ Stores(upload[r]) = {} /\ Dooms(upload[r]) = {}
                           /\ UploadSound(upload[r])
    BY DEF NoRequest, Stores, Dooms, UploadSound
<1>3. ImagesIInv
    BY <1>1, <1>2 DEF ImagesIInv, StoredOnce, ImagesStored
<1>4. lesson \in [LessonRows -> LessonRow]
    BY DEF LessonRow, LessonMedia, NoMedia
<1>5. \A r \in Authors : author[r] = NoRequest /\ Named(author[r]) = {} /\ AuthorSound(author[r])
    BY DEF NoRequest, Named, AuthorSound
<1>6. LessonsIInv
    BY <1>4, <1>5 DEF LessonsIInv, ContestsNoted, LessonMediaStored
<1> QED BY <1>3, <1>6 DEF MediaIInv

-----------------------------------------------------------------------------
(* Media: images                                                            *)

\* What requests about images leave of the bucket is all that lessons can name.
LEMMA LessonsApart ==
    ASSUME MediaIInv, UNCHANGED lessonVars, stored \cap MediaKeys \subseteq stored'
    PROVE  LessonsIInv'
<1>1. LessonsIInv /\ lesson' = lesson /\ author' = author /\ contested' = contested
    BY DEF MediaIInv, lessonVars
<1>2. \A m \in GivenMedia \cup LessonMedia : KeysIn(m) \subseteq MediaKeys
    BY DEF GivenMedia, LessonMedia, KeysIn, MediaKinds, MediaKeys
<1>3. ASSUME NEW r \in Authors PROVE AuthorSound(author[r])'
    <2>1. AuthorSound(author[r])
        BY <1>1 DEF LessonsIInv
    <2>2. author[r].op = "save" =>
              KeysIn(author[r].given) \subseteq author[r].unchecked \cup stored' \cup contested
        BY <1>2, <2>1 DEF AuthorSound
    <2>3. \A k : Referenced(k)' <=> Referenced(k)
        BY <1>1 DEF Referenced
    <2> QED BY <1>1, <2>1, <2>2, <2>3 DEF AuthorSound
<1>4. LessonMediaStored'
    <2>1. \A l \in LessonRows : KeysIn(lesson[l].media) \subseteq MediaKeys
        BY <1>1, <1>2 DEF LessonsIInv, LessonRow
    <2> QED BY <1>1, <2>1 DEF LessonsIInv, LessonMediaStored
<1> QED BY <1>1, <1>3, <1>4 DEF LessonsIInv, ContestsNoted

\* Requests about lessons delete no image and draw other keys.
LEMMA ImagesApart ==
    ASSUME MediaIInv, UNCHANGED imageVars, stored \cap ImageKeys \subseteq stored', drawn \subseteq drawn'
    PROVE  ImagesIInv'
<1>1. ImagesIInv /\ image' = image /\ upload' = upload
    BY DEF MediaIInv, imageVars
<1>2. ASSUME NEW r \in Uploaders PROVE UploadSound(upload[r])'
    <2>1. UploadSound(upload[r])
        BY <1>1 DEF ImagesIInv
    <2>2. \A k \in Stores(upload[r]) : k \in stored'
        BY <2>1 DEF UploadSound, Stores
    <2> QED BY <1>1, <2>1, <2>2 DEF UploadSound
<1>3. \A i \in ImageRows : image[i].key \in ImageKeys \cup {NoKey}
    BY <1>1 DEF ImagesIInv, ImageRow
<1>4. ImagesStored'
    BY <1>1, <1>3 DEF ImagesIInv, ImagesStored
<1> QED BY <1>1, <1>2, <1>4 DEF ImagesIInv, StoredOnce

\* A request goes on, with what it stores and dooms, while the rows and the bucket stay.
LEMMA UploadTurn ==
    ASSUME ImagesIInv, NEW r \in Uploaders, upload' = [upload EXCEPT ![r] = upload'[r]],
           UploadSound(upload[r])', 
           \A s \in Uploaders : s # r => UploadSound(upload[s])',
           Stores(upload'[r]) \cap Dooms(upload'[r]) = {},
           \A s \in Uploaders : s # r =>
               /\ Stores(upload'[r]) \cap (Stores(upload[s]) \cup Dooms(upload[s])) = {}
               /\ Dooms(upload'[r]) \cap Stores(upload[s]) = {}
    PROVE  /\ (upload = [s \in Uploaders |-> upload[s]])' /\ StoredOnce'
           /\ \A s \in Uploaders : UploadSound(upload[s])'
<1>1. upload = [s \in Uploaders |-> upload[s]] /\ StoredOnce
    BY DEF ImagesIInv
<1>2. (upload = [s \in Uploaders |-> upload[s]])'
    BY <1>1
<1>3. \A s \in Uploaders : s # r => upload'[s] = upload[s]
    BY <1>1
<1>4. StoredOnce'
    <2>1. ASSUME NEW p \in Uploaders, NEW s \in Uploaders
          PROVE  /\ p # s => Stores(upload'[p]) \cap Stores(upload'[s]) = {}
                 /\ Stores(upload'[p]) \cap Dooms(upload'[s]) = {}
        <3>1. CASE p = r /\ s = r
            BY <3>1
        <3>2. CASE p = r /\ s # r
            BY <1>3, <3>2
        <3>3. CASE p # r /\ s = r
            BY <1>3, <3>3
        <3>4. CASE p # r /\ s # r
            BY <1>1, <1>3, <3>4 DEF StoredOnce
        <3> QED BY <3>1, <3>2, <3>3, <3>4
    <2> QED BY <2>1 DEF StoredOnce
<1> QED BY <1>2, <1>4

\* A request reads, fails or stops: rows and bucket stay, and what it is now to delete is what
\* it stored itself, was to delete before, or found in a row.
LEMMA QuietUpload ==
    ASSUME MediaIInv, NEW r \in Uploaders, upload' = [upload EXCEPT ![r] = upload'[r]],
           UNCHANGED <<image, stored, drawn>>, UNCHANGED lessonVars,
           UploadSound(upload[r])',
           Stores(upload'[r]) = {},
           \A k \in Dooms(upload'[r]) :
               k \in Stores(upload[r]) \cup Dooms(upload[r]) \/ \E i \in ImageRows : image[i].key = k
    PROVE  MediaIInv'
<1>1. ImagesIInv /\ StoredOnce /\ \A s \in Uploaders : UploadSound(upload[s])
    BY DEF MediaIInv, ImagesIInv
<1>2. \A s \in Uploaders : s # r => upload'[s] = upload[s]
    BY <1>1 DEF ImagesIInv
<1>3. \A s \in Uploaders : s # r => UploadSound(upload[s])'
    BY <1>1, <1>2 DEF UploadSound
<1>4. ASSUME NEW s \in Uploaders, s # r PROVE Dooms(upload'[r]) \cap Stores(upload[s]) = {}
    <2>1. \A k \in Stores(upload[s]) : \A i \in ImageRows : image[i].key # k
        BY <1>1 DEF UploadSound
    <2> QED BY <1>1, <1>4, <2>1 DEF StoredOnce
<1>5. /\ (upload = [s \in Uploaders |-> upload[s]])' /\ StoredOnce'
      /\ \A s \in Uploaders : UploadSound(upload[s])'
    BY <1>1, <1>3, <1>4, UploadTurn
<1>6. ImagesIInv'
    BY <1>1, <1>5 DEF ImagesIInv, ImagesStored
<1>7. LessonsIInv'
    BY LessonsApart
<1> QED BY <1>6, <1>7 DEF MediaIInv

\* A request begins, fails or stops.
LEMMA UploadQuiet ==
    ASSUME MediaIInv, UNCHANGED lessonVars, NEW r \in Uploaders,
           \/ \E rows \in {CourseRows, PortfolioItems} : CreateBegins(r, rows)
           \/ \E i \in ImageRows : UpdateBegins(r, i)
           \/ InsertFails(r) \/ WriteRefused(r)
           \/ \E i \in PortfolioItems : DeleteItemBegins(r, i)
           \/ Goes(r, NoRequest) /\ UNCHANGED <<image, stored, drawn>>
    PROVE  MediaIInv'
<1>1. /\ upload = [s \in Uploaders |-> upload[s]] /\ image \in [ImageRows -> ImageRow]
      /\ UploadSound(upload[r]) /\ \A i \in ImageRows : image[i].key # NoKey => image[i].key \in drawn
      /\ ImagesStored /\ drawn \subseteq ImageKeys \cup MediaKeys
    BY DEF MediaIInv, ImagesIInv
<1>2. NoKey \notin ImageKeys
    BY MediaAssumption
<1>3. ASSUME NEW rows \in {CourseRows, PortfolioItems}, CreateBegins(r, rows) PROVE MediaIInv'
    <2>1. upload'[r] = [op |-> "create", rows |-> rows, new |-> NoKey]
          /\ upload' = [upload EXCEPT ![r] = upload'[r]] /\ UNCHANGED <<image, stored, drawn>>
        BY <1>1, <1>3 DEF CreateBegins, Goes
    <2>2. Stores(upload'[r]) = {} /\ Dooms(upload'[r]) = {}
        BY <2>1 DEF Stores, Dooms
    <2>3. UploadSound(upload[r])'
        BY <2>1, <2>2 DEF UploadSound, ImageRows
    <2> QED BY <2>1, <2>2, <2>3, QuietUpload
<1>4. ASSUME NEW i \in ImageRows, UpdateBegins(r, i) PROVE MediaIInv'
    <2>1. /\ upload'[r] = [op |-> "update", on |-> i, old |-> image[i].key, new |-> NoKey]
          /\ upload' = [upload EXCEPT ![r] = upload'[r]] /\ UNCHANGED <<image, stored, drawn>>
          /\ image[i].state = "there"
        BY <1>1, <1>4 DEF UpdateBegins, Goes
    <2>2. Stores(upload'[r]) = {} /\ Dooms(upload'[r]) = {image[i].key} \ {NoKey}
        BY <2>1 DEF Stores, Dooms
    <2>3. UploadSound(upload[r])'
        BY <1>1, <2>1, <2>2 DEF UploadSound, ImageRow, ImagesStored
    <2> QED BY <2>1, <2>2, <2>3, QuietUpload
<1>5. ASSUME NEW i \in PortfolioItems, DeleteItemBegins(r, i) PROVE MediaIInv'
    <2>1. /\ upload'[r] = [op |-> "delete", on |-> i, old |-> image[i].key]
          /\ upload' = [upload EXCEPT ![r] = upload'[r]] /\ UNCHANGED <<image, stored, drawn>>
          /\ image[i].state = "there" /\ i \in ImageRows
        BY <1>1, <1>5 DEF DeleteItemBegins, Goes, ImageRows
    <2>2. Stores(upload'[r]) = {} /\ Dooms(upload'[r]) = {image[i].key} \ {NoKey}
        BY <2>1 DEF Stores, Dooms
    <2>3. UploadSound(upload[r])'
        BY <1>1, <1>5, <2>1, <2>2 DEF UploadSound, ImageRow, ImagesStored
    <2> QED BY <2>1, <2>2, <2>3, QuietUpload
<1>6. ASSUME InsertFails(r) \/ WriteRefused(r) PROVE MediaIInv'
    <2>1. /\ upload' = [upload EXCEPT ![r] = upload'[r]] /\ UNCHANGED <<image, stored, drawn>>
          /\ upload[r].op \in {"create", "update"} /\ upload'[r] = RemovalOf(upload[r].new)
        BY <1>1, <1>6 DEF InsertFails, WriteRefused, Goes
    <2>2. Stores(upload[r]) = {upload[r].new} \ {NoKey} /\ upload[r].new \in ImageKeys \cup {NoKey}
          /\ \A k \in Stores(upload[r]) : k \in stored /\ \A i \in ImageRows : image[i].key # k
        BY <1>1, <2>1 DEF Stores, UploadSound
    <2>3. /\ Stores(upload'[r]) = {} /\ Dooms(upload'[r]) = Stores(upload[r])
          /\ upload'[r].op \in {"none", "remove"}
          /\ upload'[r].op = "remove" => upload'[r].key \in ImageKeys
        BY <1>2, <2>1, <2>2 DEF RemovalOf, NoRequest, Stores, Dooms
    <2>4. stored \subseteq drawn
        BY DEF MediaIInv
    <2>5. \A k \in Dooms(upload'[r]) : k \in drawn' /\ \A i \in ImageRows : image'[i].key # k
        BY <2>1, <2>2, <2>3, <2>4
    <2>6. upload'[r].op # "create" /\ upload'[r].op # "update" /\ upload'[r].op # "delete"
        BY <2>3
    <2>7. UploadSound(upload[r])'
        BY <2>3, <2>5, <2>6 DEF UploadSound
    <2> QED BY <2>1, <2>3, <2>7, QuietUpload
<1>7. ASSUME Goes(r, NoRequest), UNCHANGED <<image, stored, drawn>> PROVE MediaIInv'
    <2>1. upload'[r] = NoRequest /\ upload' = [upload EXCEPT ![r] = upload'[r]]
        BY <1>1, <1>7 DEF Goes
    <2>2. Stores(upload'[r]) = {} /\ Dooms(upload'[r]) = {}
        BY <2>1 DEF Stores, Dooms, NoRequest
    <2>3. UploadSound(upload[r])'
        BY <2>1, <2>2 DEF UploadSound, NoRequest
    <2> QED BY <1>7, <2>1, <2>2, <2>3, QuietUpload
<1> QED BY <1>3, <1>4, <1>5, <1>6, <1>7

\* A key is drawn once: nobody names what the request stores.
LEMMA StoreImageStep ==
    ASSUME MediaIInv, UNCHANGED lessonVars, NEW r \in Uploaders, NEW k \in ImageKeys, StoreImage(r, k)
    PROVE  MediaIInv'
<1>1. /\ ImagesIInv /\ upload = [s \in Uploaders |-> upload[s]] /\ StoredOnce
      /\ \A s \in Uploaders : UploadSound(upload[s])
      /\ stored \subseteq drawn /\ drawn \subseteq ImageKeys \cup MediaKeys
      /\ \A i \in ImageRows : image[i].key # NoKey => image[i].key \in drawn
    BY DEF MediaIInv, ImagesIInv
<1>2. k # NoKey
    BY MediaAssumption
<1>0. PICK u : u = upload[r]
    OBVIOUS
<1>01. PICK v : v = [u EXCEPT !.new = k]
    OBVIOUS
<1>3. /\ u.op \in {"create", "update"} /\ u.new = NoKey /\ k \notin drawn
      /\ stored' = stored \cup {k} /\ drawn' = drawn \cup {k} /\ image' = image
      /\ upload' = [upload EXCEPT ![r] = v]
    BY <1>0, <1>01 DEF StoreImage, Goes
<1>4. upload'[r] = v /\ upload' = [upload EXCEPT ![r] = upload'[r]]
      /\ \A s \in Uploaders : s # r => upload'[s] = upload[s]
    BY <1>1, <1>3
<1>5. /\ v.op = u.op /\ v.new = k
      /\ u.op = "create" => v = [op |-> "create", rows |-> u.rows, new |-> k] /\ v.rows = u.rows
      /\ u.op = "update" => /\ v = [op |-> "update", on |-> u.on, old |-> u.old, new |-> k]
                            /\ v.on = u.on /\ v.old = u.old
    <2>1. CASE u.op = "create"
        <3>1. u = [op |-> "create", rows |-> u.rows, new |-> u.new]
            BY <1>0, <1>1, <2>1 DEF UploadSound
        <3> QED BY <1>01, <2>1, <3>1
    <2>2. CASE u.op = "update"
        <3>1. u = [op |-> "update", on |-> u.on, old |-> u.old, new |-> u.new]
            BY <1>0, <1>1, <2>2 DEF UploadSound
        <3> QED BY <1>01, <2>2, <3>1
    <2> QED BY <1>3, <2>1, <2>2
<1>6. UploadSound(u)
    BY <1>0, <1>1
<1>7. Stores(v) = {k} /\ Dooms(v) = Dooms(u) /\ \A x \in Dooms(u) : x \in drawn
    BY <1>2, <1>3, <1>5, <1>6 DEF Stores, Dooms, UploadSound
<1>8. \A i \in ImageRows : image[i].key # k
    BY <1>1, <1>2, <1>3
<1>9. UploadSound(upload[r])'
    <2>1. /\ v.op = "create" => v.rows \subseteq ImageRows
          /\ v.op = "update" => v.on \in ImageRows /\ v.old \in ImageKeys \cup {NoKey}
        BY <1>3, <1>5, <1>6 DEF UploadSound
    <2>2. \A x \in Dooms(v) : x \in drawn' /\ \A i \in ImageRows : image'[i].key = x => i = v.on
        BY <1>3, <1>5, <1>6, <1>7 DEF UploadSound, Dooms
    <2>3. \A x \in Stores(v) : x \in stored' /\ \A i \in ImageRows : image'[i].key # x
        BY <1>3, <1>7, <1>8
    <2>4. UploadSound(v)'
        BY <1>3, <1>5, <2>1, <2>2, <2>3 DEF UploadSound
    <2> QED BY <1>4, <2>4
<1>10. ASSUME NEW s \in Uploaders, s # r
       PROVE  /\ UploadSound(upload[s])'
              /\ k \notin Stores(upload[s]) /\ k \notin Dooms(upload[s])
              /\ Dooms(u) \cap Stores(upload[s]) = {}
    <2>1. UploadSound(upload[s]) /\ upload'[s] = upload[s]
        BY <1>1, <1>4, <1>10
    <2>2. UploadSound(upload[s])'
        BY <1>3, <2>1 DEF UploadSound
    <2>3. \A x \in Stores(upload[s]) \cup Dooms(upload[s]) : x \in drawn
        BY <1>1, <2>1 DEF UploadSound
    <2>4. Dooms(u) \cap Stores(upload[s]) = {}
        BY <1>0, <1>1 DEF StoredOnce
    <2> QED BY <1>3, <2>2, <2>3, <2>4
<1>11. /\ (upload = [s \in Uploaders |-> upload[s]])' /\ StoredOnce'
       /\ \A s \in Uploaders : UploadSound(upload[s])'
    BY <1>0, <1>1, <1>3, <1>4, <1>7, <1>9, <1>10, UploadTurn
<1>12. ImagesIInv'
    BY <1>1, <1>3, <1>11 DEF ImagesIInv, ImagesStored
<1>13. LessonsIInv'
    BY <1>3, LessonsApart
<1> QED BY <1>1, <1>3, <1>12, <1>13 DEF MediaIInv

\* A row is written with what a request stored, or is deleted: what the request replaced, or
\* the row held, is now named by no row that is there.
LEMMA RowWritten ==
    ASSUME MediaIInv, UNCHANGED lessonVars, UNCHANGED <<stored, drawn>>,
           NEW r \in Uploaders, NEW i \in ImageRows, image'[i] \in ImageRow,
           image' = [image EXCEPT ![i] = image'[i]],
           \/ image'[i].key \in Stores(upload[r]) \cup {NoKey}
           \/ image'[i].key = image[i].key /\ image'[i].state # "there",
           upload' = [upload EXCEPT ![r] = upload'[r]],
           upload'[r] = NoRequest \/
               /\ upload'[r] = RemovalOf(upload[r].old) /\ upload[r].op \in {"update", "delete"}
               /\ upload[r].on = i
    PROVE  MediaIInv'
<1>1. /\ ImagesIInv /\ upload = [s \in Uploaders |-> upload[s]] /\ StoredOnce /\ ImagesStored
      /\ \A s \in Uploaders : UploadSound(upload[s])
      /\ image \in [ImageRows -> ImageRow]
      /\ stored \subseteq drawn /\ drawn \subseteq ImageKeys \cup MediaKeys
      /\ \A j \in ImageRows : image[j].key # NoKey => image[j].key \in drawn
    BY DEF MediaIInv, ImagesIInv
<1>2. NoKey \notin ImageKeys
    BY MediaAssumption
<1>3. \A s \in Uploaders : s # r => upload'[s] = upload[s]
    BY <1>1
<1>4. \A j \in ImageRows : j # i => image'[j] = image[j]
    BY <1>1
<1> DEFINE new == image'[i].key
<1>5. new \in Stores(upload[r]) =>
          /\ new \in stored /\ new # NoKey /\ \A j \in ImageRows : image[j].key # new
          /\ \A s \in Uploaders : new \notin Dooms(upload[s]) /\ (s # r => new \notin Stores(upload[s]))
    <2>1. new \in Stores(upload[r]) => new # NoKey
        BY DEF Stores
    <2> QED BY <1>1, <2>1 DEF UploadSound, StoredOnce
<1>6. new \in Stores(upload[r]) \/ new = NoKey \/ (new = image[i].key /\ image'[i].state # "there")
    OBVIOUS
<1>7. image' \in [ImageRows -> ImageRow]
    BY <1>1
<1> HIDE DEF new
<1>8. ASSUME NEW k \in Dooms(upload'[r])
      PROVE  /\ k \in Dooms(upload[r]) /\ k \in drawn /\ k \in ImageKeys
             /\ upload'[r].op = "remove" /\ upload'[r].key = k
             /\ \A j \in ImageRows : image'[j].key = k => image'[j].state # "there"
    <2>1. /\ upload'[r] # NoRequest /\ upload'[r] = RemovalOf(upload[r].old)
          /\ upload[r].op \in {"update", "delete"} /\ upload[r].on = i
        BY DEF NoRequest, Dooms
    <2>2. k = upload[r].old /\ k # NoKey /\ upload'[r] = [op |-> "remove", key |-> k]
        BY <2>1 DEF RemovalOf, Dooms
    <2>3. k \in Dooms(upload[r])
        BY <2>1, <2>2 DEF Dooms
    <2>4. k \in drawn /\ k \in ImageKeys /\ \A j \in ImageRows : image[j].key = k => j = i
        BY <1>1, <2>1, <2>2, <2>3 DEF UploadSound
    <2>5. ASSUME NEW j \in ImageRows, image'[j].key = k, image'[j].state = "there" PROVE FALSE
        <3>1. j = i
            BY <1>4, <2>4, <2>5
        <3> QED BY <1>5, <1>6, <2>2, <2>3, <2>5, <3>1 DEF new
    <2> QED BY <2>2, <2>3, <2>4, <2>5
<1>9. Stores(upload'[r]) = {}
    BY DEF Stores, RemovalOf, NoRequest
<1>10. UploadSound(upload[r])'
    <2>1. upload'[r].op \in {"none", "remove"}
        BY DEF RemovalOf, NoRequest
    <2>2. upload'[r].op = "remove" => upload'[r].key \in Dooms(upload'[r])
        BY DEF RemovalOf, NoRequest, Dooms
    <2> QED BY <1>8, <1>9, <2>1, <2>2 DEF UploadSound
<1>11. ASSUME NEW s \in Uploaders, s # r PROVE UploadSound(upload[s])'
    <2>1. UploadSound(upload[s]) /\ upload'[s] = upload[s]
        BY <1>1, <1>3, <1>11
    <2>2. \A k \in Stores(upload[s]) : k \in stored /\ \A j \in ImageRows : image'[j].key # k
        <3>1. \A k \in Stores(upload[s]) : k # NoKey
            BY DEF Stores
        <3> QED BY <1>4, <1>5, <1>6, <1>11, <2>1, <3>1 DEF UploadSound, new
    <2>3. ASSUME NEW k \in Dooms(upload[s]), NEW j \in ImageRows, image'[j].key = k
          PROVE  IF upload[s].op = "remove" THEN image'[j].state # "there" ELSE j = upload[s].on
        <3>1. k # NoKey
            BY DEF Dooms
        <3>2. CASE j # i
            BY <1>4, <2>1, <2>3, <3>2 DEF UploadSound
        <3>3. CASE j = i
            <4>1. image[i].key = k /\ image'[i].state # "there"
                BY <1>5, <1>6, <2>3, <3>1, <3>3 DEF new
            <4> QED BY <2>1, <3>3, <4>1 DEF UploadSound
        <3> QED BY <3>2, <3>3
    <2> QED BY <2>1, <2>2, <2>3 DEF UploadSound
<1>12. \A s \in Uploaders : s # r => Dooms(upload'[r]) \cap Stores(upload[s]) = {}
    BY <1>1, <1>8 DEF StoredOnce
<1>13. /\ (upload = [s \in Uploaders |-> upload[s]])' /\ StoredOnce'
       /\ \A s \in Uploaders : UploadSound(upload[s])'
    BY <1>1, <1>9, <1>10, <1>11, <1>12, UploadTurn
<1>14. ImagesStored'
    <2>1. ASSUME NEW j \in ImageRows, image'[j].state = "there", image'[j].key # NoKey
          PROVE  /\ image'[j].key \in stored
                 /\ \A m \in ImageRows \ {j} : image'[m].key # image'[j].key
        <3>1. CASE j = i
            BY <1>4, <1>5, <1>6, <2>1, <3>1 DEF new
        <3>2. CASE j # i
            <4>1. image'[j] = image[j] /\ image[j].key \in stored
                  /\ \A m \in ImageRows \ {j} : image[m].key # image[j].key
                BY <1>1, <1>4, <2>1, <3>2 DEF ImagesStored
            <4> QED BY <1>4, <1>5, <1>6, <2>1, <4>1 DEF new
        <3> QED BY <3>1, <3>2
    <2> QED BY <2>1 DEF ImagesStored
<1>15. \A j \in ImageRows : image'[j].key # NoKey => image'[j].key \in drawn
    BY <1>1, <1>4, <1>5, <1>6 DEF new
<1>16. ImagesIInv'
    BY <1>7, <1>13, <1>14, <1>15 DEF ImagesIInv
<1>17. LessonsIInv'
    BY LessonsApart
<1> QED BY <1>1, <1>16, <1>17 DEF MediaIInv

\* Rows are inserted, written and deleted.
LEMMA RowStep ==
    ASSUME MediaIInv, UNCHANGED lessonVars, NEW r \in Uploaders,
           (\E i \in ImageRows : InsertRow(r, i)) \/ WriteRow(r) \/ DeleteItem(r)
    PROVE  MediaIInv'
<1>1. /\ upload = [s \in Uploaders |-> upload[s]] /\ image \in [ImageRows -> ImageRow]
      /\ UploadSound(upload[r])
    BY DEF MediaIInv, ImagesIInv
<1>2. upload[r].op \in {"create", "update"} =>
          /\ upload[r].new \in Stores(upload[r]) \cup {NoKey}
          /\ upload[r].new \in ImageKeys \cup {NoKey}
    BY <1>1 DEF Stores, UploadSound
<1>3. ASSUME NEW i \in ImageRows, InsertRow(r, i) PROVE MediaIInv'
    <2>1. /\ upload[r].op = "create" /\ upload' = [upload EXCEPT ![r] = NoRequest]
          /\ image' = [image EXCEPT ![i] = [state |-> "there", key |-> upload[r].new]]
          /\ UNCHANGED <<stored, drawn>>
        BY <1>3 DEF InsertRow, Goes
    <2>2. upload'[r] = NoRequest /\ upload' = [upload EXCEPT ![r] = upload'[r]]
        BY <1>1, <2>1
    <2>3. image'[i] \in ImageRow /\ image'[i].key = upload[r].new
          /\ image' = [image EXCEPT ![i] = image'[i]]
        BY <1>1, <1>2, <2>1 DEF ImageRow
    <2> QED BY <1>2, <2>1, <2>2, <2>3, RowWritten
<1>4. ASSUME WriteRow(r) PROVE MediaIInv'
    <2> DEFINE i == upload[r].on
    <2>1. /\ upload[r].op = "update" /\ upload' = [upload EXCEPT ![r] = RemovalOf(upload[r].old)]
          /\ image' = [image EXCEPT ![i].key = upload[r].new]
          /\ UNCHANGED <<stored, drawn>>
        BY <1>4 DEF WriteRow, Goes
    <2>2. upload'[r] = RemovalOf(upload[r].old) /\ upload' = [upload EXCEPT ![r] = upload'[r]]
        BY <1>1, <2>1
    <2>3. i \in ImageRows
        BY <1>1, <2>1 DEF UploadSound
    <2>4. image'[i] \in ImageRow /\ image'[i].key = upload[r].new
          /\ image' = [image EXCEPT ![i] = image'[i]]
        BY <1>1, <1>2, <2>1, <2>3 DEF ImageRow
    <2> HIDE DEF i
    <2>5. upload[r].on = i
        BY DEF i
    <2> QED BY <1>2, <2>1, <2>2, <2>3, <2>4, <2>5, RowWritten
<1>5. ASSUME DeleteItem(r) PROVE MediaIInv'
    <2> DEFINE i == upload[r].on
    <2>1. upload[r].op = "delete" /\ UNCHANGED <<stored, drawn>> /\ i \in ImageRows
        BY <1>1, <1>5 DEF DeleteItem, UploadSound
    <2>2. CASE image' = [image EXCEPT ![i].state = "deleted"] /\ Goes(r, RemovalOf(upload[r].old))
        <3>1. upload'[r] = RemovalOf(upload[r].old) /\ upload' = [upload EXCEPT ![r] = upload'[r]]
            BY <1>1, <2>2 DEF Goes
        <3>2. /\ image'[i] \in ImageRow /\ image'[i].key = image[i].key /\ image'[i].state = "deleted"
              /\ image' = [image EXCEPT ![i] = image'[i]]
            BY <1>1, <2>1, <2>2 DEF ImageRow
        <3> HIDE DEF i
        <3>3. upload[r].on = i
            BY DEF i
        <3> QED BY <2>1, <3>1, <3>2, <3>3, RowWritten
    <2>3. CASE UNCHANGED image /\ Goes(r, NoRequest)
        BY <2>1, <2>3, UploadQuiet
    <2> QED BY <1>5, <2>2, <2>3 DEF DeleteItem
<1> QED BY <1>3, <1>4, <1>5

\* What is deleted from the bucket no row that is there names, and no lesson can name.
LEMMA RemoveImageStep ==
    ASSUME MediaIInv, UNCHANGED lessonVars, NEW r \in Uploaders, RemoveImage(r)
    PROVE  MediaIInv'
<1>1. /\ ImagesIInv /\ upload = [s \in Uploaders |-> upload[s]] /\ StoredOnce /\ ImagesStored
      /\ \A s \in Uploaders : UploadSound(upload[s])
      /\ stored \subseteq drawn /\ drawn \subseteq ImageKeys \cup MediaKeys
    BY DEF MediaIInv, ImagesIInv
<1> DEFINE k == upload[r].key
<1>2. /\ upload[r].op = "remove" /\ stored' \in {stored, stored \ {k}}
      /\ upload' = [upload EXCEPT ![r] = NoRequest] /\ UNCHANGED <<image, drawn>>
    BY DEF RemoveImage, Goes
<1>3. k \in ImageKeys /\ k \notin MediaKeys /\ k # NoKey /\ k \in Dooms(upload[r])
    <2>1. k \in ImageKeys
        BY <1>1, <1>2 DEF UploadSound
    <2> QED BY <1>2, <2>1, MediaAssumption DEF Dooms
<1>4. \A i \in ImageRows : image[i].key = k => image[i].state # "there"
    BY <1>1, <1>2, <1>3 DEF UploadSound
<1>5. \A s \in Uploaders : k \notin Stores(upload[s])
    BY <1>1, <1>3 DEF StoredOnce
<1> HIDE DEF k
<1>6. upload'[r] = NoRequest /\ upload' = [upload EXCEPT ![r] = upload'[r]]
      /\ \A s \in Uploaders : s # r => upload'[s] = upload[s]
    BY <1>1, <1>2
<1>7. Stores(NoRequest) = {} /\ Dooms(NoRequest) = {} /\ UploadSound(NoRequest)'
    BY DEF Stores, Dooms, NoRequest, UploadSound
<1>8. ASSUME NEW s \in Uploaders, s # r PROVE UploadSound(upload[s])'
    <2>1. UploadSound(upload[s]) /\ upload'[s] = upload[s]
        BY <1>1, <1>6, <1>8
    <2>2. \A x \in Stores(upload[s]) : x \in stored'
        BY <1>2, <1>5, <2>1 DEF UploadSound
    <2> QED BY <1>2, <2>1, <2>2 DEF UploadSound
<1>9. UploadSound(upload[r])' /\ Stores(upload'[r]) = {} /\ Dooms(upload'[r]) = {}
    BY <1>6, <1>7
<1>10. /\ (upload = [s \in Uploaders |-> upload[s]])' /\ StoredOnce'
       /\ \A s \in Uploaders : UploadSound(upload[s])'
    BY <1>1, <1>6, <1>8, <1>9, UploadTurn
<1>11. ImagesStored'
    BY <1>1, <1>2, <1>4 DEF ImagesStored
<1>12. ImagesIInv'
    BY <1>1, <1>2, <1>10, <1>11 DEF ImagesIInv
<1>13. LessonsIInv'
    BY <1>2, <1>3, LessonsApart
<1> QED BY <1>1, <1>2, <1>12, <1>13 DEF MediaIInv

-----------------------------------------------------------------------------
(* Media: lessons                                                           *)

\* The keys that are given or held are keys of media.
LEMMA KeysOfMedia ==
    /\ \A m \in GivenMedia \cup LessonMedia : KeysIn(m) \subseteq MediaKeys
    /\ \A old \in LessonMedia, given \in GivenMedia :
           /\ Merged(old, given) \in LessonMedia
           /\ KeysIn(Merged(old, given)) \subseteq KeysIn(old) \cup KeysIn(given)
    /\ KeysIn(NoMedia) = {} /\ NoMedia \in LessonMedia
    /\ MediaKeys \cap (ImageKeys \cup {NoKey, NullKey}) = {}
<1>1. \A m \in GivenMedia \cup LessonMedia : KeysIn(m) \subseteq MediaKeys
    BY DEF GivenMedia, LessonMedia, KeysIn, MediaKinds, MediaKeys
<1>2. ASSUME NEW old \in LessonMedia, NEW given \in GivenMedia
      PROVE  /\ Merged(old, given) \in LessonMedia
             /\ KeysIn(Merged(old, given)) \subseteq KeysIn(old) \cup KeysIn(given)
    <2> DEFINE m == Merged(old, given)
    <2>1. /\ m = [kind \in {"video", "document"} |-> m[kind]]
          /\ \A kind \in {"video", "document"} :
                 m[kind] = IF given[kind] = NoKey THEN old[kind]
                           ELSE IF given[kind] = NullKey THEN NoKey ELSE given[kind]
        BY DEF Merged, MediaKinds
    <2>2. /\ old["video"] \in VideoKeys \cup {NoKey} /\ old["document"] \in DocumentKeys \cup {NoKey}
          /\ given["video"] \in VideoKeys \cup {NoKey, NullKey}
          /\ given["document"] \in DocumentKeys \cup {NoKey, NullKey}
        BY DEF LessonMedia, GivenMedia
    <2> HIDE DEF m
    <2>3. m = [video |-> m["video"], document |-> m["document"]]
        BY <2>1
    <2>4. m \in LessonMedia
        BY <2>1, <2>2, <2>3 DEF LessonMedia
    <2>5. KeysIn(m) \subseteq KeysIn(old) \cup KeysIn(given)
        BY <2>1, <2>2 DEF KeysIn, MediaKinds
    <2> QED BY <2>4, <2>5 DEF m
<1>3. KeysIn(NoMedia) = {} /\ NoMedia \in LessonMedia
    BY DEF KeysIn, NoMedia, MediaKinds, LessonMedia
<1>4. MediaKeys \cap (ImageKeys \cup {NoKey, NullKey}) = {}
    BY MediaAssumption
<1> QED BY <1>1, <1>2, <1>3, <1>4

\* Two requests that name a key are noted.
ContestsNote ==
    contested' = contested \cup
        {k \in MediaKeys : \E r, s \in Authors :
            r # s /\ k \in Named(author'[r]) /\ k \in Named(author'[s])}

\* Every step notes the keys that the requests it leaves in flight share.
LEMMA ContestsStep ==
    ASSUME LessonsIInv, ContestsNote, \A s \in Authors : AuthorSound(author[s])'
    PROVE  ContestsNoted' /\ contested \subseteq contested' /\ contested' \subseteq MediaKeys
<1>1. contested \subseteq MediaKeys
    BY DEF LessonsIInv
<1>2. \A s \in Authors : Named(author'[s]) \subseteq MediaKeys
    <2>1. ASSUME NEW s \in Authors PROVE Named(author'[s]) \subseteq MediaKeys
        <3>1. AuthorSound(author[s])'
            OBVIOUS
        <3> QED BY <3>1, KeysOfMedia DEF AuthorSound, Named
    <2> QED BY <2>1
<1>3. ContestsNoted'
    BY <1>2 DEF ContestsNoted, ContestsNote
<1> QED BY <1>1, <1>3 DEF ContestsNote

\* A step that refers to no key but what its request has checked, and deletes nothing but what
\* its request found free, keeps rows and bucket together.
LEMMA LessonStep ==
    ASSUME MediaIInv, UNCHANGED imageVars, ContestsNote, drawn' = drawn, stored' \subseteq drawn,
           NEW r \in Authors, author' = [author EXCEPT ![r] = author'[r]],
           lesson' \in [LessonRows -> LessonRow],
           \A k \in MediaKeys : Referenced(k)' =>
               Referenced(k) \/ (k \in Named(author[r]) /\ k \in stored' \cup contested),
           \A k \in stored \ stored' : k \in Named(author[r]) /\ (Referenced(k) => k \in contested),
           AuthorSound(author[r])'
    PROVE  MediaIInv'
<1>1. /\ LessonsIInv /\ ContestsNoted /\ LessonMediaStored
      /\ author = [s \in Authors |-> author[s]] /\ \A s \in Authors : AuthorSound(author[s])
      /\ drawn \subseteq ImageKeys \cup MediaKeys
    BY DEF MediaIInv, LessonsIInv
<1>2. (author = [s \in Authors |-> author[s]])' /\ \A s \in Authors : s # r => author'[s] = author[s]
    BY <1>1
<1>3. Named(author[r]) \subseteq MediaKeys
    BY <1>1, KeysOfMedia DEF AuthorSound, Named
<1>4. contested \subseteq contested'
    BY DEF ContestsNote
<1>5. ASSUME NEW s \in Authors, s # r PROVE AuthorSound(author[s])'
    <2>1. AuthorSound(author[s]) /\ author'[s] = author[s]
        BY <1>1, <1>2, <1>5
    <2>2. \A k : k \in Named(author[r]) /\ k \in Named(author[s]) => k \in contested'
        BY <1>1, <1>4, <1>5 DEF ContestsNoted
    <2>3. author[s].op = "save" =>
              KeysIn(author[s].given) \subseteq author[s].unchecked \cup stored' \cup contested'
        BY <1>4, <2>1, <2>2 DEF AuthorSound, Named
    <2>4. author[s].op = "clean" /\ author[s].free # NoKey /\ author[s].free \notin contested' =>
              ~Referenced(author[s].free)'
        BY <1>4, <2>1, <2>2, KeysOfMedia DEF AuthorSound, Named
    <2> QED BY <2>1, <2>3, <2>4 DEF AuthorSound
<1>6. \A s \in Authors : AuthorSound(author[s])'
    BY <1>5
<1>7. ContestsNoted' /\ contested' \subseteq MediaKeys
    BY <1>1, <1>6, ContestsStep
<1>8. LessonMediaStored'
    <2>1. ASSUME NEW l \in LessonRows, lesson'[l].state = "there", NEW k \in KeysIn(lesson'[l].media)
          PROVE  k \in stored' \cup contested'
        <3>1. k \in MediaKeys
            BY <2>1, KeysOfMedia DEF LessonRow
        <3>2. Referenced(k)'
            BY <2>1 DEF Referenced
        <3>3. CASE Referenced(k)
            <4>1. k \in stored \cup contested
                BY <1>1, <3>3 DEF Referenced, LessonMediaStored
            <4> QED BY <1>4, <3>3, <4>1
        <3>4. CASE k \in stored' \cup contested
            BY <1>4, <3>4
        <3> QED BY <3>1, <3>2, <3>3, <3>4
    <2> QED BY <2>1 DEF LessonMediaStored
<1>9. LessonsIInv'
    BY <1>2, <1>6, <1>7, <1>8 DEF LessonsIInv
<1>10. ImagesIInv'
    <2>1. stored \cap ImageKeys \subseteq stored'
        BY <1>3, KeysOfMedia
    <2> QED BY <2>1, ImagesApart
<1> QED BY <1>1, <1>9, <1>10 DEF MediaIInv

\* Clients and uploads only add to the bucket.
LEMMA BucketStep ==
    ASSUME MediaIInv, UNCHANGED imageVars, ContestsNote,
           \/ \E k \in VideoKeys : AuthorizeVideo(k) \/ ClientPuts(k)
           \/ \E k \in DocumentKeys : UploadDocument(k)
    PROVE  MediaIInv'
<1>1. /\ LessonsIInv /\ LessonMediaStored /\ \A s \in Authors : AuthorSound(author[s])
      /\ stored \subseteq drawn /\ drawn \subseteq ImageKeys \cup MediaKeys
    BY DEF MediaIInv, LessonsIInv
<1>2. /\ lesson' = lesson /\ author' = author /\ stored \subseteq stored' /\ drawn \subseteq drawn'
      /\ stored' \subseteq drawn' /\ drawn' \subseteq drawn \cup MediaKeys
    BY <1>1 DEF AuthorizeVideo, ClientPuts, UploadDocument, MediaKeys
<1>3. contested \subseteq contested'
    BY DEF ContestsNote
<1>4. \A s \in Authors : AuthorSound(author[s])'
    BY <1>1, <1>2, <1>3 DEF AuthorSound, Referenced
<1>5. ContestsNoted' /\ contested' \subseteq MediaKeys
    BY <1>1, <1>4, ContestsStep
<1>6. LessonsIInv'
    BY <1>1, <1>2, <1>3, <1>4, <1>5 DEF LessonsIInv, LessonMediaStored
<1>7. ImagesIInv'
    BY <1>2, ImagesApart
<1> QED BY <1>1, <1>2, <1>6, <1>7 DEF MediaIInv

\* A request that only goes on, or counts references.
LEMMA AuthorGoesOn ==
    ASSUME MediaIInv, UNCHANGED imageVars, ContestsNote, UNCHANGED <<lesson, stored, drawn>>,
           NEW r \in Authors, author' = [author EXCEPT ![r] = author'[r]], AuthorSound(author[r])'
    PROVE  MediaIInv'
<1>1. lesson \in [LessonRows -> LessonRow] /\ stored \subseteq drawn
    BY DEF MediaIInv, LessonsIInv
<1>2. \A k : Referenced(k)' => Referenced(k)
    BY DEF Referenced
<1> QED BY <1>1, <1>2, LessonStep

\* What is to be cleaned up is not found free yet.
LEMMA CleaningSound ==
    ASSUME NEW r \in Authors,
           author'[r] = NoRequest \/ \E keys \in SUBSET MediaKeys : author'[r] = Cleaning(keys)
    PROVE  AuthorSound(author[r])'
<1>1. CASE author'[r] = NoRequest
    BY <1>1 DEF AuthorSound, NoRequest
<1>2. ASSUME NEW keys \in SUBSET MediaKeys, author'[r] = Cleaning(keys) PROVE AuthorSound(author[r])'
    <2>1. author'[r] = NoRequest \/ author'[r] = [op |-> "clean", doomed |-> keys, free |-> NoKey]
        BY <1>2 DEF Cleaning
    <2> QED BY <1>1, <2>1 DEF AuthorSound
<1> QED BY <1>1, <1>2

\* Requests that have not written: they read, check, count references, stop or fail.
LEMMA AuthorReads ==
    ASSUME MediaIInv, UNCHANGED imageVars, ContestsNote, NEW r \in Authors,
           \/ \E l \in LessonRows \cup {NoKey}, given \in GivenMedia : SaveBegins(r, l, given)
           \/ \E k \in MediaKeys : AssertMedia(r, k) \/ CountReferences(r, k) \/ DiscardBegins(r, k)
           \/ \E l \in LessonRows : DeleteLessonBegins(r, l)
           \/ SaveFails(r)
           \/ Turns(r, NoRequest) /\ UNCHANGED <<lesson, stored, drawn>>
    PROVE  MediaIInv'
<1>1. /\ lesson \in [LessonRows -> LessonRow] /\ author = [s \in Authors |-> author[s]]
      /\ AuthorSound(author[r])
    BY DEF MediaIInv, LessonsIInv
<1>2. contested \subseteq contested'
    BY DEF ContestsNote
<1>3. ASSUME NEW l \in LessonRows \cup {NoKey}, NEW given \in GivenMedia, SaveBegins(r, l, given)
      PROVE  MediaIInv'
    <2> DEFINE old == IF l = NoKey THEN NoMedia ELSE lesson[l].media
    <2>1. /\ UNCHANGED <<lesson, stored, drawn>>
          /\ author' = [author EXCEPT ![r] = [op |-> "save", on |-> l, given |-> given,
                                              unchecked |-> KeysIn(given), old |-> old]]
        BY <1>3 DEF SaveBegins, Turns
    <2>2. old \in LessonMedia
        BY <1>1, KeysOfMedia DEF LessonRow
    <2> HIDE DEF old
    <2>3. author'[r] = [op |-> "save", on |-> l, given |-> given,
                        unchecked |-> KeysIn(given), old |-> old]
          /\ author' = [author EXCEPT ![r] = author'[r]]
        BY <1>1, <2>1
    <2>4. AuthorSound(author[r])'
        BY <2>2, <2>3 DEF AuthorSound
    <2> QED BY <2>1, <2>3, <2>4, AuthorGoesOn
<1>4. ASSUME NEW k \in MediaKeys, AssertMedia(r, k) PROVE MediaIInv'
    <2>1. /\ author[r].op = "save" /\ k \in stored /\ UNCHANGED <<lesson, stored, drawn>>
          /\ author' = [author EXCEPT ![r] = [author[r] EXCEPT !.unchecked = author[r].unchecked \ {k}]]
        BY <1>4 DEF AssertMedia, Turns
    <2> DEFINE w == author[r]
               v == [op |-> "save", on |-> w.on, given |-> w.given, unchecked |-> w.unchecked \ {k},
                     old |-> w.old]
    <2>2. w = [op |-> "save", on |-> w.on, given |-> w.given, unchecked |-> w.unchecked, old |-> w.old]
        BY <1>1, <2>1 DEF AuthorSound
    <2>3. [w EXCEPT !.unchecked = w.unchecked \ {k}] = v
        BY <2>2
    <2>4. author'[r] = v /\ author' = [author EXCEPT ![r] = author'[r]]
        BY <1>1, <2>1, <2>3
    <2>5. /\ w.given \in GivenMedia /\ w.old \in LessonMedia /\ w.on \in LessonRows \cup {NoKey}
          /\ KeysIn(w.given) \subseteq w.unchecked \cup stored \cup contested
        BY <1>1, <2>1 DEF AuthorSound
    <2>6. AuthorSound(author[r])'
        BY <1>2, <2>1, <2>2, <2>4, <2>5 DEF AuthorSound
    <2> QED BY <2>1, <2>4, <2>6, AuthorGoesOn
<1>5. ASSUME NEW k \in MediaKeys, CountReferences(r, k) PROVE MediaIInv'
    <2>1. /\ author[r].op = "clean" /\ UNCHANGED <<lesson, stored, drawn>>
          /\ \/ author' = [author EXCEPT ![r] = Cleaning(author[r].doomed \ {k})]
             \/ /\ ~Referenced(k)
                /\ author' = [author EXCEPT ![r] =
                                 [op |-> "clean", doomed |-> author[r].doomed \ {k}, free |-> k]]
        BY <1>5 DEF CountReferences, Turns
    <2>2. author[r].doomed \ {k} \in SUBSET MediaKeys
        BY <1>1, <2>1 DEF AuthorSound
    <2>3. /\ author' = [author EXCEPT ![r] = author'[r]]
          /\ \/ author'[r] = Cleaning(author[r].doomed \ {k})
             \/ /\ ~Referenced(k)
                /\ author'[r] = [op |-> "clean", doomed |-> author[r].doomed \ {k}, free |-> k]
        BY <1>1, <2>1
    <2>4. AuthorSound(author[r])'
        <3>1. CASE author'[r] = Cleaning(author[r].doomed \ {k})
            BY <2>2, <3>1, CleaningSound
        <3>2. CASE ~Referenced(k) /\ author'[r] =
                        [op |-> "clean", doomed |-> author[r].doomed \ {k}, free |-> k]
            <4>1. ~Referenced(k)'
                BY <2>1, <3>2 DEF Referenced
            <4> QED BY <2>2, <3>2, <4>1 DEF AuthorSound
        <3> QED BY <2>3, <3>1, <3>2
    <2> QED BY <2>1, <2>3, <2>4, AuthorGoesOn
<1>6. ASSUME NEW k \in MediaKeys, DiscardBegins(r, k) PROVE MediaIInv'
    <2>1. /\ ~Referenced(k) /\ UNCHANGED <<lesson, stored, drawn>>
          /\ author' = [author EXCEPT ![r] = [op |-> "clean", doomed |-> {}, free |-> k]]
        BY <1>6 DEF DiscardBegins, Turns
    <2>2. author'[r] = [op |-> "clean", doomed |-> {}, free |-> k]
          /\ author' = [author EXCEPT ![r] = author'[r]]
        BY <1>1, <2>1
    <2>3. ~Referenced(k)'
        BY <2>1 DEF Referenced
    <2>4. AuthorSound(author[r])'
        BY <2>2, <2>3 DEF AuthorSound
    <2> QED BY <2>1, <2>2, <2>4, AuthorGoesOn
<1>7. ASSUME NEW l \in LessonRows, DeleteLessonBegins(r, l) PROVE MediaIInv'
    <2>1. /\ UNCHANGED <<lesson, stored, drawn>>
          /\ author' = [author EXCEPT ![r] = [op |-> "delete", on |-> l, old |-> lesson[l].media]]
        BY <1>7 DEF DeleteLessonBegins, Turns
    <2>2. author'[r] = [op |-> "delete", on |-> l, old |-> lesson[l].media]
          /\ author' = [author EXCEPT ![r] = author'[r]]
        BY <1>1, <2>1
    <2>3. AuthorSound(author[r])'
        BY <1>1, <2>2 DEF AuthorSound, LessonRow
    <2> QED BY <2>1, <2>2, <2>3, AuthorGoesOn
<1>8. ASSUME SaveFails(r) PROVE MediaIInv'
    <2>1. /\ UNCHANGED <<lesson, stored, drawn>> /\ author[r].op = "save"
          /\ author' = [author EXCEPT ![r] = Cleaning(KeysIn(author[r].given))]
        BY <1>8 DEF SaveFails, Checked, Turns
    <2>2. KeysIn(author[r].given) \in SUBSET MediaKeys
        BY <1>1, <2>1, KeysOfMedia DEF AuthorSound
    <2>3. author'[r] = Cleaning(KeysIn(author[r].given)) /\ author' = [author EXCEPT ![r] = author'[r]]
        BY <1>1, <2>1
    <2>4. AuthorSound(author[r])'
        BY <2>2, <2>3, CleaningSound
    <2> QED BY <2>1, <2>3, <2>4, AuthorGoesOn
<1>9. ASSUME Turns(r, NoRequest), UNCHANGED <<lesson, stored, drawn>> PROVE MediaIInv'
    <2>1. author'[r] = NoRequest /\ author' = [author EXCEPT ![r] = author'[r]]
        BY <1>1, <1>9 DEF Turns
    <2> QED BY <1>9, <2>1, CleaningSound, AuthorGoesOn
<1> QED BY <1>3, <1>4, <1>5, <1>6, <1>7, <1>8, <1>9

\* Lessons are written with keys that were checked, and deleted.
LEMMA AuthorWrites ==
    ASSUME MediaIInv, UNCHANGED imageVars, ContestsNote, NEW r \in Authors,
           \/ \E l \in LessonRows : CreateLesson(r, l)
           \/ UpdateLesson(r) \/ DeleteLesson(r) \/ RemoveMedia(r)
    PROVE  MediaIInv'
<1>1. /\ lesson \in [LessonRows -> LessonRow] /\ author = [s \in Authors |-> author[s]]
      /\ AuthorSound(author[r]) /\ stored \subseteq drawn
    BY DEF MediaIInv, LessonsIInv
<1> DEFINE w == author[r]
<1>2. ASSUME NEW l \in LessonRows, NEW state \in {"there", "deleted", "none"}, NEW old \in LessonMedia,
             w.op = "save", w.unchecked = {},
             lesson' = [lesson EXCEPT ![l] = [state |-> state, media |-> Merged(old, w.given)]],
             state = "there" => old = NoMedia \/ (old = lesson[l].media /\ lesson[l].state = "there"),
             UNCHANGED <<stored, drawn>>, author' = [author EXCEPT ![r] = author'[r]],
             author'[r] = NoRequest \/ \E keys \in SUBSET MediaKeys : author'[r] = Cleaning(keys)
      PROVE  MediaIInv'
    <2>1. w.given \in GivenMedia /\ KeysIn(w.given) \subseteq stored \cup contested
          /\ KeysIn(w.given) \subseteq Named(w)
        BY <1>1, <1>2 DEF AuthorSound, Named
    <2> HIDE DEF w
    <2>2. Merged(old, w.given) \in LessonMedia
          /\ KeysIn(Merged(old, w.given)) \subseteq KeysIn(old) \cup KeysIn(w.given)
        BY <2>1, KeysOfMedia
    <2>3. /\ lesson'[l] = [state |-> state, media |-> Merged(old, w.given)]
          /\ \A m \in LessonRows : m # l => lesson'[m] = lesson[m]
        BY <1>1, <1>2
    <2>4. lesson' \in [LessonRows -> LessonRow]
        BY <1>1, <1>2, <2>2 DEF LessonRow
    <2>5. ASSUME NEW k \in MediaKeys, Referenced(k)'
          PROVE  Referenced(k) \/ (k \in Named(w) /\ k \in stored' \cup contested)
        <3>1. PICK m \in LessonRows : lesson'[m].state = "there" /\ k \in KeysIn(lesson'[m].media)
            BY <2>5 DEF Referenced
        <3>2. CASE m # l
            BY <2>3, <3>1, <3>2 DEF Referenced
        <3>3. CASE m = l
            <4>1. state = "there" /\ k \in KeysIn(old) \cup KeysIn(w.given)
                BY <2>2, <2>3, <3>1, <3>3
            <4>2. k \in KeysIn(old) => Referenced(k)
                BY <1>2, <4>1, KeysOfMedia DEF Referenced
            <4> QED BY <1>2, <2>1, <4>1, <4>2
        <3> QED BY <3>2, <3>3
    <2>6. AuthorSound(author[r])'
        BY <1>2, CleaningSound
    <2> QED BY <1>1, <1>2, <2>4, <2>5, <2>6, LessonStep DEF w
<1>3. ASSUME NEW l \in LessonRows, CreateLesson(r, l) PROVE MediaIInv'
    <2>1. /\ w.op = "save" /\ w.unchecked = {} /\ UNCHANGED <<stored, drawn>>
          /\ lesson' = [lesson EXCEPT ![l] = [state |-> "there", media |-> Merged(NoMedia, w.given)]]
          /\ author' = [author EXCEPT ![r] = NoRequest]
        BY <1>3 DEF CreateLesson, Checked, Turns
    <2>2. author'[r] = NoRequest /\ author' = [author EXCEPT ![r] = author'[r]]
        BY <1>1, <2>1
    <2> HIDE DEF w
    <2> QED BY <1>2, <2>1, <2>2, KeysOfMedia
<1>4. ASSUME UpdateLesson(r) PROVE MediaIInv'
    <2> DEFINE l == w.on
    <2>1. /\ w.op = "save" /\ w.unchecked = {} /\ w.on # NoKey /\ UNCHANGED <<stored, drawn>>
          /\ lesson' = [lesson EXCEPT ![l] = [state |-> lesson[l].state,
                                              media |-> Merged(lesson[l].media, w.given)]]
          /\ author' = [author EXCEPT ![r] = Cleaning(Replaced(r))]
        BY <1>4 DEF UpdateLesson, Checked, Turns
    <2>2. w.on \in LessonRows /\ w.old \in LessonMedia
        BY <1>1, <2>1 DEF AuthorSound
    <2>3. lesson[l].media \in LessonMedia /\ lesson[l].state \in {"there", "deleted", "none"}
        BY <1>1, <2>2 DEF LessonRow
    <2>4. Replaced(r) \in SUBSET MediaKeys
        <3>1. Replaced(r) \subseteq KeysIn(w.old)
            BY DEF Replaced, KeysIn
        <3> QED BY <2>2, <3>1, KeysOfMedia
    <2>5. author'[r] = Cleaning(Replaced(r)) /\ author' = [author EXCEPT ![r] = author'[r]]
        BY <1>1, <2>1
    <2>6. \E keys \in SUBSET MediaKeys : author'[r] = Cleaning(keys)
        BY <2>4, <2>5
    <2> HIDE DEF w
    <2> QED BY <1>2, <2>1, <2>2, <2>3, <2>5, <2>6
<1>5. ASSUME DeleteLesson(r) PROVE MediaIInv'
    <2> DEFINE l == w.on
    <2>1. w.op = "delete" /\ UNCHANGED <<stored, drawn>> /\ l \in LessonRows /\ w.old \in LessonMedia
        BY <1>1, <1>5 DEF DeleteLesson, AuthorSound
    <2>2. CASE /\ lesson' = [lesson EXCEPT ![l] = [state |-> "deleted", media |-> lesson[l].media]]
               /\ Turns(r, Cleaning(KeysIn(w.old)))
        <3>1. author'[r] = Cleaning(KeysIn(w.old)) /\ author' = [author EXCEPT ![r] = author'[r]]
            BY <1>1, <2>2 DEF Turns
        <3>2. AuthorSound(author[r])'
            <4>1. KeysIn(w.old) \in SUBSET MediaKeys
                BY <2>1, KeysOfMedia
            <4> QED BY <3>1, <4>1, CleaningSound
        <3>3. lesson' \in [LessonRows -> LessonRow]
            BY <1>1, <2>1, <2>2 DEF LessonRow
        <3>4. \A k : Referenced(k)' => Referenced(k)
            BY <1>1, <2>1, <2>2 DEF Referenced
        <3> HIDE DEF w
        <3> QED BY <1>1, <2>1, <3>1, <3>2, <3>3, <3>4, LessonStep
    <2>3. CASE UNCHANGED lesson /\ Turns(r, NoRequest)
        BY <2>1, <2>3, AuthorReads
    <2> QED BY <1>5, <2>2, <2>3 DEF DeleteLesson
<1>6. ASSUME RemoveMedia(r) PROVE MediaIInv'
    <2>1. /\ w.op = "clean" /\ w.free # NoKey /\ UNCHANGED <<lesson, drawn>>
          /\ stored' \in {stored, stored \ {w.free}}
          /\ author' = [author EXCEPT ![r] = Cleaning(w.doomed)]
        BY <1>6 DEF RemoveMedia, Turns
    <2>2. w.doomed \in SUBSET MediaKeys /\ w.free \in Named(w)
          /\ (w.free \notin contested => ~Referenced(w.free))
        BY <1>1, <2>1 DEF AuthorSound, Named
    <2>3. author'[r] = Cleaning(w.doomed) /\ author' = [author EXCEPT ![r] = author'[r]]
        BY <1>1, <2>1
    <2>4. AuthorSound(author[r])'
        BY <2>2, <2>3, CleaningSound
    <2>5. \A k : Referenced(k)' => Referenced(k)
        BY <2>1 DEF Referenced
    <2>6. \A k \in stored \ stored' : k \in Named(w) /\ (Referenced(k) => k \in contested)
        BY <2>1, <2>2
    <2>7. stored' \subseteq drawn
        BY <1>1, <2>1
    <2>8. lesson' \in [LessonRows -> LessonRow] /\ drawn' = drawn
        BY <1>1, <2>1
    <2> QED BY <2>3, <2>4, <2>5, <2>6, <2>7, <2>8, LessonStep
<1> QED BY <1>3, <1>4, <1>5, <1>6

\* Every step of a request, of a client or of nobody.
LEMMA MediaStep == MediaIInv /\ [MediaNext]_mediaVars => MediaIInv'
<1>1. ASSUME MediaIInv, ImageNext, UNCHANGED lessonVars PROVE MediaIInv'
    BY <1>1, UploadQuiet, StoreImageStep, RowStep, RemoveImageStep DEF ImageNext
<1>2. ASSUME MediaIInv, LessonMediaNext, UNCHANGED imageVars PROVE MediaIInv'
    <2>1. ContestsNote
        BY <1>2 DEF LessonMediaNext, ContestsNote
    <2> QED BY <1>2, <2>1, BucketStep, AuthorReads, AuthorWrites DEF LessonMediaNext
<1>3. ASSUME MediaIInv, UNCHANGED mediaVars PROVE MediaIInv'
    <2>1. UNCHANGED imageVars /\ UNCHANGED lessonVars /\ stored' = stored /\ drawn' = drawn
        BY <1>3 DEF mediaVars
    <2>2. ImagesIInv' /\ LessonsIInv'
        BY <1>3, <2>1, ImagesApart, LessonsApart
    <2> QED BY <1>3, <2>1, <2>2 DEF MediaIInv
<1> QED BY <1>1, <1>2, <1>3 DEF MediaNext

\* However requests interleave and wherever they stop, an image that a row shows is in the
\* bucket and the row's alone, and a lesson lacks a file only if two requests named its key.
THEOREM MediaKeptHolds == MediaSpec => []MediaKept
<1>1. MediaIInv => MediaKept
    BY DEF MediaIInv, ImagesIInv, LessonsIInv, MediaKept, MediaTypeOK, ImageRow, LessonRow
<1> QED BY MediaInitInvariant, MediaStep, <1>1, PTL DEF MediaSpec
=============================================================================
