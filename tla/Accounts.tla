------------------------------ MODULE Accounts ------------------------------
(***************************************************************************)
(* Accounts: how a Firebase login and a Facebook or Zalo authorization     *)
(* open sessions, how a first-time social identity waits for its           *)
(* onboarding, and how administrators change statuses and roles.  A social *)
(* flow passes through a one-time state and one-time tickets, and may stop *)
(* between any two of them.  Sign-ins are READ COMMITTED transactions that *)
(* lock nothing: each reads in one step, and writes by id in a later one.  *)
(***************************************************************************)
EXTENDS Naturals, FiniteSets

CONSTANTS
    Emails,         \* users.email, the key of an account here
    Uids,           \* Firebase user ids
    Identities,     \* (provider, providerUserId) pairs
    ProviderEmail,  \* the email a provider tells for an identity, or "none"
    Flows           \* social authorizations that browsers start

ASSUME AccountsAssumption ==
    /\ ProviderEmail \in [Identities -> Emails \cup {"none"}]
    /\ "none" \notin Emails \cup Uids \cup Flows /\ "seed" \notin Flows
    /\ Uids \cap Identities = {} /\ Uids \cap Flows = {}

VARIABLES
    user,      \* users by email
    external,  \* oauth_accounts by identity
    fresh,     \* identities whose pending_expires_at is in the future
    flow,      \* what the stores and the handlers hold of a flow
    store,     \* <<flow, "state" | "ticket">> keys of OAuthTransactionStore
    opened,    \* <<email, who>> pairs: sessions opened, and for whom
    signing,   \* what each Firebase login under way has read
    admitted   \* administrators whose request the guards have let in

accountVars == <<user, external, fresh, flow, store, opened, signing, admitted>>

NoUser == [role |-> "none", active |-> FALSE, uid |-> "none", by |-> "none"]

NoFlow == [step |-> "none", mode |-> "login", identity |-> "none", mail |-> "none",
           kind |-> "none", user |-> "none", opens |-> 0]

NoIdentity == [status |-> "none", mail |-> "none", user |-> "none"]

\* Two administrators, created by the seed.
AccountsInit ==
    /\ user \in [Emails -> {NoUser, [role |-> "admin", active |-> TRUE, uid |-> "none",
                                     by |-> "seed"]}]
    /\ Cardinality({e \in Emails : user[e] # NoUser}) = 2
    /\ external = [i \in Identities |-> NoIdentity]
    /\ fresh = {}
    /\ flow = [f \in Flows |-> NoFlow]
    /\ store = {}
    /\ opened = {}
    /\ signing = {}
    /\ admitted = {}

Exists(e) == user[e] # NoUser

\* The guard of every private route: the token's user is read anew.
Authenticated(e) == Exists(e) /\ user[e].active

-----------------------------------------------------------------------------
(* Firebase                                                                *)

OfUid(u) == {e \in Emails : user[e].uid = u}

\* Two accounts claim the token, or the email's account is another uid's.
LinkConflict(u, e) ==
    \/ OfUid(u) \notin {{}, {e}} /\ Exists(e)
    \/ user[e].uid \notin {"none", u}

\* What a login is to write over the row it has read.
Intended(a) ==
    CASE ~Exists(a) -> "create" [] Exists(a) /\ user[a].uid = "none" -> "link" [] OTHER -> "keep"

\* A verified token: the account is the uid's, else the email's, else a new one.
FirebaseReads(u, e) ==
    \E a \in Emails :
        /\ a \in OfUid(u) \/ (OfUid(u) = {} /\ a = e)
        /\ ~LinkConflict(u, e)
        /\ Exists(a) => user[a].active
        /\ signing' = signing \cup {[uid |-> u, account |-> a, does |-> Intended(a)]}
        /\ UNCHANGED <<user, external, fresh, flow, store, opened, admitted>>

\* firebase_uid is unique.
UidFree(u, a) == OfUid(u) \subseteq {a}

FirebaseOpens(r) ==
    /\ signing' = signing \ {r}
    /\ opened' = opened \cup {<<r.account, r.uid>>}
    /\ UNCHANGED <<external, fresh, flow, store, admitted>>

\* The row is updated by its id, whatever uid it has by now.
FirebaseUpdates(r) ==
    /\ r.does \in {"link", "keep"}
    /\ r.does = "link" => UidFree(r.uid, r.account)
    /\ user' = [user EXCEPT ![r.account].uid = IF r.does = "link" THEN r.uid ELSE @]
    /\ FirebaseOpens(r)

FirebaseCreates(r) ==
    /\ r.does = "create"
    /\ ~Exists(r.account) /\ UidFree(r.uid, r.account)
    /\ user' = [user EXCEPT ![r.account] = [role |-> "student", active |-> TRUE, uid |-> r.uid,
                                            by |-> r.uid]]
    /\ FirebaseOpens(r)

\* A unique column refuses the write, or the process stops.
FirebaseStops(r) ==
    /\ signing' = signing \ {r}
    /\ UNCHANGED <<user, external, fresh, flow, store, opened, admitted>>

-----------------------------------------------------------------------------
(* Social flows                                                            *)

OAuthStart(f, mode) ==
    /\ flow[f].step = "none"
    /\ flow' = [flow EXCEPT ![f].step = "started", ![f].mode = mode]
    /\ store' = store \cup {<<f, "state">>}
    /\ UNCHANGED <<user, external, fresh, opened, signing, admitted>>

\* Mutant: the value is read, and stays until its TTL removes it.
ConsumePeek(f, what) == <<f, what>> \in store /\ store' = store

\* Atomic GET and DEL: whoever comes second finds nothing.
Consume(f, what) == <<f, what>> \in store /\ store' = store \ {<<f, what>>}

TtlPasses(f) ==
    /\ \E what \in {"state", "ticket"} : Consume(f, what)
    /\ UNCHANGED <<user, external, fresh, flow, opened, signing, admitted>>

Callback(f) ==
    /\ Consume(f, "state")
    /\ flow' = [flow EXCEPT ![f].step = "called"]
    /\ UNCHANGED <<user, external, fresh, opened, signing, admitted>>

\* What a provider tells of an identity: an email, when it has one to tell.
Told(i) == {ProviderEmail[i], "none"}

\* The code is exchanged for a token and the token for a profile.
ProviderAnswers(f, i, mail) ==
    /\ flow[f].step = "called"
    /\ mail \in Told(i)
    /\ flow' = [flow EXCEPT ![f].step = "identified", ![f].identity = i, ![f].mail = mail]
    /\ UNCHANGED <<user, external, fresh, store, opened, signing, admitted>>

\* Mutant: an account that has the provider's email is taken for the identity's.
AccountOfEmail(f) ==
    LET own == external[flow[f].identity].user IN
    IF own = "none" /\ flow[f].mail # "none" /\ Exists(flow[f].mail) THEN flow[f].mail ELSE own

AccountOf(f) == external[flow[f].identity].user

\* Mutant: an identity that has an account is logged in whatever the mode.
RegisteredLogsIn(f) == AccountOf(f) # "none" /\ Authenticated(AccountOf(f))

Registered(f) == AccountOf(f) # "none" /\ flow[f].mode = "login" /\ Authenticated(AccountOf(f))

EmailFree(f) == flow[f].mail # "none" => ~Exists(flow[f].mail)

\* resolveAccount, up to what it reads: a session for an identity that has an account;
\* a first-time identity is to be written down.
ResolveReads(f) ==
    /\ flow[f].step = "identified"
    /\ \/ /\ Registered(f)
          /\ flow' = [flow EXCEPT ![f].step = "resolved", ![f].kind = "session",
                                  ![f].user = AccountOf(f)]
       \/ /\ AccountOf(f) = "none" /\ EmailFree(f)
          /\ flow' = [flow EXCEPT ![f].kind = "onboarding",
                ![f].step = IF external[flow[f].identity].status = "none" THEN "creating" ELSE "updating"]
    /\ UNCHANGED <<user, external, fresh, store, opened, signing, admitted>>

\* The row is new, as (provider, providerUserId) is unique, or is updated by its id,
\* although an account may be linked to it by now; pending for 10 minutes either way.
ResolveWrites(f) ==
    LET i == flow[f].identity IN
    /\ \/ flow[f].step = "creating" /\ external[i].status = "none"
       \/ flow[f].step = "updating"
    /\ flow' = [flow EXCEPT ![f].step = "resolved"]
    /\ external' = [external EXCEPT ![i].status = IF @ = "none" THEN "pending" ELSE @,
                                    ![i].mail = flow[f].mail]
    /\ fresh' = fresh \cup {i}
    /\ UNCHANGED <<user, store, opened, signing, admitted>>

PutTicket(f) ==
    /\ flow[f].step \in {"resolved", "exchanged"}
    /\ store' = store \cup {<<f, "ticket">>}
    /\ flow' = [flow EXCEPT ![f].step = IF @ = "resolved" THEN "ticket" ELSE "onboarding"]
    /\ UNCHANGED <<user, external, fresh, opened, signing, admitted>>

\* The handler refuses or the process stops: what was consumed is lost.
FlowStops(f) ==
    /\ flow[f].step \in {"called", "identified", "creating", "updating", "resolved", "exchanging",
                        "issuing", "exchanged", "completing"}
    /\ flow' = [flow EXCEPT ![f].step = "stopped"]
    /\ UNCHANGED <<user, external, fresh, store, opened, signing, admitted>>

SessionOpened(f, e, step) ==
    /\ opened' = opened \cup {<<e, flow[f].identity>>}
    /\ flow' = [flow EXCEPT ![f].step = step, ![f].user = e, ![f].opens = @ + 1]

ExchangeSession(f) ==
    /\ flow[f].kind = "session" /\ flow[f].step \in {"ticket", "done"} /\ flow[f].opens < 2
    /\ Consume(f, "ticket")
    /\ flow' = [flow EXCEPT ![f].step = "exchanging"]
    /\ UNCHANGED <<user, external, fresh, opened, signing, admitted>>

\* The account is read again, and its session is committed after a password hash.
ExchangeReads(f) ==
    /\ flow[f].step = "exchanging"
    /\ Authenticated(flow[f].user)
    /\ flow' = [flow EXCEPT ![f].step = "issuing"]
    /\ UNCHANGED <<user, external, fresh, store, opened, signing, admitted>>

ExchangeIssues(f) ==
    /\ flow[f].step = "issuing"
    /\ SessionOpened(f, flow[f].user, "done")
    /\ UNCHANGED <<user, external, fresh, store, signing, admitted>>

\* An onboarding ticket is exchanged for one that lives for the 10 minutes.
ExchangeOnboarding(f) ==
    /\ flow[f].kind = "onboarding" /\ flow[f].step = "ticket"
    /\ Consume(f, "ticket")
    /\ flow' = [flow EXCEPT ![f].step = "exchanged"]
    /\ UNCHANGED <<user, external, fresh, opened, signing, admitted>>

PendingExpires(i) ==
    /\ i \in fresh
    /\ fresh' = fresh \ {i}
    /\ UNCHANGED <<user, external, flow, store, opened, signing, admitted>>

\* completeProfileWithTicket, up to what it reads: the ticket is gone, the identity
\* is pending and the email is nobody's.
CompletionReads(f, e) ==
    LET i == flow[f].identity IN
    /\ flow[f].step = "onboarding"
    /\ Consume(f, "ticket")
    /\ external[i].user = "none" /\ i \in fresh
    /\ external[i].mail \in {"none", e}
    /\ ~Exists(e)
    /\ flow' = [flow EXCEPT ![f].step = "completing", ![f].user = e]
    /\ UNCHANGED <<user, external, fresh, opened, signing, admitted>>

\* Mutant: pending_expires_at is left as it was.
SettledLater(i) == fresh

Settled(i) == fresh \ {i}

\* createLinkedUser: the unique email is checked, the identity is not read again.
CompletionWrites(f) ==
    LET e == flow[f].user
        i == flow[f].identity
    IN /\ flow[f].step = "completing"
       /\ ~Exists(e)
       /\ user' = [user EXCEPT ![e] = [NoUser EXCEPT !.role = "student", !.active = TRUE, !.by = f]]
       /\ external' = [external EXCEPT ![i].status = "linked", ![i].user = e, ![i].mail = e]
       /\ fresh' = Settled(i)
       /\ SessionOpened(f, e, "done")
       /\ UNCHANGED <<store, signing, admitted>>

-----------------------------------------------------------------------------
(* Administration: SERIALIZABLE transactions behind guards that read first *)

AdmitAdmin(a) ==
    /\ Authenticated(a) /\ user[a].role = "admin"
    /\ admitted' = admitted \cup {a}
    /\ UNCHANGED <<user, external, fresh, flow, store, opened, signing>>

\* Mutant: administrators count although they are suspended.
AnotherAdminAnyStatus(e) == \E a \in Emails \ {e} : user[a].role = "admin"

AnotherActiveAdmin(e) == \E a \in Emails \ {e} : user[a].role = "admin" /\ user[a].active

SetStatus(a, e, active) ==
    /\ a \in admitted /\ Exists(e) /\ user[e].active # active
    /\ user[e].role = "admin" /\ ~active => AnotherActiveAdmin(e)
    /\ user' = [user EXCEPT ![e].active = active]
    /\ admitted' = admitted \ {a}
    /\ UNCHANGED <<external, fresh, flow, store, opened, signing>>

SetRoles(a, e, role) ==
    /\ a \in admitted /\ Exists(e) /\ user[e].role # role
    /\ role # "admin" /\ user[e].role = "admin" => AnotherActiveAdmin(e)
    /\ user' = [user EXCEPT ![e].role = role]
    /\ admitted' = admitted \ {a}
    /\ UNCHANGED <<external, fresh, flow, store, opened, signing>>

-----------------------------------------------------------------------------

AccountsNext ==
    \/ \E e \in Emails : AdmitAdmin(e)
    \/ \E u \in Uids, e \in Emails : FirebaseReads(u, e)
    \/ \E r \in signing : FirebaseUpdates(r) \/ FirebaseCreates(r) \/ FirebaseStops(r)
    \/ \E f \in Flows, mode \in {"login", "register"} : OAuthStart(f, mode)
    \/ \E f \in Flows : \/ TtlPasses(f) \/ Callback(f) \/ ResolveReads(f) \/ ResolveWrites(f) \/ PutTicket(f)
                        \/ FlowStops(f) \/ ExchangeSession(f) \/ ExchangeReads(f) \/ ExchangeIssues(f)
                        \/ ExchangeOnboarding(f) \/ CompletionWrites(f)
    \/ \E f \in Flows, i \in Identities, mail \in Emails \cup {"none"} : ProviderAnswers(f, i, mail)
    \/ \E f \in Flows, e \in Emails : CompletionReads(f, e)
    \/ \E i \in Identities : PendingExpires(i)
    \/ \E a, e \in Emails : \/ \E active \in BOOLEAN : SetStatus(a, e, active)
                            \/ \E role \in {"student", "admin"} : SetRoles(a, e, role)

AccountsSpec == AccountsInit /\ [][AccountsNext]_accountVars

-----------------------------------------------------------------------------
(* Properties                                                              *)

AccountsTypeOK ==
    /\ user \in [Emails -> [role : {"none", "student", "admin"}, active : BOOLEAN, uid : Uids \cup {"none"},
                            by : Flows \cup Uids \cup {"none", "seed"}]]
    /\ external \in [Identities -> [status : {"none", "pending", "linked"}, mail : Emails \cup {"none"},
                                    user : Emails \cup {"none"}]]
    /\ fresh \subseteq {i \in Identities : external[i].status # "none"}
    /\ store \subseteq Flows \X {"state", "ticket"}
    /\ opened \subseteq Emails \X (Uids \cup Identities)
    /\ signing \subseteq [uid : Uids, account : Emails, does : {"create", "link", "keep"}]
    /\ admitted \subseteq Emails

\* Some administrator can always act, although requests of administrators who have
\* been suspended or demoted since are still being served
\* (admin-user.service.ts:257, 280).
LastAdminKept == \E e \in Emails : user[e].role = "admin" /\ user[e].active

\* One authorization at the provider opens one session at most, whatever is replayed
\* and wherever a handler stops (oauth-transaction.store.ts:119).
OneSessionPerFlow == \A f \in Flows : flow[f].opens <= 1

\* A Firebase session is of the account linked to its uid: linking is protected against
\* conflicting matches of uid and email (ADR-001-firebase-google-auth.md:40).
FirebaseSessionIsOwn == \A e \in Emails, u \in Uids : <<e, u>> \in opened => user[e].uid = u

\* A registration never logs in to an account that was there before it, although the
\* identity may be onboarded by another browser meanwhile (oauth.service.ts:484).
RegisterOpensNew ==
    \A f \in Flows : flow[f].mode = "register" /\ flow[f].opens > 0 => user[flow[f].user].by = f

\* A social identity is never merged into an account by its email: its sessions are of
\* accounts that a completion for that identity created (oauth.service.ts:496).
NeverMergedByEmail ==
    \A e \in Emails, i \in Identities :
        <<e, i>> \in opened => \E f \in Flows : user[e].by = f /\ flow[f].identity = i

\* Users, identities, flows and sessions agree: an administrator remains, a social flow
\* ends in one session, and it is of the account that a completion of its identity made,
\* never one found by its email.
AccountsConsistent ==
    /\ AccountsTypeOK /\ LastAdminKept
    /\ OneSessionPerFlow /\ RegisterOpensNew /\ NeverMergedByEmail
=============================================================================
