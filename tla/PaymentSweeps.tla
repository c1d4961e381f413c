---------------------------- MODULE PaymentSweeps ----------------------------
(* Reconciliation runs (payment-reconciliation.service.ts).  Operators      *)
(* sweep the attempts page by page, each following the cursor that the last *)
(* run of its own returned.  A run holds a Redis lease for its time limit   *)
(* and a slack, reads its page once, and asks the provider about one        *)
(* attempt after the other, while webhooks, expiry and replicas go on.      *)
EXTENDS Naturals, FiniteSets, FiniteSetsExt

CONSTANTS
    Attempts,     \* ids, in the order of the query
    Limit,        \* attempts of a page
    Runs,         \* operators; each has at most one run, or probe of the lease
    RunTime,      \* RECONCILIATION_RUN_TIMEOUT_MS
    Slack,        \* what the lease lasts longer; Redis answers within it
    MaxTime,      \* bound: the last tick
    Nobody

ASSUME SweepAssumption ==
    /\ Attempts \subseteq Nat \ {0} /\ IsFiniteSet(Attempts)
    /\ {Limit, RunTime, Slack} \subseteq Nat \ {0} /\ MaxTime \in Nat
    /\ Nobody \notin Runs

VARIABLES
    now,
    lease,        \* the Redis key: its token and when it expires
    state,        \* commerce_payment_attempts.status
    booked,       \* attempts with a settlement
    fulfilled,    \* attempts whose order is delivered
    provider,     \* what the provider would answer
    openCases,        \* attempts with a reconciliation case
    run,          \* runs in progress
    cursor,       \* what each operator's last run returned; 0 is none
    looked,       \* history: attempts its sweep has looked at
    since,        \* history: attempts eligible ever since its sweep began
    ended         \* history: operators whose sweep has come to its end

sweepVars == <<now, lease, state, booked, fulfilled, provider, openCases, run, cursor, looked,
               since, ended>>
rows == <<state, booked, fulfilled, openCases>>
sweep == <<cursor, looked, since, ended>>

Free == [token |-> Nobody, until |-> 0]
NoRun == [step |-> "idle", deadline |-> 0, page |-> {}, more |-> FALSE, last |-> 0,
         at |-> 0, saw |-> "none"]

EligibleIn(st, ful) == {x \in Attempts :
    st[x] \in {"created", "pending"} \/ (st[x] = "paid" /\ x \notin ful)}

SweepInit ==
    /\ now = 0 /\ lease = Free
    /\ state \in [Attempts -> {"created", "pending"}]
    /\ booked = {} /\ fulfilled = {} /\ openCases = {}
    /\ provider = [x \in Attempts |-> "open"]
    /\ run = [r \in Runs |-> NoRun]
    /\ cursor = [r \in Runs |-> 0] /\ looked = [r \in Runs |-> {}] /\ since = [r \in Runs |-> {}]
    /\ ended = {}

-----------------------------------------------------------------------------
(* The lease                                                                *)

Expired == lease.token = Nobody \/ lease.until <= now

LeaseTime == RunTime + Slack

\* SET NX PX: whoever finds the key is refused.
Acquire(r, step) ==
    /\ run[r].step = "idle" /\ Expired
    /\ lease' = [token |-> r, until |-> now + LeaseTime]
    /\ run' = [run EXCEPT ![r].step = step]
    /\ UNCHANGED <<now, rows, provider, sweep>>

\* The script deletes the key only under the run's own token.
Released(r) == IF lease.token = r THEN Free ELSE lease

\* probeRunLock takes the lease, finds a second SET refused, and gives it back.
ProbeEnds(r) ==
    /\ run[r].step = "probing"
    /\ lease' = Released(r)
    /\ run' = [run EXCEPT ![r] = NoRun]
    /\ UNCHANGED <<now, rows, provider, sweep>>

-----------------------------------------------------------------------------
(* A run                                                                    *)

FirstOf(set, n) == {x \in set : Cardinality({y \in set : y < x}) < n}

\* The page is read once; it begins a sweep when there is no cursor.
ReadPage(r) ==
    LET found == {x \in EligibleIn(state, fulfilled) : x > cursor[r]}
    IN  /\ run[r].step = "acquired"
        /\ run' = [run EXCEPT ![r] =
              [step |-> "loop", deadline |-> now + RunTime,
               page |-> {<<x, state[x]>> : x \in FirstOf(found, Limit)},
               more |-> Cardinality(found) > Limit, last |-> 0, at |-> 0, saw |-> "none"]]
        /\ IF cursor[r] = 0
           THEN /\ looked' = [looked EXCEPT ![r] = {}]
                /\ since' = [since EXCEPT ![r] = EligibleIn(state, fulfilled)]
                /\ ended' = ended \ {r}
                /\ UNCHANGED cursor
           ELSE UNCHANGED sweep
        /\ UNCHANGED <<now, lease, rows, provider>>

Left(r) == {p \in run[r].page : p[1] > run[r].last}

\* The next attempt: one that was paid when the page was read is delivered again,
\* of every other the provider is asked.
Look(r) == \E p \in Left(r) :
    /\ run[r].step = "loop" /\ now < run[r].deadline
    /\ \A q \in Left(r) : p[1] <= q[1]
    /\ run' = [run EXCEPT ![r].step = IF p[2] = "paid" THEN "fulfilling" ELSE "asking",
                          ![r].at = p[1], ![r].last = p[1]]
    /\ looked' = [looked EXCEPT ![r] = @ \cup {p[1]}]
    /\ UNCHANGED <<now, lease, rows, provider, cursor, since, ended>>

\* An answer, or an error that opens a case.
Answer(r) ==
    /\ run[r].step = "asking"
    /\ \/ /\ run' = [run EXCEPT ![r].step = "answered", ![r].saw = provider[run[r].at]]
          /\ UNCHANGED openCases
       \/ /\ run' = [run EXCEPT ![r].step = "loop"]
          /\ openCases' = openCases \cup {run[r].at}
    /\ UNCHANGED <<now, lease, state, booked, fulfilled, provider, sweep>>

\* persistCheckedFacts: the row is read again under its lock.
Recoverable(r) == state[run[r].at] = "created" /\ run[r].saw # "ended"

Persist(r) ==
    /\ run[r].step = "answered"
    /\ state' = [state EXCEPT ![run[r].at] = IF Recoverable(r) THEN "pending" ELSE @]
    /\ IF run[r].saw = "ended"
       THEN openCases' = openCases \cup {run[r].at} ELSE UNCHANGED openCases
    /\ run' = [run EXCEPT ![r].step = IF run[r].saw = "paid" THEN "ingesting" ELSE "loop"]
    /\ UNCHANGED <<now, lease, booked, fulfilled, provider, sweep>>

StillEligible(st, ful) == [r \in Runs |-> since[r] \cap EligibleIn(st, ful)]

\* ingestVerified (PaymentLifecycle): booked once, also when the order was closed
\* meanwhile, which keeps its state; delivered, or a case is opened.
Ingested(x, delivered) ==
    /\ booked' = booked \cup {x}
    /\ state' = [state EXCEPT ![x] = IF @ \in {"created", "pending"} THEN "paid" ELSE @]
    /\ fulfilled' = IF delivered /\ state'[x] = "paid" THEN fulfilled \cup {x} ELSE fulfilled
    /\ openCases' = IF x \in fulfilled' THEN openCases ELSE openCases \cup {x}
    /\ since' = StillEligible(state', fulfilled')

Ingest(r) ==
    /\ run[r].step = "ingesting"
    /\ \E delivered \in BOOLEAN : Ingested(run[r].at, delivered)
    /\ run' = [run EXCEPT ![r].step = "loop"]
    /\ UNCHANGED <<now, lease, provider, cursor, looked, ended>>

\* Delivery may take any time, and fail.
RetryFulfillment(r) ==
    /\ run[r].step = "fulfilling"
    /\ \/ /\ fulfilled' = fulfilled \cup {run[r].at} /\ UNCHANGED openCases
       \/ /\ openCases' = openCases \cup {run[r].at} /\ UNCHANGED fulfilled
    /\ since' = StillEligible(state, fulfilled')
    /\ run' = [run EXCEPT ![r].step = "loop"]
    /\ UNCHANGED <<now, lease, state, booked, provider, cursor, looked, ended>>

TimedOut(r) == run[r].step \in {"asking", "loop"} /\ now >= run[r].deadline

\* Mutant: the cursor of the page, also when the run was cut short.
CursorOfPage(r) == Max({p[1] : p \in run[r].page})

NextCursor(r) == IF run[r].last = 0 THEN cursor[r] ELSE run[r].last

\* The page is through or the time is: the attempt that was being asked about is
\* flagged, the sweep goes on behind the last one looked at.
EndRun(r) ==
    LET more == run[r].more \/ Left(r) # {}
    IN  /\ (run[r].step = "loop" /\ Left(r) = {}) \/ TimedOut(r)
        /\ openCases' = IF run[r].step = "asking" THEN openCases \cup {run[r].at} ELSE openCases
        /\ cursor' = [cursor EXCEPT ![r] = IF more THEN NextCursor(r) ELSE 0]
        /\ ended' = IF more THEN ended ELSE ended \cup {r}
        /\ lease' = Released(r)
        /\ run' = [run EXCEPT ![r] = NoRun]
        /\ UNCHANGED <<now, state, booked, fulfilled, provider, looked, since>>

\* The replica stops, or Redis cannot be reached for the release.
RunCrash(r) ==
    /\ run[r].step # "idle"
    /\ run' = [run EXCEPT ![r] = NoRun]
    /\ UNCHANGED <<now, lease, rows, provider, sweep>>

-----------------------------------------------------------------------------
(* The others                                                               *)

\* Redis answers within the slack and an aborted call ends at the deadline; delivery
\* may hold a run for longer.
Tick ==
    /\ now < MaxTime
    /\ \A r \in Runs : /\ run[r].step = "acquired" => now + 1 < lease.until - RunTime
                       /\ run[r].step = "asking" => now < run[r].deadline
    /\ now' = now + 1
    /\ UNCHANGED <<lease, rows, provider, run, sweep>>

ProviderMoves(x, to) ==
    /\ provider[x] = "open"
    /\ provider' = [provider EXCEPT ![x] = to]
    /\ UNCHANGED <<now, lease, rows, run, sweep>>

Webhook(x) ==
    /\ provider[x] = "paid" /\ x \notin booked
    /\ \E delivered \in BOOLEAN : Ingested(x, delivered)
    /\ UNCHANGED <<now, lease, provider, run, cursor, looked, ended>>

ExpiryDecides(x) ==
    /\ state[x] = "pending" /\ provider[x] = "ended"
    /\ state' = [state EXCEPT ![x] = "expired"]
    /\ since' = StillEligible(state', fulfilled)
    /\ UNCHANGED <<now, lease, booked, fulfilled, provider, openCases, run, cursor, looked, ended>>

SweepNext ==
    \/ Tick
    \/ \E r \in Runs :
        \/ \E step \in {"acquired", "probing"} : Acquire(r, step)
        \/ ProbeEnds(r) \/ ReadPage(r) \/ Look(r) \/ Answer(r) \/ Persist(r) \/ Ingest(r)
        \/ RetryFulfillment(r) \/ EndRun(r) \/ RunCrash(r)
    \/ \E x \in Attempts :
        \/ Webhook(x) \/ ExpiryDecides(x)
        \/ \E to \in {"paid", "ended"} : ProviderMoves(x, to)

SweepSpec == SweepInit /\ [][SweepNext]_sweepVars

-----------------------------------------------------------------------------
(* Properties                                                               *)

SweepTypeOK ==
    /\ now \in 0 .. MaxTime /\ lease.token \in Runs \cup {Nobody}
    /\ state \in [Attempts -> {"created", "pending", "paid", "expired"}]
    /\ fulfilled \subseteq booked /\ openCases \subseteq Attempts
    /\ ended \subseteq Runs
    /\ {looked, since} \subseteq [Runs -> SUBSET Attempts]

\* Two runs never ask the provider at once, although a run may outlive its lease
\* while it delivers (RECONCILIATION_LOCK_TTL_MS).
OneRunAsks == Cardinality({r \in Runs : run[r].step = "asking"}) <= 1

\* When a sweep has come to its end, every attempt that needed it all along was
\* looked at, however its runs were cut short, crashed and repeated (nextCursor).
SweepMissesNothing == \A r \in ended : since[r] \subseteq looked[r]

\* What was collected stays decided although a run writes what it learned before.
BookedStaysDecided == \A x \in booked : state[x] \in {"paid", "expired"}

\* Runs take turns, leave out nothing, and take nothing back.
SweepsSound == SweepTypeOK /\ OneRunAsks /\ SweepMissesNothing /\ BookedStaysDecided
=============================================================================
