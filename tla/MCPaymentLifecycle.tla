---------------------- MODULE MCPaymentLifecycle ----------------------
(* The payment of an order, and what shares no row with it: the            *)
(* notifications its delivery is one of the causes of, and the jobs, whose  *)
(* candidates are told too.  focus says which takes the steps of a          *)
(* behaviour.                                                               *)
EXTENDS PaymentLifecycle, Notifications, Jobs, TLC

CONSTANT Foci

VARIABLE focus

MCInit == focus \in Foci /\ Init /\ NotifyInit /\ JobsInit

JobsStep == JobsNext /\ \A a \in Applications : Len(application'[a].history) <= 1

\* A published job, and what follows an application.
ApplicationsStep ==
    /\ JobsNext
    /\ \A c \in Clerks : clerk'[c].op \notin {"update", "close", "remove"}
    /\ \A j \in JobIds : posting'[j].open
    /\ \A a \in Applications : Len(application'[a].history) <= 3

MCNext ==
    /\ UNCHANGED focus
    /\ \/ focus = "payment" /\ Next /\ UNCHANGED <<notifyVars, jobVars>>
       \/ focus = "notifications" /\ NotifyNext /\ UNCHANGED <<vars, jobVars>>
       \/ focus = "jobs" /\ JobsStep /\ UNCHANGED <<vars, notifyVars>>
       \/ focus = "applications" /\ ApplicationsStep /\ UNCHANGED <<vars, notifyVars>>

mcVars == <<focus, vars, notifyVars, jobVars>>

MCSpec == MCInit /\ [][MCNext]_mcVars

\* Two handlers are at work until a link is paid a second time, one at a time from then on.
OneAtPaidTwice ==
    (\E a \in Attempts : collected'[a] > 1) => \E h \in Handlers : \A k \in Handlers \ {h} : job'[k].step = "idle"

\* Under the fairness of the payment, which is the focus then.
MCRunningSpec == MCInit /\ [][MCNext /\ OneAtPaidTwice]_mcVars /\ Fairness

Symmetry == Permutations(Handlers)
=============================================================================
