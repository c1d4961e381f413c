---------------------------- MODULE Notifications ----------------------------
(* Notifications: a row for an event of a user, an email by its preference  *)
(* or purpose, and the live stream of one replica                           *)
(* (notifications.service.ts, notification-email-delivery.service.ts,       *)
(* notification-stream.service.ts), with the outbox of commerce that feeds  *)
(* them (commerce-fulfillment.service.ts).                                  *)
EXTENDS Naturals, FiniteSets, FiniteSetsExt

CONSTANTS
    EventKeys,    \* events of one user
    Purchases,       \* those of them that the commerce outbox sends
    Callers,      \* calls of createForUser, each with the delivery it starts
    Clients,      \* connections of the user's browsers
    MaxReplay     \* MAX_REPLAY_EVENTS

ASSUME NotificationAssumption ==
    /\ Purchases \subseteq EventKeys /\ IsFiniteSet(EventKeys) /\ MaxReplay \in Nat \ {0}

VARIABLES
    wantsMail,    \* the preference for optional emails
    outbox,       \* commerce_notification_outbox.status
    createdAt,    \* notifications.created_at; 0 is no row
    mail,         \* notification_deliveries.status of channel email
    call,         \* createForUser
    sending,      \* deliver, started by the call
    announced,    \* history: events published to the stream
    client        \* stream connections

notifyVars == <<wantsMail, outbox, createdAt, mail, call, sending, announced, client>>
mailVars == <<mail, sending>>

NoCall == [step |-> "none", of |-> "none", email |-> FALSE]
NoSend == [step |-> "none", of |-> "none"]
Away == [step |-> "away", last |-> 0, after |-> 0, got |-> {}, due |-> {}, cut |-> FALSE]

NotifyInit ==
    /\ wantsMail = FALSE
    /\ outbox = [e \in Purchases |-> "absent"]
    /\ createdAt = [e \in EventKeys |-> 0]
    /\ mail = [e \in EventKeys |-> "none"]
    /\ announced = {}
    /\ call = [c \in Callers |-> NoCall]
    /\ sending = [c \in Callers |-> NoSend]
    /\ client = [k \in Clients |-> Away]

-----------------------------------------------------------------------------
(* createForUser                                                            *)

\* The transaction that delivers an order queues its event.
Queue(e) ==
    /\ outbox[e] = "absent"
    /\ outbox' = [outbox EXCEPT ![e] = "pending"]
    /\ UNCHANGED <<wantsMail, createdAt, mailVars, call, announced, client>>

setPreference ==
    /\ wantsMail' = ~wantsMail
    /\ UNCHANGED <<outbox, createdAt, mailVars, call, announced, client>>

\* dispatchPending takes what it finds pending, two dispatchers the same at times;
\* other services notify of their events, again on a retry of theirs.
CallCreate(c, e) ==
    /\ call[c] = NoCall /\ sending[c] = NoSend
    /\ e \in Purchases => outbox[e] = "pending"
    /\ call' = [call EXCEPT ![c] = [step |-> "preferences read", of |-> e,
                                    email |-> e \in Purchases \/ wantsMail]]
    /\ UNCHANGED <<wantsMail, outbox, createdAt, mailVars, announced, client>>

NewestRow == Max({createdAt[e] : e \in EventKeys})

\* The upsert: a row there is stays as it is, with the deliveries it has.
Upsert(c) ==
    LET e == call[c].of
        new == createdAt[e] = 0
    IN  /\ call[c].step = "preferences read"
        /\ createdAt' = IF new THEN [createdAt EXCEPT ![e] = NewestRow + 1] ELSE createdAt
        /\ mail' = IF new /\ call[c].email THEN [mail EXCEPT ![e] = "pending"] ELSE mail
        /\ call' = [call EXCEPT ![c].step = "stored"]
        /\ UNCHANGED <<wantsMail, outbox, sending, announced, client>>

\* Mutant: a connection takes part only when it has caught up.
JoinedLate(k) == client[k].step = "open"

Joined(k) == client[k].step \in {"joined", "open"}

\* The delivery is started and the row written to every connection.
Publish(c) ==
    LET e == call[c].of
    IN  /\ call[c].step = "stored"
        /\ sending' = IF call[c].email
                      THEN [sending EXCEPT ![c] = [step |-> "start", of |-> e]] ELSE sending
        /\ announced' = announced \cup {e}
        /\ client' = [k \in Clients |->
               [client[k] EXCEPT
                   !.got = IF Joined(k) THEN @ \cup {e} ELSE @,
                   !.last = IF Joined(k) THEN createdAt[e] ELSE @,
                   !.due = IF client[k].step = "away" THEN @ ELSE @ \cup {e}]]
        /\ call' = [call EXCEPT ![c].step = "published"]
        /\ UNCHANGED <<wantsMail, outbox, createdAt, mail>>

\* The dispatcher closes its outbox entry if it is still open.
CallDone(c) ==
    LET e == call[c].of
    IN  /\ call[c].step = "published"
        /\ outbox' = [f \in Purchases |-> IF f = e /\ outbox[f] = "pending" THEN "dispatched"
                                       ELSE outbox[f]]
        /\ call' = [call EXCEPT ![c] = NoCall]
        /\ UNCHANGED <<wantsMail, createdAt, mailVars, announced, client>>

\* An error or the end of the process; an outbox entry stays pending.
CallLost(c) ==
    /\ call[c] # NoCall
    /\ call' = [call EXCEPT ![c] = NoCall]
    /\ UNCHANGED <<wantsMail, outbox, createdAt, mailVars, announced, client>>

-----------------------------------------------------------------------------
(* deliver                                                                  *)

Claimable(e) == mail[e] \in {"pending", "failed"}

\* The conditional update lets one of several deliveries go on.
ClaimMail(c) ==
    LET e == sending[c].of
    IN  /\ sending[c].step = "start"
        /\ IF Claimable(e)
           THEN /\ mail' = [mail EXCEPT ![e] = "processing"]
                /\ sending' = [sending EXCEPT ![c].step = "sending"]
           ELSE /\ sending' = [sending EXCEPT ![c] = NoSend]
                /\ UNCHANGED mail
        /\ UNCHANGED <<wantsMail, outbox, createdAt, call, announced, client>>

\* The provider takes the message, refuses it or is disabled.
SendEnds(c, taken) ==
    /\ sending[c].step = "sending"
    /\ mail' = [mail EXCEPT ![sending[c].of] = IF taken THEN "delivered" ELSE "failed"]
    /\ sending' = [sending EXCEPT ![c] = NoSend]
    /\ UNCHANGED <<wantsMail, outbox, createdAt, call, announced, client>>

\* The process ends: the delivery stays as it is.
SendLost(c) ==
    /\ sending[c] # NoSend
    /\ sending' = [sending EXCEPT ![c] = NoSend]
    /\ UNCHANGED <<wantsMail, outbox, createdAt, mail, call, announced, client>>

-----------------------------------------------------------------------------
(* The stream                                                               *)

\* open: the connection is among the subscribers before the missed rows are read.
OpenStream(k) ==
    /\ client[k].step = "away"
    /\ client' = [client EXCEPT ![k] = [Away EXCEPT !.step = "joined", !.last = client[k].last,
                                                    !.after = client[k].last]]
    /\ UNCHANGED <<wantsMail, outbox, createdAt, mailVars, call, announced>>

\* listReplayEvents, from the Last-Event-ID that the client named, and no more of
\* them than MaxReplay.
ReplayMissed(k) ==
    LET missed == {e \in EventKeys : client[k].after > 0 /\ createdAt[e] > client[k].after}
        sent == {e \in missed : Cardinality({f \in missed : createdAt[f] <= createdAt[e]})
                                    <= MaxReplay}
    IN  /\ client[k].step = "joined"
        /\ client' = [client EXCEPT ![k].step = "open", ![k].got = @ \cup sent,
               ![k].due = @ \cup {e \in missed : e \in announced},
               ![k].cut = missed # sent,
               ![k].last = IF sent = {} THEN @ ELSE Max({createdAt[e] : e \in sent})]
        /\ UNCHANGED <<wantsMail, outbox, createdAt, mailVars, call, announced>>

Disconnect(k) ==
    /\ client[k].step # "away"
    /\ client' = [client EXCEPT ![k] = [Away EXCEPT !.last = client[k].last]]
    /\ UNCHANGED <<wantsMail, outbox, createdAt, mailVars, call, announced>>

NotifyNext ==
    \/ setPreference
    \/ \E e \in Purchases : Queue(e)
    \/ \E c \in Callers :
        \/ \E e \in EventKeys : CallCreate(c, e)
        \/ Upsert(c) \/ Publish(c) \/ CallDone(c) \/ CallLost(c) \/ ClaimMail(c) \/ SendLost(c)
        \/ \E taken \in BOOLEAN : SendEnds(c, taken)
    \/ \E k \in Clients : OpenStream(k) \/ ReplayMissed(k) \/ Disconnect(k)

NotifySpec == NotifyInit /\ [][NotifyNext]_notifyVars

-----------------------------------------------------------------------------
(* Properties                                                               *)

NotifyTypeOK ==
    /\ outbox \in [Purchases -> {"absent", "pending", "dispatched"}]
    /\ createdAt \in [EventKeys -> 0 .. Cardinality(EventKeys)]
    /\ mail \in [EventKeys -> {"none", "pending", "processing", "failed", "delivered"}]
    /\ announced \subseteq EventKeys

\* An outbox entry is closed only when its buyer is notified, by email too, whatever
\* dispatchers did at the same time or did not finish (dispatchPending).
DispatchedIsNotified ==
    \A e \in Purchases : outbox[e] = "dispatched" => createdAt[e] > 0 /\ mail[e] # "none"

\* Of all deliveries of an email that were started, one at a time sends it, and none
\* once it is delivered (deliver).
OneSender ==
    \A e \in EventKeys :
        LET at == {c \in Callers : sending[c].of = e /\ sending[c].step = "sending"}
        IN  Cardinality(at) <= 1 /\ (at # {} => mail[e] = "processing")

\* A connection that has caught up has everything that was published since it joined,
\* and what it missed before up to the limit of a replay (open).
StreamHasNoGap ==
    \A k \in Clients :
        client[k].step = "open" /\ ~client[k].cut => client[k].due \subseteq client[k].got

\* Nobody is left out, and nobody is told twice at once.
NotificationsKept == NotifyTypeOK /\ DispatchedIsNotified /\ OneSender /\ StreamHasNoGap
=============================================================================
