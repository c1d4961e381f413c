-------------------------------- MODULE Jobs ---------------------------------
(* Job opportunities that administrators publish and close, and what        *)
(* candidates save and apply for.  A request reads, checks the status, and  *)
(* writes later by id: a job outside a transaction, an application inside   *)
(* one that does not lock what it read.                                     *)
EXTENDS SequencesExt, Naturals

CONSTANTS
    JobIds,       \* job opportunities
    Candidates,   \* users that save jobs and apply
    Clerks,       \* requests at a time
    MaxJobRecords \* bound: audit records of a job, changes of an application

ASSUME JobsAssumption == MaxJobRecords \in Nat

VARIABLES
    posting,         \* job -> its row
    trail,           \* job -> the statuses its audit records name
    application, \* application -> its status and the changes in its history
    saved,       \* saved jobs
    notified,    \* notifications: an application and a status
    clerk,       \* requests in flight
    collided     \* jobs and applications that two requests in flight were about at a time

jobVars == <<posting, trail, application, saved, notified, clerk, collided>>

Applications == Candidates \X JobIds
ApplicationStatuses == {"submitted", "reviewing", "shortlisted", "rejected", "accepted", "withdrawn"}
NoApplication == [status |-> "none", history |-> <<>>]
AtDesk == [op |-> "none"]

JobsInit ==
    /\ posting = [j \in JobIds |-> [state |-> "none", status |-> "draft", open |-> TRUE]]
    /\ trail = [j \in JobIds |-> <<>>]
    /\ application = [a \in Applications |-> NoApplication]
    /\ saved = {} /\ notified = {} /\ collided = {}
    /\ clerk = [c \in Clerks |-> AtDesk]

JobThere(j) == posting[j].state = "there"
\* activeWhere: published, and not past its closing date.
Active(j) == JobThere(j) /\ posting[j].status = "published" /\ posting[j].open

Asks(c, request) == clerk[c] = AtDesk /\ clerk' = [clerk EXCEPT ![c] = request]
Leaves(c) == clerk' = [clerk EXCEPT ![c] = AtDesk]

\* A row is written with the audit record of it.
Recorded(j, row) ==
    /\ Len(trail[j]) < MaxJobRecords
    /\ posting' = [posting EXCEPT ![j] = row]
    /\ trail' = [trail EXCEPT ![j] = Append(@, row.status)]

CreateJob(j, open) ==
    /\ posting[j].state = "none"
    /\ Recorded(j, [state |-> "there", status |-> "draft", open |-> open])
    /\ UNCHANGED <<application, saved, notified, clerk>>

\* The closing date of a job passes.
ClosingDatePasses(j) ==
    /\ posting[j].open /\ posting' = [posting EXCEPT ![j].open = FALSE]
    /\ UNCHANGED <<trail, application, saved, notified, clerk>>

\* Mutant: a job is published whatever its status.
MayPublishAgain(j, op) ==
    /\ JobThere(j)
    /\ op = "update" => posting[j].status # "closed"
    /\ op = "publish" => posting[j].open
    /\ op = "close" => posting[j].status = "published"

\* What each change of a job asks of the row that it reads.
MayChange(j, op) ==
    /\ JobThere(j)
    /\ op = "update" => posting[j].status # "closed"
    /\ op = "publish" => posting[j].status = "draft" /\ posting[j].open
    /\ op = "close" => posting[j].status = "published"

ChangeReads(c, j, op) ==
    /\ MayChange(j, op) /\ Asks(c, [op |-> op, on |-> j])
    /\ UNCHANGED <<posting, trail, application, saved, notified>>

\* An edit keeps the status that the row has by now and may set another closing date.
UpdateJob(c, open) ==
    /\ clerk[c].op = "update" /\ Leaves(c)
    /\ Recorded(clerk[c].on, [posting[clerk[c].on] EXCEPT !.open = open])
    /\ UNCHANGED <<application, saved, notified>>

Transition(c) ==
    /\ clerk[c].op \in {"publish", "close"} /\ Leaves(c)
    /\ Recorded(clerk[c].on, [posting[clerk[c].on] EXCEPT
                  !.status = IF clerk[c].op = "publish" THEN "published" ELSE "closed"])
    /\ UNCHANGED <<application, saved, notified>>

RemoveJob(c) ==
    /\ clerk[c].op = "remove" /\ Leaves(c)
    /\ posting' = [posting EXCEPT ![clerk[c].on].state = "deleted"]
    /\ UNCHANGED <<trail, application, saved, notified>>

-----------------------------------------------------------------------------
(* Candidates                                                               *)

CandidateReads(c, a, op) ==
    /\ Active(a[2]) /\ Asks(c, [op |-> op, on |-> a])
    /\ UNCHANGED <<posting, trail, application, saved, notified>>

SaveJob(c) ==
    /\ clerk[c].op = "save" /\ Leaves(c)
    /\ saved' = saved \cup {clerk[c].on}
    /\ UNCHANGED <<posting, trail, application, notified>>

UnsaveJob(a) ==
    /\ a \in saved /\ saved' = saved \ {a}
    /\ UNCHANGED <<posting, trail, application, notified, clerk>>

\* One application of a candidate for a job, by the unique key.
ApplyToJob(c) ==
    /\ clerk[c].op = "apply" /\ Leaves(c)
    /\ application[clerk[c].on] = NoApplication
    /\ application' = [application EXCEPT ![clerk[c].on] =
                          [status |-> "submitted", history |-> <<[from |-> "none", to |-> "submitted"]>>]]
    /\ UNCHANGED <<posting, trail, saved, notified>>

Transitions(from) ==
    CASE from = "submitted" -> {"reviewing", "shortlisted", "rejected", "withdrawn"}
      [] from = "reviewing" -> {"shortlisted", "accepted", "rejected", "withdrawn"}
      [] from = "shortlisted" -> {"accepted", "rejected", "withdrawn"}
      [] OTHER -> {}

\* The candidate withdraws, an administrator sets any status that may follow.
StatusReads(c, a, to) ==
    /\ application[a] # NoApplication /\ to \in Transitions(application[a].status)
    /\ Asks(c, [op |-> "decide", on |-> a, from |-> application[a].status, to |-> to])
    /\ UNCHANGED <<posting, trail, application, saved, notified>>

\* The row and its history commit together; an administrator's change is told afterwards.
UpdateStatus(c) ==
    /\ clerk[c].op = "decide"
    /\ LET a == clerk[c].on
           change == [from |-> clerk[c].from, to |-> clerk[c].to] IN
       /\ Len(application[a].history) < MaxJobRecords
       /\ application' = [application EXCEPT ![a] = [status |-> change.to,
                                                     history |-> Append(application[a].history, change)]]
       /\ \/ change.to = "withdrawn" /\ Leaves(c)
          \/ clerk' = [clerk EXCEPT ![c] = [op |-> "tell", on |-> a, to |-> change.to]]
    /\ UNCHANGED <<posting, trail, saved, notified>>

\* Best effort, one notification for an application and a status.
Tell(c) ==
    /\ clerk[c].op = "tell" /\ Leaves(c)
    /\ notified' = notified \cup {<<clerk[c].on, clerk[c].to>>}
    /\ UNCHANGED <<posting, trail, application, saved>>

\* Refused, or stopped half way.
ClerkStops(c) == clerk[c] # AtDesk /\ Leaves(c) /\ UNCHANGED <<posting, trail, application, saved, notified>>

JobsNext ==
    /\ \/ \E j \in JobIds : ClosingDatePasses(j) \/ \E open \in BOOLEAN : CreateJob(j, open)
       \/ \E a \in Applications : UnsaveJob(a)
       \/ \E c \in Clerks :
           \/ \E j \in JobIds, op \in {"update", "publish", "close", "remove"} : ChangeReads(c, j, op)
           \/ \E open \in BOOLEAN : UpdateJob(c, open)
           \/ Transition(c) \/ RemoveJob(c)
           \/ \E a \in Applications :
               \/ \E op \in {"save", "apply"} : CandidateReads(c, a, op)
               \/ \E to \in ApplicationStatuses : StatusReads(c, a, to)
           \/ SaveJob(c) \/ ApplyToJob(c) \/ UpdateStatus(c) \/ Tell(c) \/ ClerkStops(c)
    /\ collided' = collided \cup
           {clerk'[c].on : c \in {d \in Clerks : clerk'[d] # AtDesk /\
               \E e \in Clerks \ {d} : clerk'[e] # AtDesk /\ clerk'[e].on = clerk'[d].on}}

JobsSpec == JobsInit /\ [][JobsNext]_jobVars

-----------------------------------------------------------------------------
(* Properties                                                               *)

JobsTypeOK ==
    /\ posting \in [JobIds -> [state : {"none", "there", "deleted"},
                           status : {"draft", "published", "closed"}, open : BOOLEAN]]
    /\ saved \subseteq Applications /\ notified \subseteq Applications \X ApplicationStatuses
    /\ collided \subseteq JobIds \cup Applications

\* The last audit record names the status of a job, whoever changed it at a time; and a job
\* goes from draft to published to closed, unless two requests about it crossed.
JobsAudited ==
    \A j \in JobIds : posting[j].state # "none" =>
        /\ trail[j] # <<>> /\ Last(trail[j]) = posting[j].status
        /\ j \notin collided => \A i, k \in DOMAIN trail[j] : i < k =>
               /\ trail[j][i] = "closed" => trail[j][k] = "closed"
               /\ trail[j][i] = "published" => trail[j][k] # "draft"

\* What a candidate saved or applied for was published.
AppliedWhenPublished ==
    \A a \in Applications :
        application[a] # NoApplication \/ a \in saved =>
            \E i \in DOMAIN trail[a[2]] : trail[a[2]][i] = "published"

\* The history of an application explains its status: each change is one that may follow, and
\* follows the one before it unless two requests about the application crossed; who is told
\* of a status had it.
HistoryExplains ==
    \A a \in Applications :
        LET h == application[a].history IN
        /\ application[a] # NoApplication =>
              /\ h # <<>> /\ h[1].from = "none" /\ Last(h).to = application[a].status
              /\ \A i \in DOMAIN h : i > 1 => h[i].to \in Transitions(h[i].from)
              /\ a \notin collided => \A i \in DOMAIN h : i > 1 => h[i].from = h[i - 1].to
        /\ \A to \in ApplicationStatuses : <<a, to>> \in notified => \E i \in DOMAIN h : h[i].to = to

\* Jobs, their audit and the applications for them agree.
JobsConsistent == JobsTypeOK /\ JobsAudited /\ AppliedWhenPublished /\ HistoryExplains
=============================================================================
