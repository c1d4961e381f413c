------------------------------ MODULE Classrooms -----------------------------
(* The live sessions of a course and who attends them.  Nothing runs in a   *)
(* transaction: a request reads the session or the attendance, decides, and *)
(* writes the row later by its id, whatever others wrote in between.        *)
EXTENDS Naturals

CONSTANTS
    Classes,        \* sessions of a course
    Attendees,      \* learners with full access to the course
    Visits,         \* requests at a time
    Slots,          \* times of the schedule
    MaxClock        \* bound of the clock

ASSUME ClassroomsAssumption == Slots \subseteq Nat \ {0} /\ MaxClock \in Nat

VARIABLES
    class,      \* session -> its row
    attendance, \* session and learner -> row of when they joined and left
    visit,      \* requests in flight
    crossed,    \* rows that two requests in flight were about at a time
    clock

classroomVars == <<class, attendance, visit, crossed, clock>>

Away == [op |-> "none"]
Keep == 0   \* a time left out of a request, and a column that is null
NoClass == [state |-> "none", status |-> "scheduled", start |-> Keep, end |-> Keep, began |-> Keep]
NoRow == [joined |-> 0, left |-> 0, seconds |-> 0]
Seats == Classes \X Attendees

ClassroomsInit ==
    /\ class = [s \in Classes |-> NoClass]
    /\ attendance = [a \in Seats |-> NoRow]
    /\ visit = [v \in Visits |-> Away]
    /\ crossed = {} /\ clock = 1

\* assertValidSchedule
ValidSchedule(start, end) == start < end

Merge(given, old) == IF given = Keep THEN old ELSE given

\* Mutant: what the request leaves out is not checked against the row.
AllowedAsGiven(s, start, end) == start # Keep /\ end # Keep => ValidSchedule(start, end)

\* What is given is checked together with the rest of the row that was read.
Allowed(s, start, end) ==
    start # Keep \/ end # Keep =>
        ValidSchedule(Merge(start, class[s].start), Merge(end, class[s].end))

\* new Date(): it is read after the row and before the write, at a time in between.
TimeOf(v) == visit[v].since..clock

There(s) == class[s].state = "there"
Begins(v, request) == visit[v] = Away /\ visit' = [visit EXCEPT ![v] = request]
Ends(v) == visit' = [visit EXCEPT ![v] = Away]

CreateSession(s, start, end) ==
    /\ class[s].state = "none" /\ ValidSchedule(start, end)
    /\ class' = [class EXCEPT ![s] = [state |-> "there", status |-> "scheduled", start |-> start,
                                      end |-> end, began |-> Keep]]
    /\ UNCHANGED <<attendance, visit, clock>>

UpdateSessionReads(v, s, start, end) ==
    /\ There(s) /\ Allowed(s, start, end)
    /\ Begins(v, [op |-> "update", on |-> s, start |-> start, end |-> end])
    /\ UNCHANGED <<class, attendance, clock>>

UpdateSession(v) ==
    /\ visit[v].op = "update" /\ Ends(v)
    /\ LET s == visit[v].on IN
       class' = [class EXCEPT ![s].start = Merge(visit[v].start, @), ![s].end = Merge(visit[v].end, @)]
    /\ UNCHANGED <<attendance, clock>>

\* A session is deleted, or started (also one that is live, and by its instructor alone).
SessionReads(v, s, op) ==
    /\ There(s)
    /\ Begins(v, [op |-> op, on |-> s, since |-> clock])
    /\ UNCHANGED <<class, attendance, clock>>

DeleteSession(v) ==
    /\ visit[v].op = "delete" /\ Ends(v)
    /\ class' = [class EXCEPT ![visit[v].on].state = "deleted", ![visit[v].on].status = "cancelled"]
    /\ UNCHANGED <<attendance, clock>>

StartSession(v) ==
    /\ visit[v].op = "start" /\ Ends(v)
    /\ \E now \in TimeOf(v) :
           class' = [class EXCEPT ![visit[v].on].status = "live", ![visit[v].on].began = now]
    /\ UNCHANGED <<attendance, clock>>

\* Only a live session is joined or left.
RecordAttendance(v, a, event) ==
    /\ There(a[1]) /\ class[a[1]].status = "live"
    /\ Begins(v, [op |-> event, on |-> a, since |-> clock])
    /\ UNCHANGED <<class, attendance, clock>>

\* Joining again begins the row anew.
RecordJoin(v) ==
    /\ visit[v].op = "join" /\ Ends(v)
    /\ \E now \in TimeOf(v) :
           attendance' = [attendance EXCEPT ![visit[v].on] = [joined |-> now, left |-> 0, seconds |-> 0]]
    /\ UNCHANGED <<class, clock>>

LeaveReads(v) ==
    /\ visit[v].op = "leave" /\ attendance[visit[v].on] # NoRow
    /\ visit' = [visit EXCEPT ![v] = [op |-> "leaving", on |-> visit[v].on, since |-> clock,
                                      joined |-> attendance[visit[v].on].joined]]
    /\ UNCHANGED <<class, attendance, clock>>

\* The time since the joining that was read, or none when it came later.
RecordLeave(v) ==
    /\ visit[v].op = "leaving" /\ Ends(v)
    /\ \E now \in TimeOf(v) :
           attendance' = [attendance EXCEPT ![visit[v].on].left = now,
               ![visit[v].on].seconds = IF visit[v].joined < now THEN now - visit[v].joined ELSE 0]
    /\ UNCHANGED <<class, clock>>

ClockTicks == clock < MaxClock /\ clock' = clock + 1 /\ UNCHANGED <<class, attendance, visit>>

\* Refused, or stopped half way.
VisitEnds(v) == visit[v] # Away /\ Ends(v) /\ UNCHANGED <<class, attendance, clock>>

ClassroomsNext ==
    /\ \/ \E s \in Classes, start, end \in Slots : CreateSession(s, start, end)
       \/ \E v \in Visits :
           \/ \E s \in Classes :
               \/ \E start, end \in Slots \cup {Keep} : UpdateSessionReads(v, s, start, end)
               \/ \E op \in {"delete", "start"} : SessionReads(v, s, op)
           \/ \E a \in Seats, event \in {"join", "leave"} : RecordAttendance(v, a, event)
           \/ UpdateSession(v) \/ DeleteSession(v) \/ StartSession(v)
           \/ RecordJoin(v) \/ LeaveReads(v) \/ RecordLeave(v) \/ VisitEnds(v)
       \/ ClockTicks
    /\ crossed' = crossed \cup
           {visit'[v].on : v \in {w \in Visits : visit'[w] # Away /\
               \E x \in Visits \ {w} : visit'[x] # Away /\ visit'[x].on = visit'[w].on}}

ClassroomsSpec == ClassroomsInit /\ [][ClassroomsNext]_classroomVars

-----------------------------------------------------------------------------
(* Properties                                                               *)

ClassroomsTypeOK ==
    /\ class \in [Classes -> [state : {"none", "there", "deleted"},
                              status : {"scheduled", "live", "cancelled"},
                              start : Slots \cup {Keep}, end : Slots \cup {Keep}, began : Nat]]
    /\ attendance \in [Seats -> [joined : Nat, left : Nat, seconds : Nat]]
    /\ crossed \subseteq Classes \cup Seats /\ clock \in Nat

\* A session begins before it ends, and one that is deleted is cancelled, unless two requests
\* about it crossed: neither sees what the other is to write.
SessionsSound ==
    \A s \in Classes : class[s].state # "none" /\ s \notin crossed =>
        /\ class[s].start < class[s].end
        /\ class[s].state = "deleted" => class[s].status = "cancelled"

\* Who attended was let in after the session had begun; the time counted is the time between
\* the joining and the leaving, unless two requests of the learner crossed.
AttendanceSound ==
    \A a \in Seats : attendance[a] # NoRow =>
        /\ class[a[1]].began > 0 /\ attendance[a].joined > 0
        /\ attendance[a].left > 0 /\ a \notin crossed =>
               attendance[a].left = attendance[a].joined + attendance[a].seconds

\* Sessions and attendance hold what was checked, unless requests about a row crossed.
ClassroomsConsistent == ClassroomsTypeOK /\ SessionsSound /\ AttendanceSound
=============================================================================
