--------------------------- MODULE SessionRecords ---------------------------
(***************************************************************************)
(* The sessions of the API server (sessions.service.ts): the rows of the   *)
(* sessions table and the append-only session_events, as createSession,    *)
(* updateSession and logEvent write them for the gateway and the REST      *)
(* controller.                                                             *)
(*                                                                         *)
(* updateSession awaits the database four times: it finds the row, and     *)
(* save() loads it once more and writes the columns in which the entity    *)
(* differs from what it loaded; then the event is inserted.  Updates of    *)
(* one session interleave at each of these awaits.                         *)
(***************************************************************************)
EXTENDS Naturals, Sequences, FiniteSets

CONSTANTS
  SessionIds, NoSession,
  Tasks, Idle,           \* updates in progress
  MaxEvents              \* bound: events of a session

VARIABLES
  sessions,    \* [SessionIds -> Row \cup {NoSession}]
  events,      \* [SessionIds -> Seq(EventTypes)]
  task,        \* [Tasks -> what the task is about to do, or Idle]
  unsettled,   \* sessions whose updates overlapped or were cut short, or to whose log
               \* an event was posted, since an update last set the status on its own
  cut          \* sessions with an update a crash cut short

vars == <<sessions, events, task, unsettled, cut>>

Statuses == {"connecting", "active", "disconnected", "failed"}
NoStatus == "none"
Ended == {"disconnected", "failed"}

(* An event is the status an update set, or what SessionEventDto lets a      *)
(* client post; the posted types that are no status are one here.            *)
PostedTypes == {"connecting", "disconnected", "other"}
EventTypes == Statuses \cup PostedTypes

(* stamped: endedAt and durationSeconds are set.  The columns connectionType *)
(* and qualityMetrics are left out: a report is an update without a status. *)
Row == [status: Statuses, stamped: BOOLEAN]
Columns == {"status", "stamped"}
Job == [at: {"load"}, session: SessionIds, entity: Row, status: Statuses \cup {NoStatus}]
       \cup [at: {"write"}, session: SessionIds, entity: Row,
             status: Statuses \cup {NoStatus}, changed: SUBSET Columns]
       \cup [at: {"log"}, session: SessionIds, status: Statuses]

ASSUME SessionRecordsAssumption ==
  MaxEvents \in Nat \ {0} /\ IsFiniteSet(Tasks) /\ NoSession \notin Row /\ Idle \notin Job

RunningOn(x) == {t \in Tasks : task[t] # Idle /\ task[t].session = x}
Pending(x) == {task[t].status : t \in RunningOn(x)} \ {NoStatus}
Logged(x) == {events[x][n] : n \in 1..Len(events[x])}

(* Rows, events and jobs are well formed; a session without a row has none. *)
SessionRecordsTypeOK ==
  /\ sessions \in [SessionIds -> Row \cup {NoSession}]
  /\ events \in [SessionIds -> Seq(EventTypes)]
  /\ \A x \in SessionIds : /\ Len(events[x]) <= MaxEvents
                           /\ sessions[x] = NoSession => events[x] = <<>>
  /\ task \in [Tasks -> Job \cup {Idle}]
  /\ unsettled \subseteq SessionIds
  /\ cut \subseteq SessionIds

Init ==
  /\ sessions = [x \in SessionIds |-> NoSession]
  /\ events = [x \in SessionIds |-> <<>>]
  /\ task = [t \in Tasks |-> Idle]
  /\ unsettled = {} /\ cut = {}

-----------------------------------------------------------------------------
Room(x) ==
  Len(events[x]) + Cardinality({t \in RunningOn(x) : task[t].status # NoStatus}) < MaxEvents

(* An update that sets the status while no other one runs settles it.        *)
Run(t, job) ==
  /\ task[t] = Idle
  /\ task' = [task EXCEPT ![t] = job]
  /\ unsettled' = IF RunningOn(job.session) # {} THEN unsettled \cup {job.session}
                  ELSE IF job.status # NoStatus THEN unsettled \ {job.session}
                  ELSE unsettled

Fresh == [status |-> "connecting", stamped |-> FALSE]

(* createSession, the devices found: the row is inserted, the event is next *)
CreateSession(t, x) ==
  /\ sessions[x] = NoSession
  /\ sessions' = [sessions EXCEPT ![x] = Fresh]
  /\ Run(t, [at |-> "log", session |-> x, status |-> "connecting"])
  /\ UNCHANGED <<events, cut>>

(* Slips: an absent status is assigned too; a failed session gets no end.   *)
AppliedUnchecked(row, st) == [status |-> st, stamped |-> row.stamped \/ st \in Ended]
AppliedWithoutEnd(row, st) ==
  [status  |-> IF st = NoStatus THEN row.status ELSE st,
   stamped |-> row.stamped \/ st = "disconnected"]

(* The dto applied to the row that was found.                               *)
Applied(row, st) ==
  [status  |-> IF st = NoStatus THEN row.status ELSE st,
   stamped |-> row.stamped \/ st \in Ended]

(* The id is known once createSession returned, or from getSessionHistory   *)
(* when the server died before that.                                        *)
IsKnown(x) == events[x] # <<>> \/ x \in cut

(* updateSession up to save()                                               *)
UpdateSession(t, x, st) ==
  /\ IsKnown(x)
  /\ st = NoStatus \/ Room(x)
  /\ Run(t, [at |-> "load", session |-> x, entity |-> Applied(sessions[x], st),
             status |-> st])
  /\ UNCHANGED <<sessions, events, cut>>

(* save() loads the row and finds the columns to write.                     *)
LoadForSave(t) ==
  /\ task[t] # Idle /\ task[t].at = "load"
  /\ LET job == task[t]
         changed == {c \in Columns : job.entity[c] # sessions[job.session][c]}
     IN  task' = [task EXCEPT ![t] = [at |-> "write", session |-> job.session,
                    entity |-> job.entity, status |-> job.status, changed |-> changed]]
  /\ UNCHANGED <<sessions, events, unsettled, cut>>

ToLog(job) == [at |-> "log", session |-> job.session, status |-> job.status]

(* a slip: only the statuses SessionEventDto knows as event types are logged *)
AfterSaveOfKnownType(job) ==
  IF job.status \in {"connecting", "disconnected"} THEN ToLog(job) ELSE Idle

(* An update without a status has no event.                                 *)
AfterSave(job) == IF job.status # NoStatus THEN ToLog(job) ELSE Idle

WriteChanges(t) ==
  LET job == task[t]
  IN  /\ job # Idle /\ job.at = "write"
      /\ sessions' = [sessions EXCEPT ![job.session] =
           [status |-> IF "status" \in job.changed THEN job.entity.status ELSE @.status,
            stamped |-> IF "stamped" \in job.changed THEN job.entity.stamped ELSE @.stamped]]
      /\ task' = [task EXCEPT ![t] = AfterSave(job)]
      /\ UNCHANGED <<events, unsettled, cut>>

LogEvent(t) ==
  LET job == task[t]
  IN  /\ job # Idle /\ job.at = "log"
      /\ events' = [events EXCEPT ![job.session] = Append(@, job.status)]
      /\ task' = [task EXCEPT ![t] = Idle]
      /\ UNCHANGED <<sessions, unsettled, cut>>

(* POST :id/events: logEvent appends what the client says, and looks at     *)
(* nothing else.                                                            *)
PostEvent(x, type) ==
  /\ IsKnown(x) /\ Room(x)
  /\ events' = [events EXCEPT ![x] = Append(@, type)]
  /\ unsettled' = unsettled \cup {x}
  /\ UNCHANGED <<sessions, task, cut>>

(* The API server dies; the tables stay.                                    *)
Restart ==
  /\ \E t \in Tasks : task[t] # Idle
  /\ task' = [t \in Tasks |-> Idle]
  /\ cut' = cut \cup {x \in SessionIds : RunningOn(x) # {}}
  /\ unsettled' = unsettled \cup {x \in SessionIds : RunningOn(x) # {}}
  /\ UNCHANGED <<sessions, events>>

Next ==
  \/ \E t \in Tasks :
       \/ \E x \in SessionIds :
            \/ CreateSession(t, x)
            \/ \E st \in Statuses \cup {NoStatus} : UpdateSession(t, x, st)
       \/ LoadForSave(t)
       \/ WriteChanges(t)
       \/ LogEvent(t)
  \/ \E x \in SessionIds, type \in PostedTypes : PostEvent(x, type)
  \/ Restart

Spec == Init /\ [][Next]_vars

-----------------------------------------------------------------------------
(* Properties *)

(* However the updates of a session overlap, and though one may write back  *)
(* what another one has replaced, the row never shows a status that is not  *)
(* in its log, or on its way there (sessions.service.ts:73), unless a crash *)
(* came between the two.                                                    *)
StatusIsLogged ==
  \A x \in SessionIds \ cut :
    sessions[x] # NoSession => sessions[x].status \in Logged(x) \cup Pending(x)

(* The log tells where a session stands: its last event is the status of    *)
(* the row, and a session that ended has an end time.  Overlapping updates, *)
(* a crash and a posted event can part the two (the row then shows what an  *)
(* older update wrote back); the next update that sets the status while no  *)
(* other one runs brings them together again, for good until one of these   *)
(* comes (sessions.service.ts:47-80).  implementation_plan.md:344 takes it  *)
(* for granted of every session.                                            *)
LogTellsStatus ==
  \A x \in SessionIds \ unsettled :
    sessions[x] # NoSession /\ RunningOn(x) = {} =>
      /\ events[x] # <<>>
      /\ sessions[x].status = events[x][Len(events[x])]
      /\ sessions[x].status \in Ended => sessions[x].stamped
=============================================================================
