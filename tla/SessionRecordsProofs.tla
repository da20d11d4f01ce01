------------------------ MODULE SessionRecordsProofs ------------------------
(***************************************************************************)
(* Theorems about SessionRecords, for any number of sessions, of updates   *)
(* at a time and of events.                                                *)
(***************************************************************************)
EXTENDS SessionRecords, FiniteSetTheorems, TLAPS

(* What the log of a session says, or is about to.                          *)
Known(x) == Logged(x) \cup Pending(x)

(* An update, and a crash, is of a session that has a row.                  *)
RowsExist ==
  /\ \A t \in Tasks : task[t] # Idle => sessions[task[t].session] # NoSession
  /\ \A x \in cut : sessions[x] # NoSession

(* The statuses on their way have room in the log.                          *)
Logging(x) == {t \in RunningOn(x) : task[t].status # NoStatus}
RoomIsKept == \A x \in SessionIds : Len(events[x]) + Cardinality(Logging(x)) <= MaxEvents

(* The entity an update will write back, which may be older than the row.   *)
EntityIsKnown(t) ==
  task[t] # Idle /\ task[t].at \in {"load", "write"} =>
    /\ task[t].status # NoStatus => task[t].entity.status = task[t].status
    /\ task[t].session \notin cut => task[t].entity.status \in Known(task[t].session)

TypeInv == SessionRecordsTypeOK /\ RowsExist /\ RoomIsKept
Inv == TypeInv /\ (\A t \in Tasks : EntityIsKnown(t)) /\ StatusIsLogged

(* Only task t moves, to another job or none.                               *)
Moves(t) ==
  /\ task' \in [Tasks -> Job \cup {Idle}]
  /\ \A u \in Tasks \ {t} : task'[u] = task[u]

USE SessionRecordsAssumption DEF vars

-----------------------------------------------------------------------------
(* What each step does *)

LEMMA JobTypes ==
  ASSUME NEW job \in Job
  PROVE  /\ job # Idle
         /\ job.at \in {"load", "write", "log"}
         /\ job.session \in SessionIds
         /\ job.status \in Statuses \cup {NoStatus}
         /\ job.at = "log" => job.status \in Statuses
         /\ job.at # "log" => job.entity \in Row
         /\ job.at = "write" => job.changed \subseteq Columns
  BY DEF Job

LEMMA AppliedType ==
  ASSUME NEW row \in Row, NEW st \in Statuses \cup {NoStatus}
  PROVE  /\ Applied(row, st) \in Row
         /\ Applied(row, st).status = IF st = NoStatus THEN row.status ELSE st
  BY DEF Applied, Row

LEMMA Creates ==
  ASSUME TypeInv, NEW t \in Tasks, NEW x \in SessionIds, CreateSession(t, x)
  PROVE  /\ Moves(t) /\ task[t] = Idle
         /\ task'[t] # Idle /\ task'[t].at = "log"
         /\ task'[t].session = x /\ task'[t].status = "connecting"
         /\ RunningOn(x) = {} /\ events[x] = <<>>
         /\ sessions'[x] \in Row /\ sessions'[x].status = "connecting" /\ ~sessions'[x].stamped
         /\ \A y \in SessionIds \ {x} : sessions'[y] = sessions[y]
         /\ sessions' \in [SessionIds -> Row \cup {NoSession}]
         /\ unsettled' = unsettled \ {x}
         /\ events' = events /\ cut' = cut
<1> DEFINE job == [at |-> "log", session |-> x, status |-> "connecting"]
<1>1. job \in Job /\ Fresh \in Row /\ Fresh.status = "connecting" /\ ~Fresh.stamped
  BY DEF Job, Statuses, Fresh, Row
<1>2. task[t] = Idle /\ task' = [task EXCEPT ![t] = job]
  BY DEF CreateSession, Run
<1>3. Moves(t) /\ task'[t] = job
  BY <1>1, <1>2 DEF Moves, TypeInv, SessionRecordsTypeOK
<1>4. RunningOn(x) = {} /\ events[x] = <<>>
  BY DEF CreateSession, RunningOn, TypeInv, RowsExist, SessionRecordsTypeOK
<1>5. sessions' = [sessions EXCEPT ![x] = Fresh] /\ events' = events /\ cut' = cut
  BY DEF CreateSession
<1>6. /\ sessions'[x] = Fresh /\ \A y \in SessionIds \ {x} : sessions'[y] = sessions[y]
      /\ sessions' \in [SessionIds -> Row \cup {NoSession}]
  BY <1>1, <1>5 DEF TypeInv, SessionRecordsTypeOK
<1>7. unsettled' = unsettled \ {x}
  BY <1>4 DEF CreateSession, Run, NoStatus
<1> QED BY <1>1, <1>2, <1>3, <1>4, <1>5, <1>6, <1>7

LEMMA KnownHasRow ==
  ASSUME TypeInv, NEW x \in SessionIds, IsKnown(x) PROVE sessions[x] \in Row
  BY DEF IsKnown, TypeInv, RowsExist, SessionRecordsTypeOK

LEMMA Updates ==
  ASSUME TypeInv, NEW t \in Tasks, NEW x \in SessionIds, NEW st \in Statuses \cup {NoStatus},
         UpdateSession(t, x, st)
  PROVE  /\ Moves(t) /\ task[t] = Idle
         /\ sessions[x] \in Row
         /\ task'[t] # Idle /\ task'[t].at = "load"
         /\ task'[t].session = x /\ task'[t].status = st
         /\ task'[t].entity = Applied(sessions[x], st)
         /\ unsettled' = IF RunningOn(x) # {} THEN unsettled \cup {x}
                         ELSE IF st # NoStatus THEN unsettled \ {x} ELSE unsettled
         /\ UNCHANGED <<sessions, events, cut>>
<1> DEFINE job == [at |-> "load", session |-> x, entity |-> Applied(sessions[x], st),
                   status |-> st]
<1>1. sessions[x] \in Row
  BY KnownHasRow DEF UpdateSession
<1>2. job \in Job
  BY <1>1, AppliedType DEF Job
<1>3. task[t] = Idle /\ task' = [task EXCEPT ![t] = job]
  BY DEF UpdateSession, Run
<1>4. Moves(t) /\ task'[t] = job
  BY <1>2, <1>3 DEF Moves, TypeInv, SessionRecordsTypeOK
<1>5. unsettled' = IF RunningOn(x) # {} THEN unsettled \cup {x}
                  ELSE IF st # NoStatus THEN unsettled \ {x} ELSE unsettled
  BY DEF UpdateSession, Run
<1> QED BY <1>1, <1>2, <1>3, <1>4, <1>5 DEF UpdateSession

LEMMA Loads ==
  ASSUME TypeInv, NEW t \in Tasks, LoadForSave(t)
  PROVE  /\ Moves(t) /\ task[t] \in Job /\ task[t].at = "load"
         /\ sessions[task[t].session] \in Row
         /\ task'[t] # Idle /\ task'[t].at = "write"
         /\ task'[t].session = task[t].session /\ task'[t].status = task[t].status
         /\ task'[t].entity = task[t].entity
         /\ \A c \in Columns : c \notin task'[t].changed =>
                              task[t].entity[c] = sessions[task[t].session][c]
         /\ UNCHANGED <<sessions, events, cut, unsettled>>
<1>1. task[t] \in Job /\ task[t].at = "load"
  BY DEF LoadForSave, TypeInv, SessionRecordsTypeOK
<1>2. sessions[task[t].session] \in Row
  BY <1>1, JobTypes DEF TypeInv, RowsExist, SessionRecordsTypeOK
<1> DEFINE changed == {c \in Columns : task[t].entity[c] # sessions[task[t].session][c]}
           job == [at |-> "write", session |-> task[t].session, entity |-> task[t].entity,
                   status |-> task[t].status, changed |-> changed]
<1>3. job \in Job
  BY <1>1, JobTypes DEF Job
<1>4. task' = [task EXCEPT ![t] = job] /\ UNCHANGED <<sessions, events, cut, unsettled>>
  BY DEF LoadForSave
<1>5. /\ job.at = "write" /\ job.session = task[t].session /\ job.status = task[t].status
      /\ job.entity = task[t].entity /\ job.changed = changed
  OBVIOUS
<1>6. \A c \in Columns : c \notin job.changed =>
                        task[t].entity[c] = sessions[task[t].session][c]
  BY <1>5
<1> HIDE DEF job, changed
<1>7. Moves(t) /\ task'[t] = job
  BY <1>3, <1>4 DEF Moves, TypeInv, SessionRecordsTypeOK
<1>8. job # Idle
  BY <1>3
<1> QED BY <1>1, <1>2, <1>4, <1>5, <1>6, <1>7, <1>8

LEMMA Writes ==
  ASSUME TypeInv, NEW t \in Tasks, WriteChanges(t)
  PROVE  /\ Moves(t) /\ task[t] \in Job /\ task[t].at = "write"
         /\ task[t].status = NoStatus => task'[t] = Idle
         /\ task[t].status # NoStatus => task'[t] # Idle
         /\ task'[t] # Idle => /\ task'[t].at = "log" /\ task'[t].session = task[t].session
                              /\ task'[t].status = task[t].status
         /\ sessions[task[t].session] \in Row
         /\ sessions'[task[t].session] \in Row
         /\ sessions'[task[t].session].status =
              IF "status" \in task[t].changed THEN task[t].entity.status
              ELSE sessions[task[t].session].status
         /\ sessions'[task[t].session].stamped =
              IF "stamped" \in task[t].changed THEN task[t].entity.stamped
              ELSE sessions[task[t].session].stamped
         /\ \A y \in SessionIds \ {task[t].session} : sessions'[y] = sessions[y]
         /\ sessions' \in [SessionIds -> Row \cup {NoSession}]
         /\ UNCHANGED <<events, cut, unsettled>>
<1> DEFINE job == task[t]
           row == [status |-> IF "status" \in job.changed THEN job.entity.status
                              ELSE sessions[job.session].status,
                   stamped |-> IF "stamped" \in job.changed THEN job.entity.stamped
                               ELSE sessions[job.session].stamped]
<1>1. job \in Job /\ job.at = "write" /\ job.session \in SessionIds
  BY JobTypes DEF WriteChanges, TypeInv, SessionRecordsTypeOK
<1>2. sessions[job.session] \in Row /\ job.entity \in Row
  BY <1>1, JobTypes DEF TypeInv, RowsExist, SessionRecordsTypeOK
<1>3. row \in Row
  BY <1>2 DEF Row
<1>4. sessions' = [sessions EXCEPT ![job.session] = row]
  BY DEF WriteChanges
<1>5. AfterSave(job) \in Job \cup {Idle}
  BY <1>1, JobTypes DEF AfterSave, ToLog, Job
<1>6. Moves(t) /\ task'[t] = AfterSave(job)
  BY <1>5 DEF WriteChanges, Moves, TypeInv, SessionRecordsTypeOK
<1>7. /\ row.status = IF "status" \in job.changed THEN job.entity.status
                       ELSE sessions[job.session].status
      /\ row.stamped = IF "stamped" \in job.changed THEN job.entity.stamped
                        ELSE sessions[job.session].stamped
  OBVIOUS
<1>8. /\ job.status = NoStatus => AfterSave(job) = Idle
      /\ job.status # NoStatus => /\ AfterSave(job) # Idle /\ AfterSave(job).at = "log"
                                 /\ AfterSave(job).session = job.session
                                 /\ AfterSave(job).status = job.status
  <2>1. CASE job.status = NoStatus
    BY <2>1 DEF AfterSave
  <2>2. CASE job.status # NoStatus
    <3>1. AfterSave(job) = ToLog(job)
      BY <2>2 DEF AfterSave
    <3>2. ToLog(job) \in Job
      BY <1>1, <2>2, JobTypes DEF ToLog, Job
    <3>3. ToLog(job).at = "log" /\ ToLog(job).session = job.session /\ ToLog(job).status = job.status
      BY DEF ToLog
    <3> QED BY <2>2, <3>1, <3>2, <3>3
  <2> QED BY <2>1, <2>2
<1> HIDE DEF row
<1>9. sessions'[job.session] = row /\ \A y \in SessionIds \ {job.session} : sessions'[y] = sessions[y]
  BY <1>1, <1>4 DEF TypeInv, SessionRecordsTypeOK
<1>10. sessions' \in [SessionIds -> Row \cup {NoSession}]
  BY <1>3, <1>4 DEF TypeInv, SessionRecordsTypeOK
<1> QED BY <1>1, <1>2, <1>3, <1>6, <1>7, <1>8, <1>9, <1>10 DEF WriteChanges

LEMMA Logs ==
  ASSUME TypeInv, NEW t \in Tasks, LogEvent(t)
  PROVE  /\ Moves(t) /\ task[t] \in Job /\ task[t].at = "log" /\ task'[t] = Idle
         /\ events'[task[t].session] = Append(events[task[t].session], task[t].status)
         /\ \A y \in SessionIds \ {task[t].session} : events'[y] = events[y]
         /\ UNCHANGED <<sessions, cut, unsettled>>
<1>1. task[t] \in Job /\ task[t].at = "log" /\ task' = [task EXCEPT ![t] = Idle]
  BY DEF LogEvent, TypeInv, SessionRecordsTypeOK
<1>2. Moves(t) /\ task'[t] = Idle
  BY <1>1 DEF Moves, TypeInv, SessionRecordsTypeOK
<1>3. events' = [events EXCEPT ![task[t].session] = Append(@, task[t].status)]
  BY DEF LogEvent
<1>4. task[t].session \in SessionIds
  BY <1>1, JobTypes
<1> QED BY <1>1, <1>2, <1>3, <1>4 DEF LogEvent, TypeInv, SessionRecordsTypeOK

LEMMA Posts ==
  ASSUME TypeInv, NEW x \in SessionIds, NEW type \in PostedTypes, PostEvent(x, type)
  PROVE  /\ sessions[x] # NoSession
         /\ type \in EventTypes /\ events'[x] = Append(events[x], type)
         /\ events' = [events EXCEPT ![x] = Append(@, type)]
         /\ \A y \in SessionIds \ {x} : events'[y] = events[y]
         /\ unsettled' = unsettled \cup {x}
         /\ UNCHANGED <<sessions, task, cut>>
  BY KnownHasRow DEF PostEvent, EventTypes, TypeInv, SessionRecordsTypeOK

LEMMA Kept ==
  ASSUME TypeInv, UNCHANGED vars \/ Restart
  PROVE  /\ UNCHANGED <<sessions, events>>
         /\ task' \in [Tasks -> Job \cup {Idle}]
         /\ \A t \in Tasks : task'[t] \in {task[t], Idle}
         /\ cut \subseteq cut' /\ cut' \subseteq SessionIds
         /\ unsettled \subseteq unsettled' /\ unsettled' \subseteq SessionIds
         /\ \A x \in cut' \ cut : RunningOn(x) # {}
         /\ \A x \in SessionIds \ cut' : x \notin cut
         /\ \A t \in Tasks : task[t] # Idle /\ task'[t] = Idle =>
              task[t].session \in cut' /\ task[t].session \in unsettled'
<1> USE DEF TypeInv, SessionRecordsTypeOK
<1>1. CASE UNCHANGED vars
  BY <1>1
<1>2. CASE Restart
  BY <1>2, JobTypes DEF Restart, RunningOn
<1> QED BY <1>1, <1>2

-----------------------------------------------------------------------------
(* Types *)

(* Rows are written and never removed.                                       *)
LEMMA RowsStay ==
  ASSUME TypeInv, [Next]_vars
  PROVE  /\ sessions' \in [SessionIds -> Row \cup {NoSession}]
         /\ \A x \in SessionIds : sessions[x] # NoSession => sessions'[x] # NoSession
<1>0. sessions \in [SessionIds -> Row \cup {NoSession}]
  BY DEF TypeInv, SessionRecordsTypeOK
<1>1. ASSUME NEW x \in SessionIds, sessions'[x] \in Row,
             \A y \in SessionIds \ {x} : sessions'[y] = sessions[y]
      PROVE  \A y \in SessionIds : /\ sessions'[y] \in Row \cup {NoSession}
                                   /\ sessions[y] # NoSession => sessions'[y] # NoSession
  BY <1>0, <1>1
<1>2. \/ UNCHANGED sessions
      \/ \E t \in Tasks, x \in SessionIds : CreateSession(t, x)
      \/ \E t \in Tasks : WriteChanges(t)
  BY DEF Next, UpdateSession, LoadForSave, LogEvent, PostEvent, Restart
<1>3. sessions' \in [SessionIds -> Row \cup {NoSession}]
  BY <1>0, <1>2, Creates, Writes
<1>4. ASSUME NEW t \in Tasks, NEW x \in SessionIds, CreateSession(t, x)
      PROVE  sessions'[x] \in Row /\ \A y \in SessionIds \ {x} : sessions'[y] = sessions[y]
  BY <1>4, Creates
<1>5. ASSUME NEW t \in Tasks, WriteChanges(t)
      PROVE  \E x \in SessionIds : /\ sessions'[x] \in Row
                                   /\ \A y \in SessionIds \ {x} : sessions'[y] = sessions[y]
  BY <1>5, Writes, JobTypes
<1>6. \A y \in SessionIds : /\ sessions'[y] \in Row \cup {NoSession}
                            /\ sessions[y] # NoSession => sessions'[y] # NoSession
  BY <1>0, <1>1, <1>2, <1>4, <1>5
<1> QED BY <1>3, <1>6

LEMMA RowsExistStep == ASSUME TypeInv, [Next]_vars PROVE RowsExist'
<1>0. \A x \in SessionIds : sessions[x] # NoSession => sessions'[x] # NoSession
  BY RowsStay
<1>1. ASSUME NEW x \in SessionIds, RunningOn(x) # {} PROVE sessions[x] # NoSession
  BY <1>1 DEF RunningOn, TypeInv, RowsExist
<1>2. \A u \in Tasks : task[u] # Idle => task[u].session \in SessionIds
                                         /\ sessions[task[u].session] # NoSession
  BY JobTypes DEF TypeInv, RowsExist, SessionRecordsTypeOK
<1>3. \A x \in cut : x \in SessionIds /\ sessions[x] # NoSession
  BY DEF TypeInv, RowsExist, SessionRecordsTypeOK
<1>4. ASSUME NEW t \in Tasks, Moves(t), cut' = cut,
             task'[t] # Idle => sessions'[task'[t].session] # NoSession
      PROVE  RowsExist'
  BY <1>0, <1>2, <1>3, <1>4 DEF RowsExist, Moves
<1>5. ASSUME NEW t \in Tasks, NEW x \in SessionIds, CreateSession(t, x) PROVE RowsExist'
  <2>1. sessions'[x] # NoSession
    BY <1>5, Creates DEF TypeInv, SessionRecordsTypeOK
  <2> QED BY <1>4, <1>5, <2>1, Creates
<1>6. ASSUME NEW t \in Tasks, NEW x \in SessionIds, NEW st \in Statuses \cup {NoStatus},
             UpdateSession(t, x, st)
      PROVE  RowsExist'
  BY <1>4, <1>6, Updates
<1>7. ASSUME NEW t \in Tasks, LoadForSave(t) PROVE RowsExist'
  BY <1>4, <1>7, Loads
<1>8. ASSUME NEW t \in Tasks, WriteChanges(t) PROVE RowsExist'
  <2>1. task'[t] # Idle => task'[t].session = task[t].session
    BY <1>8, Writes
  <2> QED BY <1>0, <1>2, <1>4, <1>8, <2>1, Writes, JobTypes
<1>9. ASSUME NEW t \in Tasks, LogEvent(t) PROVE RowsExist'
  BY <1>4, <1>9, Logs
<1>10. CASE UNCHANGED vars \/ Restart
  BY <1>0, <1>1, <1>2, <1>3, <1>10, Kept DEF RowsExist
<1>11. ASSUME NEW x \in SessionIds, NEW type \in PostedTypes, PostEvent(x, type) PROVE RowsExist'
  BY <1>11, Posts DEF TypeInv, RowsExist
<1> QED BY <1>5, <1>6, <1>7, <1>8, <1>9, <1>10, <1>11 DEF Next

-----------------------------------------------------------------------------
(* The bound on the log *)

LEMMA LoggingIsFinite ==
  ASSUME NEW x PROVE IsFiniteSet(Logging(x)) /\ Cardinality(Logging(x)) \in Nat
<1>1. Logging(x) \subseteq Tasks
  BY DEF Logging, RunningOn
<1> QED BY <1>1, FS_Subset, FS_CardinalityType

LEMMA RoomStep == ASSUME TypeInv, [Next]_vars PROVE RoomIsKept'
<1> SUFFICES ASSUME NEW x \in SessionIds
             PROVE  (Len(events[x]) + Cardinality(Logging(x)) <= MaxEvents)'
  BY DEF RoomIsKept
<1>0. /\ Len(events[x]) + Cardinality(Logging(x)) <= MaxEvents
      /\ events[x] \in Seq(EventTypes) /\ Len(events[x]) \in Nat
      /\ IsFiniteSet(Logging(x)) /\ Cardinality(Logging(x)) \in Nat
  BY LoggingIsFinite DEF TypeInv, RoomIsKept, SessionRecordsTypeOK
<1>1. ASSUME events'[x] = events[x], Logging(x)' \subseteq Logging(x)
      PROVE  (Len(events[x]) + Cardinality(Logging(x)) <= MaxEvents)'
  <2>1. Cardinality(Logging(x)') <= Cardinality(Logging(x)) /\ Cardinality(Logging(x)') \in Nat
    BY <1>0, <1>1, FS_Subset, FS_CardinalityType
  <2> QED BY <1>0, <1>1, <2>1
<1>2. ASSUME NEW t \in Tasks, NEW y \in SessionIds, CreateSession(t, y)
      PROVE  (Len(events[x]) + Cardinality(Logging(x)) <= MaxEvents)'
  <2>1. CASE x = y
    <3>1. events'[x] = <<>> /\ Logging(x)' \subseteq {t}
      BY <1>2, <2>1, Creates DEF Logging, RunningOn, Moves
    <3>2. IsFiniteSet({t}) /\ Cardinality({t}) = 1
      BY FS_Singleton
    <3>3. Cardinality(Logging(x)') <= 1 /\ IsFiniteSet(Logging(x)')
      BY <3>1, <3>2, FS_Subset
    <3>4. Cardinality(Logging(x)') \in Nat
      BY <3>3, FS_CardinalityType
    <3> QED BY <3>1, <3>3, <3>4
  <2>2. CASE x # y
    <3>1. Logging(x)' \subseteq Logging(x)
      BY <1>2, <2>2, Creates DEF Logging, RunningOn, Moves
    <3> QED BY <1>1, <1>2, <3>1, Creates
  <2> QED BY <2>1, <2>2
<1>3. ASSUME NEW t \in Tasks, NEW y \in SessionIds, NEW st \in Statuses \cup {NoStatus},
             UpdateSession(t, y, st)
      PROVE  (Len(events[x]) + Cardinality(Logging(x)) <= MaxEvents)'
  <2>0. task'[t].session = y /\ task'[t].status = st /\ task'[t] # Idle /\ Moves(t)
    BY <1>3, Updates
  <2>1. CASE x # y \/ st = NoStatus
    <3>1. Logging(x)' \subseteq Logging(x)
      BY <2>0, <2>1 DEF Logging, RunningOn, Moves
    <3> QED BY <1>1, <1>3, <3>1, Updates
  <2>2. CASE x = y /\ st # NoStatus
    <3>1. Len(events[x]) + Cardinality(Logging(x)) < MaxEvents /\ events' = events
      BY <1>3, <2>2 DEF UpdateSession, Room, Logging
    <3>2. Logging(x)' \subseteq Logging(x) \cup {t}
      BY <2>0, <2>2 DEF Logging, RunningOn, Moves
    <3>3. /\ IsFiniteSet(Logging(x) \cup {t})
          /\ Cardinality(Logging(x) \cup {t}) \in {Cardinality(Logging(x)), Cardinality(Logging(x)) + 1}
      BY <1>0, FS_AddElement
    <3>4. /\ Cardinality(Logging(x)') <= Cardinality(Logging(x) \cup {t})
          /\ IsFiniteSet(Logging(x)')
      BY <3>2, <3>3, FS_Subset
    <3>5. Cardinality(Logging(x)') \in Nat
      BY <3>4, FS_CardinalityType
    <3> QED BY <1>0, <3>1, <3>3, <3>4, <3>5
  <2> QED BY <2>1, <2>2
<1>4. ASSUME NEW t \in Tasks, LoadForSave(t)
      PROVE  (Len(events[x]) + Cardinality(Logging(x)) <= MaxEvents)'
  <2>1. Logging(x)' \subseteq Logging(x)
    BY <1>4, Loads, JobTypes DEF Logging, RunningOn, Moves
  <2> QED BY <1>1, <1>4, <2>1, Loads
<1>5. ASSUME NEW t \in Tasks, WriteChanges(t)
      PROVE  (Len(events[x]) + Cardinality(Logging(x)) <= MaxEvents)'
  <2>1. Logging(x)' \subseteq Logging(x)
    BY <1>5, Writes, JobTypes DEF Logging, RunningOn, Moves
  <2> QED BY <1>1, <1>5, <2>1, Writes
<1>6. ASSUME NEW t \in Tasks, LogEvent(t)
      PROVE  (Len(events[x]) + Cardinality(Logging(x)) <= MaxEvents)'
  <2>1. Logging(x)' = Logging(x) \ {t}
    BY <1>6, Logs DEF Logging, RunningOn, Moves
  <2>2. task[t].session \in SessionIds /\ task[t].status \in Statuses /\ task[t] # Idle
    BY <1>6, Logs, JobTypes
  <2>3. CASE x = task[t].session
    <3>1. events'[x] = Append(events[x], task[t].status)
      BY <1>6, <2>3, Logs DEF TypeInv, SessionRecordsTypeOK
    <3>2. Len(events'[x]) = Len(events[x]) + 1
      BY <1>0, <2>2, <3>1 DEF EventTypes
    <3>3. t \in Logging(x)
      BY <2>2, <2>3 DEF Logging, RunningOn, Statuses, NoStatus
    <3>4. Cardinality(Logging(x)') = Cardinality(Logging(x)) - 1
      BY <1>0, <2>1, <3>3, FS_RemoveElement
    <3> QED BY <1>0, <3>2, <3>4
  <2>4. CASE x # task[t].session
    <3>1. events'[x] = events[x]
      BY <1>6, <2>4, Logs DEF TypeInv, SessionRecordsTypeOK
    <3> QED BY <1>1, <2>1, <3>1
  <2> QED BY <2>3, <2>4
<1>7. CASE UNCHANGED vars \/ Restart
  <2>1. Logging(x)' \subseteq Logging(x)
    BY <1>7, Kept DEF Logging, RunningOn
  <2> QED BY <1>1, <1>7, <2>1, Kept
<1>8. ASSUME NEW y \in SessionIds, NEW type \in PostedTypes, PostEvent(y, type)
      PROVE  (Len(events[x]) + Cardinality(Logging(x)) <= MaxEvents)'
  <2>1. Logging(x)' = Logging(x)
    BY <1>8, Posts DEF Logging, RunningOn
  <2>2. CASE x # y
    BY <1>1, <1>8, <2>1, <2>2, Posts
  <2>3. CASE x = y
    <3>1. Len(events[x]) + Cardinality(Logging(x)) < MaxEvents
      BY <1>8, <2>3 DEF PostEvent, Room, Logging
    <3>2. events'[x] = Append(events[x], type) /\ type \in EventTypes
      BY <1>8, <2>3, Posts
    <3>3. Len(events'[x]) = Len(events[x]) + 1
      BY <1>0, <3>2
    <3> QED BY <1>0, <2>1, <3>1, <3>3
  <2> QED BY <2>2, <2>3
<1> QED BY <1>2, <1>3, <1>4, <1>5, <1>6, <1>7, <1>8 DEF Next

-----------------------------------------------------------------------------
(* The log grows by one event of the session it is of.                       *)
LEMMA EventsStep ==
  ASSUME TypeInv, [Next]_vars
  PROVE  /\ events' \in [SessionIds -> Seq(EventTypes)]
         /\ \A x \in SessionIds : events'[x] # events[x] => sessions[x] # NoSession
<1>0. events \in [SessionIds -> Seq(EventTypes)]
  BY DEF TypeInv, SessionRecordsTypeOK
<1>1. CASE events' = events
  BY <1>0, <1>1
<1>2. ASSUME NEW x \in SessionIds, NEW e \in EventTypes, sessions[x] # NoSession,
             events' = [events EXCEPT ![x] = Append(@, e)]
      PROVE  /\ events' \in [SessionIds -> Seq(EventTypes)]
             /\ \A y \in SessionIds : events'[y] # events[y] => sessions[y] # NoSession
  <2>1. Append(events[x], e) \in Seq(EventTypes)
    BY <1>0
  <2> QED BY <1>0, <1>2, <2>1
<1>3. ASSUME NEW t \in Tasks, LogEvent(t)
      PROVE  /\ events' \in [SessionIds -> Seq(EventTypes)]
             /\ \A x \in SessionIds : events'[x] # events[x] => sessions[x] # NoSession
  <2>1. /\ task[t].session \in SessionIds /\ task[t].status \in EventTypes
        /\ sessions[task[t].session] # NoSession
    BY <1>3, Logs, JobTypes DEF TypeInv, RowsExist, EventTypes
  <2>2. events' = [events EXCEPT ![task[t].session] = Append(@, task[t].status)]
    BY <1>3 DEF LogEvent
  <2> QED BY <1>2, <2>1, <2>2
<1>4. ASSUME NEW x \in SessionIds, NEW type \in PostedTypes, PostEvent(x, type)
      PROVE  /\ events' \in [SessionIds -> Seq(EventTypes)]
             /\ \A y \in SessionIds : events'[y] # events[y] => sessions[y] # NoSession
  BY <1>2, <1>4, Posts
<1> QED BY <1>1, <1>3, <1>4 DEF Next, CreateSession, UpdateSession, LoadForSave, WriteChanges, Restart

LEMMA TypeStep == ASSUME TypeInv, [Next]_vars PROVE TypeInv'
<1>1. RowsExist' /\ RoomIsKept'
  BY RowsExistStep, RoomStep
<1>2. task' \in [Tasks -> Job \cup {Idle}]
  <2>1. task \in [Tasks -> Job \cup {Idle}]
    BY DEF TypeInv, SessionRecordsTypeOK
  <2> QED BY <2>1, Creates, Updates, Loads, Writes, Logs, Posts, Kept DEF Next, Moves
<1>3. unsettled' \subseteq SessionIds /\ cut' \subseteq SessionIds
  <2>0. unsettled \subseteq SessionIds /\ cut \subseteq SessionIds
    BY DEF TypeInv, SessionRecordsTypeOK
  <2>1. ASSUME NEW t \in Tasks, NEW x \in SessionIds, CreateSession(t, x)
        PROVE  unsettled' \subseteq SessionIds /\ cut' \subseteq SessionIds
    BY <2>0, <2>1, Creates
  <2>2. ASSUME NEW t \in Tasks, NEW x \in SessionIds, NEW st \in Statuses \cup {NoStatus},
               UpdateSession(t, x, st)
        PROVE  unsettled' \subseteq SessionIds /\ cut' \subseteq SessionIds
    BY <2>0, <2>2, Updates
  <2>3. ASSUME NEW x \in SessionIds, NEW type \in PostedTypes, PostEvent(x, type)
        PROVE  unsettled' \subseteq SessionIds /\ cut' \subseteq SessionIds
    BY <2>0, <2>3, Posts
  <2> QED BY <2>0, <2>1, <2>2, <2>3, Loads, Writes, Logs, Kept DEF Next
<1>4. /\ sessions' \in [SessionIds -> Row \cup {NoSession}]
      /\ \A x \in SessionIds : sessions[x] # NoSession => sessions'[x] # NoSession
  BY RowsStay
<1>5. /\ events' \in [SessionIds -> Seq(EventTypes)]
      /\ \A x \in SessionIds : sessions'[x] = NoSession => events'[x] = <<>>
  BY <1>4, EventsStep DEF TypeInv, SessionRecordsTypeOK
<1>6. ASSUME NEW x \in SessionIds PROVE Len(events'[x]) <= MaxEvents
  <2>1. Cardinality(Logging(x)') \in Nat
    <3>1. Logging(x)' \subseteq Tasks
      BY DEF Logging, RunningOn
    <3> QED BY <3>1, FS_Subset, FS_CardinalityType
  <2>2. Len(events'[x]) \in Nat
    BY <1>5
  <2>3. Len(events'[x]) + Cardinality(Logging(x)') <= MaxEvents
    BY <1>1 DEF RoomIsKept
  <2> QED BY <2>1, <2>2, <2>3
<1> QED BY <1>1, <1>2, <1>3, <1>4, <1>5, <1>6 DEF TypeInv, SessionRecordsTypeOK

LEMMA TypeInit == Init => TypeInv
<1> SUFFICES ASSUME Init PROVE TypeInv
  OBVIOUS
<1>1. SessionRecordsTypeOK /\ RowsExist
  BY DEF Init, SessionRecordsTypeOK, RowsExist
<1>2. \A x : Logging(x) = {}
  BY DEF Init, Logging, RunningOn
<1>3. \A x \in SessionIds : Len(events[x]) + Cardinality(Logging(x)) = 0
  <2>1. \A x \in SessionIds : Len(events[x]) = 0
    BY DEF Init
  <2>2. \A x : Cardinality(Logging(x)) = 0
    BY <1>2, FS_EmptySet
  <2> QED BY <2>1, <2>2
<1> QED BY <1>1, <1>3 DEF TypeInv, RoomIsKept

(* An appended event is the last one, and the others stay.                   *)
LEMMA LogGrows ==
  ASSUME TypeInv, NEW x \in SessionIds, NEW e \in EventTypes,
         events'[x] = Append(events[x], e)
  PROVE  /\ events'[x] # <<>> /\ events'[x][Len(events'[x])] = e
         /\ Logged(x)' = Logged(x) \cup {e}
<1>1. events[x] \in Seq(EventTypes)
  BY DEF TypeInv, SessionRecordsTypeOK
<1>2. /\ Len(events'[x]) = Len(events[x]) + 1 /\ Len(events[x]) \in Nat
      /\ \A n \in 1..Len(events[x]) : events'[x][n] = events[x][n]
      /\ events'[x][Len(events[x]) + 1] = e
  BY <1>1
<1>3. events'[x] # <<>>
  BY <1>1
<1>4. Logged(x) \subseteq Logged(x)'
  BY <1>2 DEF Logged
<1>5. e \in Logged(x)'
  BY <1>2 DEF Logged
<1>6. ASSUME NEW n \in 1..Len(events'[x]) PROVE events'[x][n] \in Logged(x) \cup {e}
  <2>1. CASE n \in 1..Len(events[x])
    BY <1>2, <2>1 DEF Logged
  <2>2. CASE n = Len(events[x]) + 1
    BY <1>2, <2>2
  <2> QED BY <1>2, <2>1, <2>2
<1>7. Logged(x)' \subseteq Logged(x) \cup {e}
  <2>1. Logged(x)' = {events'[x][n] : n \in 1..Len(events'[x])}
    BY DEF Logged
  <2> QED BY <1>6, <2>1
<1> QED BY <1>2, <1>3, <1>4, <1>5, <1>7

-----------------------------------------------------------------------------
(* What a row says is logged *)

(* What the log says, or is about to, is never taken back but by a crash.    *)
LEMMA KnownGrows ==
  ASSUME TypeInv, [Next]_vars, NEW x \in SessionIds \ cut'
  PROVE  Known(x) \subseteq Known(x)'
<1>1. ASSUME NEW t \in Tasks, Moves(t), task[t] = Idle, events' = events
      PROVE  Known(x) \subseteq Known(x)'
  BY <1>1 DEF Known, Logged, Pending, RunningOn, Moves
<1>2. ASSUME NEW t \in Tasks, Moves(t), events' = events,
             task[t].status = NoStatus \/ /\ task'[t] # Idle
                                          /\ task'[t].session = task[t].session
                                          /\ task'[t].status = task[t].status
      PROVE  Known(x) \subseteq Known(x)'
  BY <1>2 DEF Known, Logged, Pending, RunningOn, Moves
<1>3. ASSUME NEW t \in Tasks, LogEvent(t) PROVE Known(x) \subseteq Known(x)'
  <2>1. Moves(t)
    BY <1>3, Logs
  <2>2. CASE x # task[t].session
    <3>1. events'[x] = events[x]
      BY <1>3, <2>2, Logs
    <3> QED BY <2>1, <2>2, <3>1 DEF Known, Logged, Pending, RunningOn, Moves
  <2>3. CASE x = task[t].session
    <3>1. events'[x] = Append(events[x], task[t].status) /\ task[t].status \in EventTypes
      BY <1>3, <2>3, Logs, JobTypes DEF EventTypes
    <3>2. Logged(x)' = Logged(x) \cup {task[t].status}
      BY <3>1, LogGrows
    <3>3. Pending(x) \subseteq Pending(x)' \cup {task[t].status}
      BY <2>1 DEF Pending, RunningOn, Moves
    <3> QED BY <3>2, <3>3 DEF Known
  <2> QED BY <2>2, <2>3
<1>4. CASE UNCHANGED vars \/ Restart
  <2>1. Pending(x)' = Pending(x)
    BY <1>4, Kept DEF Pending, RunningOn
  <2> QED BY <1>4, <2>1, Kept DEF Known, Logged
<1>5. ASSUME NEW y \in SessionIds, NEW type \in PostedTypes, PostEvent(y, type)
      PROVE  Known(x) \subseteq Known(x)'
  <2>1. Pending(x)' = Pending(x)
    BY <1>5, Posts DEF Pending, RunningOn
  <2>2. Logged(x) \subseteq Logged(x)'
    <3>1. CASE x = y
      BY <1>5, <3>1, Posts, LogGrows
    <3>2. CASE x # y
      BY <1>5, <3>2, Posts DEF Logged
    <3> QED BY <3>1, <3>2
  <2> QED BY <2>1, <2>2 DEF Known
<1> QED BY <1>1, <1>2, <1>3, <1>4, <1>5, Creates, Updates, Loads, Writes DEF Next

LEMMA EntityStep ==
  ASSUME TypeInv, StatusIsLogged, \A t \in Tasks : EntityIsKnown(t), [Next]_vars,
         NEW u \in Tasks
  PROVE  EntityIsKnown(u)'
<1>0. \A x \in SessionIds \ cut' : Known(x) \subseteq Known(x)'
  BY KnownGrows
<1>t. task[u] # Idle => task[u] \in Job /\ task[u].session \in SessionIds
  BY JobTypes DEF TypeInv, SessionRecordsTypeOK
<1>1. ASSUME task'[u] \in {task[u], Idle}, cut \subseteq cut' PROVE EntityIsKnown(u)'
  BY <1>0, <1>1, <1>t DEF EntityIsKnown
<1>2. ASSUME NEW t \in Tasks, Moves(t), cut' = cut, u # t PROVE EntityIsKnown(u)'
  BY <1>1, <1>2 DEF Moves
<1>3. ASSUME NEW x \in SessionIds, CreateSession(u, x) PROVE EntityIsKnown(u)'
  BY <1>3, Creates DEF EntityIsKnown
<1>4. ASSUME NEW x \in SessionIds, NEW st \in Statuses \cup {NoStatus}, UpdateSession(u, x, st)
      PROVE  EntityIsKnown(u)'
  <2>1. /\ task'[u] # Idle /\ task'[u].session = x /\ task'[u].status = st
        /\ task'[u].entity.status = IF st = NoStatus THEN sessions[x].status ELSE st
        /\ sessions[x] # NoSession /\ cut' = cut
    BY <1>4, Updates, AppliedType
  <2>2. x \notin cut => sessions[x].status \in Known(x)
    BY <2>1 DEF StatusIsLogged, Known
  <2>3. st # NoStatus => st \in Known(x)'
    BY <2>1 DEF Known, Pending, RunningOn
  <2> QED BY <1>0, <2>1, <2>2, <2>3 DEF EntityIsKnown
<1>5. ASSUME LoadForSave(u) PROVE EntityIsKnown(u)'
  <2>1. /\ task'[u].session = task[u].session /\ task'[u].status = task[u].status
        /\ task'[u].entity = task[u].entity /\ task[u].at = "load" /\ task[u] # Idle
        /\ cut' = cut
    BY <1>5, Loads
  <2>2. EntityIsKnown(u)
    OBVIOUS
  <2> QED BY <1>0, <1>t, <2>1, <2>2 DEF EntityIsKnown
<1>6. ASSUME WriteChanges(u) PROVE EntityIsKnown(u)'
  BY <1>6, Writes DEF EntityIsKnown
<1>7. ASSUME LogEvent(u) PROVE EntityIsKnown(u)'
  BY <1>7, Logs DEF EntityIsKnown
<1>8. CASE UNCHANGED vars \/ Restart
  BY <1>1, <1>8, Kept
<1>9. ASSUME NEW t \in Tasks,
             \/ \E x \in SessionIds : \/ CreateSession(t, x)
                                      \/ \E st \in Statuses \cup {NoStatus} : UpdateSession(t, x, st)
             \/ LoadForSave(t) \/ WriteChanges(t) \/ LogEvent(t)
      PROVE  EntityIsKnown(u)'
  <2>1. Moves(t) /\ cut' = cut
    BY <1>9, Creates, Updates, Loads, Writes, Logs
  <2> QED BY <1>2, <1>3, <1>4, <1>5, <1>6, <1>7, <1>9, <2>1
<1>10. ASSUME NEW x \in SessionIds, NEW type \in PostedTypes, PostEvent(x, type)
       PROVE  EntityIsKnown(u)'
  BY <1>1, <1>10, Posts
<1> QED BY <1>8, <1>9, <1>10 DEF Next

LEMMA StatusStep ==
  ASSUME TypeInv, StatusIsLogged, \A t \in Tasks : EntityIsKnown(t), [Next]_vars
  PROVE  StatusIsLogged'
<1> SUFFICES ASSUME NEW x \in SessionIds \ cut', sessions'[x] # NoSession
             PROVE  sessions'[x].status \in Known(x)'
  BY DEF StatusIsLogged, Known
<1>0. Known(x) \subseteq Known(x)' /\ x \notin cut
  <2>1. cut \subseteq cut'
    BY Creates, Updates, Loads, Writes, Logs, Posts, Kept DEF Next
  <2> QED BY <2>1, KnownGrows
<1>1. CASE sessions'[x] = sessions[x]
  BY <1>0, <1>1 DEF StatusIsLogged, Known
<1>2. ASSUME NEW t \in Tasks, NEW y \in SessionIds, CreateSession(t, y), sessions'[x] # sessions[x]
      PROVE  sessions'[x].status \in Known(x)'
  <2>1. x = y /\ sessions'[x].status = task'[t].status /\ task'[t].status # NoStatus
        /\ task'[t] # Idle /\ task'[t].session = x
    BY <1>2, Creates DEF NoStatus
  <2> QED BY <2>1 DEF Known, Pending, RunningOn
<1>3. ASSUME NEW t \in Tasks, WriteChanges(t), sessions'[x] # sessions[x]
      PROVE  sessions'[x].status \in Known(x)'
  <2>1. /\ x = task[t].session /\ sessions[x] # NoSession
        /\ sessions'[x].status \in {task[t].entity.status, sessions[x].status}
        /\ task[t] # Idle /\ task[t].at = "write"
    BY <1>3, Writes, JobTypes
  <2>2. EntityIsKnown(t)
    OBVIOUS
  <2>3. task[t].entity.status \in Known(x)
    BY <1>0, <2>1, <2>2 DEF EntityIsKnown
  <2>4. sessions[x].status \in Known(x)
    BY <1>0, <2>1 DEF StatusIsLogged, Known
  <2> QED BY <1>0, <2>1, <2>3, <2>4
<1>4. \/ UNCHANGED sessions
      \/ \E t \in Tasks, y \in SessionIds : CreateSession(t, y)
      \/ \E t \in Tasks : WriteChanges(t)
  BY DEF Next, UpdateSession, LoadForSave, LogEvent, PostEvent, Restart
<1> QED BY <1>1, <1>2, <1>3, <1>4

-----------------------------------------------------------------------------
(* Updates that come one at a time *)

(* The log says where the row stands.                                        *)
Stands(x) ==
  /\ events[x] # <<>>
  /\ sessions[x].status = events[x][Len(events[x])]
  /\ sessions[x].status \in Ended => sessions[x].stamped

(* ... which one update is about to change: one with a status whatever it    *)
(* finds, one without only what stands already.                              *)
Stage(t, x) ==
  /\ task[t].at \in {"load", "write"} =>
       /\ task[t].status = NoStatus =>
            /\ Stands(x) /\ task[t].entity.status = sessions[x].status
            /\ task[t].entity.stamped = sessions[x].stamped
       /\ task[t].status # NoStatus =>
            /\ task[t].entity.status = task[t].status
            /\ task[t].status \in Ended => task[t].entity.stamped
  /\ task[t].at = "write" =>
       \A c \in Columns : c \notin task[t].changed => task[t].entity[c] = sessions[x][c]
  /\ task[t].at = "log" =>
       /\ sessions[x].status = task[t].status
       /\ task[t].status \in Ended => sessions[x].stamped

OneAtATime(x) ==
  /\ \A t, u \in RunningOn(x) : t = u
  /\ \A t \in RunningOn(x) : Stage(t, x)
  /\ sessions[x] # NoSession /\ RunningOn(x) = {} => Stands(x)

Settled == \A x \in SessionIds \ unsettled : OneAtATime(x)

LEMMA SettledStep ==
  ASSUME TypeInv, Settled, [Next]_vars
  PROVE  Settled'
<1> SUFFICES ASSUME NEW x \in SessionIds, x \notin unsettled' PROVE OneAtATime(x)'
  BY DEF Settled
<1>2. x \notin unsettled => OneAtATime(x)
  BY DEF Settled
<1>3. ASSUME RunningOn(x)' = RunningOn(x), \A t \in RunningOn(x) : task'[t] = task[t],
             sessions'[x] = sessions[x], events'[x] = events[x], x \notin unsettled
      PROVE  OneAtATime(x)'
  <2>1. Stands(x)' <=> Stands(x)
    BY <1>3 DEF Stands
  <2>2. ASSUME NEW t \in RunningOn(x) PROVE Stage(t, x)'
    <3>1. Stage(t, x) /\ task'[t] = task[t]
      BY <1>2, <1>3 DEF OneAtATime
    <3> QED BY <1>3, <2>1, <3>1 DEF Stage
  <2> QED BY <1>2, <1>3, <2>1, <2>2 DEF OneAtATime
(* A step of a task on another session, which is not on this one after it.   *)
<1>4. ASSUME NEW t \in Tasks, Moves(t), t \notin RunningOn(x), t \notin RunningOn(x)',
             sessions'[x] = sessions[x], events'[x] = events[x], x \notin unsettled
      PROVE  OneAtATime(x)'
  <2>1. RunningOn(x)' = RunningOn(x) /\ \A u \in RunningOn(x) : task'[u] = task[u]
    BY <1>4 DEF RunningOn, Moves
  <2> QED BY <1>3, <1>4, <2>1
(* A step of the one task of this session.                                   *)
<1>5. ASSUME NEW t \in Tasks, Moves(t), RunningOn(x) \subseteq {t},
             task'[t] # Idle => task'[t].session = x /\ Stage(t, x)',
             task'[t] = Idle => Stands(x)'
      PROVE  OneAtATime(x)'
  <2>1. RunningOn(x)' = {u \in {t} : task'[t] # Idle}
    BY <1>5 DEF RunningOn, Moves
  <2> QED BY <1>5, <2>1 DEF OneAtATime
<1>6. ASSUME NEW t \in RunningOn(x), x \notin unsettled
      PROVE  RunningOn(x) \subseteq {t} /\ Stage(t, x)
  BY <1>2, <1>6 DEF OneAtATime
<1>7. ASSUME NEW t \in Tasks, NEW y \in SessionIds, CreateSession(t, y) PROVE OneAtATime(x)'
  <2>1. CASE x # y
    <3>1. t \notin RunningOn(x) /\ t \notin RunningOn(x)'
      BY <1>7, <2>1, Creates DEF RunningOn
    <3> QED BY <1>4, <1>7, <2>1, <3>1, Creates
  <2>2. CASE x = y
    <3>1. /\ task'[t].at = "log" /\ task'[t].status = "connecting" /\ task'[t].session = x
          /\ sessions'[x].status = "connecting"
          /\ Moves(t) /\ task'[t] # Idle /\ RunningOn(x) = {}
      BY <1>7, <2>2, Creates
    <3>2. Stage(t, x)'
      BY <3>1 DEF Stage, Ended
    <3> QED BY <1>5, <3>1, <3>2
  <2> QED BY <2>1, <2>2
<1>8. ASSUME NEW t \in Tasks, NEW y \in SessionIds, NEW st \in Statuses \cup {NoStatus},
             UpdateSession(t, y, st)
      PROVE  OneAtATime(x)'
  <2>0. /\ Moves(t) /\ task[t] = Idle /\ task'[t] # Idle /\ task'[t].at = "load"
        /\ task'[t].session = y /\ task'[t].status = st
        /\ task'[t].entity = Applied(sessions[y], st) /\ sessions[y] \in Row
        /\ UNCHANGED <<sessions, events, cut>>
        /\ unsettled' = IF RunningOn(y) # {} THEN unsettled \cup {y}
                        ELSE IF st # NoStatus THEN unsettled \ {y} ELSE unsettled
    BY <1>8, Updates
  <2>1. CASE x # y
    <3>1. t \notin RunningOn(x) /\ t \notin RunningOn(x)'
      BY <2>0, <2>1 DEF RunningOn
    <3>2. x \notin unsettled
      BY <2>0, <2>1
    <3> QED BY <1>4, <2>0, <3>1, <3>2
  <2>2. CASE x = y
    <3>1. RunningOn(x) = {}
      BY <2>0, <2>2
    <3>2. task'[t].entity.status = IF st = NoStatus THEN sessions[x].status ELSE st
      BY <2>0, <2>2 DEF Applied
    <3>3. task'[t].entity.stamped = (sessions[x].stamped \/ st \in Ended)
      BY <2>0, <2>2 DEF Applied
    <3>4. CASE st = NoStatus
      <4>1. x \notin unsettled /\ sessions[x] # NoSession
        BY <2>0, <2>2, <3>1, <3>4
      <4>2. Stands(x)
        BY <1>2, <3>1, <4>1 DEF OneAtATime
      <4>3. Stands(x)'
        BY <2>0, <4>2 DEF Stands
      <4>4. task'[t].entity.stamped = sessions[x].stamped
        <5>1. st \notin Ended /\ sessions[x].stamped \in BOOLEAN
          BY <2>0, <2>2, <3>4 DEF NoStatus, Ended, Row
        <5> QED BY <3>3, <5>1
      <4>5. Stage(t, x)'
        BY <2>0, <3>2, <3>4, <4>3, <4>4 DEF Stage
      <4> QED BY <1>5, <2>0, <2>2, <3>1, <4>5
    <3>5. CASE st # NoStatus
      <4>1. Stage(t, x)'
        BY <2>0, <3>2, <3>3, <3>5 DEF Stage
      <4> QED BY <1>5, <2>0, <2>2, <3>1, <4>1
    <3> QED BY <3>4, <3>5
  <2> QED BY <2>1, <2>2
<1>9. ASSUME NEW t \in Tasks, LoadForSave(t) PROVE OneAtATime(x)'
  <2>0. /\ Moves(t) /\ task[t] # Idle /\ task[t].at = "load" /\ task'[t] # Idle
        /\ task'[t].at = "write"
        /\ task'[t].session = task[t].session /\ task'[t].status = task[t].status
        /\ task'[t].entity = task[t].entity
        /\ \A c \in Columns : c \notin task'[t].changed =>
                             task[t].entity[c] = sessions[task[t].session][c]
        /\ UNCHANGED <<sessions, events, unsettled>>
    BY <1>9, Loads, JobTypes
  <2>1. CASE x # task[t].session
    <3>1. t \notin RunningOn(x) /\ t \notin RunningOn(x)'
      BY <2>0, <2>1 DEF RunningOn
    <3> QED BY <1>4, <2>0, <3>1
  <2>2. CASE x = task[t].session
    <3>1. t \in RunningOn(x)
      BY <2>0, <2>2 DEF RunningOn
    <3>2. RunningOn(x) \subseteq {t} /\ Stage(t, x)
      BY <1>6, <2>0, <3>1
    <3>3. Stands(x)' <=> Stands(x)
      BY <2>0 DEF Stands
    <3>4. Stage(t, x)'
      BY <2>0, <2>2, <3>2, <3>3 DEF Stage
    <3> QED BY <1>5, <2>0, <2>2, <3>2, <3>4
  <2> QED BY <2>1, <2>2
<1>10. ASSUME NEW t \in Tasks, WriteChanges(t) PROVE OneAtATime(x)'
  <2>0. /\ Moves(t) /\ task[t] # Idle /\ task[t].at = "write"
        /\ task'[t] # Idle => /\ task'[t].at = "log" /\ task'[t].session = task[t].session
                             /\ task'[t].status = task[t].status
        /\ task'[t] = Idle <=> task[t].status = NoStatus
        /\ UNCHANGED <<events, unsettled>>
    BY <1>10, Writes, JobTypes
  <2>1. CASE x # task[t].session
    <3>1. t \notin RunningOn(x) /\ t \notin RunningOn(x)'
      BY <2>0, <2>1 DEF RunningOn
    <3>2. sessions'[x] = sessions[x]
      BY <1>10, <2>1, Writes
    <3> QED BY <1>4, <2>0, <3>1, <3>2
  <2>2. CASE x = task[t].session
    <3>1. t \in RunningOn(x)
      BY <2>0, <2>2 DEF RunningOn
    <3>2. RunningOn(x) \subseteq {t} /\ Stage(t, x)
      BY <1>6, <2>0, <3>1
    <3>3. /\ "status" \notin task[t].changed => task[t].entity.status = sessions[x].status
          /\ "stamped" \notin task[t].changed => task[t].entity.stamped = sessions[x].stamped
      BY <2>0, <3>2 DEF Stage, Columns
    <3>4. /\ sessions'[x].status = task[t].entity.status
          /\ sessions'[x].stamped = task[t].entity.stamped
      BY <1>10, <2>2, <3>3, Writes
    <3>5. CASE task[t].status = NoStatus
      <4>1. /\ Stands(x) /\ task[t].entity.status = sessions[x].status
            /\ task[t].entity.stamped = sessions[x].stamped
        BY <2>0, <3>2, <3>5 DEF Stage
      <4>2. Stands(x)'
        BY <2>0, <3>4, <4>1 DEF Stands
      <4> QED BY <1>5, <2>0, <3>2, <3>5, <4>2
    <3>6. CASE task[t].status # NoStatus
      <4>1. /\ task[t].entity.status = task[t].status
            /\ task[t].status \in Ended => task[t].entity.stamped
        BY <2>0, <3>2, <3>6 DEF Stage
      <4>2. task'[t].at = "log" /\ task'[t].status = task[t].status
        BY <2>0, <3>6
      <4>3. Stage(t, x)'
        BY <3>4, <4>1, <4>2 DEF Stage
      <4> QED BY <1>5, <2>0, <2>2, <3>2, <3>6, <4>3
    <3> QED BY <3>5, <3>6
  <2> QED BY <2>1, <2>2
<1>11. ASSUME NEW t \in Tasks, LogEvent(t) PROVE OneAtATime(x)'
  <2>0. /\ Moves(t) /\ task[t] # Idle /\ task[t].at = "log" /\ task'[t] = Idle
        /\ UNCHANGED <<sessions, unsettled>>
    BY <1>11, Logs, JobTypes
  <2>1. CASE x # task[t].session
    <3>1. t \notin RunningOn(x) /\ t \notin RunningOn(x)'
      BY <2>0, <2>1 DEF RunningOn
    <3>2. events'[x] = events[x]
      BY <1>11, <2>1, Logs
    <3> QED BY <1>4, <2>0, <3>1, <3>2
  <2>2. CASE x = task[t].session
    <3>1. t \in RunningOn(x)
      BY <2>0, <2>2 DEF RunningOn
    <3>2. RunningOn(x) \subseteq {t} /\ Stage(t, x)
      BY <1>6, <2>0, <3>1
    <3>3. Stands(x)'
      <4>1. events'[x] = Append(events[x], task[t].status) /\ task[t].status \in EventTypes
        BY <1>11, <2>2, Logs, JobTypes DEF EventTypes
      <4>2. events'[x] # <<>> /\ events'[x][Len(events'[x])] = task[t].status
        BY <4>1, LogGrows
      <4>3. /\ sessions[x].status = task[t].status
            /\ task[t].status \in Ended => sessions[x].stamped
        BY <2>0, <3>2 DEF Stage
      <4> QED BY <2>0, <4>2, <4>3 DEF Stands
    <3> QED BY <1>5, <2>0, <3>2, <3>3
  <2> QED BY <2>1, <2>2
<1>12. CASE UNCHANGED vars \/ Restart
  <2>1. \A t \in RunningOn(x) : task'[t] = task[t]
    BY <1>12, Kept DEF RunningOn
  <2>2. RunningOn(x)' = RunningOn(x)
    BY <1>12, <2>1, Kept DEF RunningOn
  <2>3. x \notin unsettled
    BY <1>12, Kept
  <2> QED BY <1>3, <1>12, <2>1, <2>2, <2>3, Kept
<1>13. ASSUME NEW y \in SessionIds, NEW type \in PostedTypes, PostEvent(y, type)
       PROVE  OneAtATime(x)'
  <2>1. x # y /\ x \notin unsettled /\ events'[x] = events[x] /\ UNCHANGED <<sessions, task>>
    BY <1>13, Posts
  <2>2. RunningOn(x)' = RunningOn(x)
    BY <2>1 DEF RunningOn
  <2> QED BY <1>3, <2>1, <2>2
<1> QED BY <1>7, <1>8, <1>9, <1>10, <1>11, <1>12, <1>13 DEF Next

-----------------------------------------------------------------------------
(* Theorems *)

(* Together with what an update in progress holds, the row of a session      *)
(* always says something that is, or will be, in its log                     *)
(* (sessions.service.ts:56-80).                                              *)
THEOREM RecordsInvariance == Spec => []Inv
<1>1. Init => Inv
  <2>1. Init => StatusIsLogged /\ \A t \in Tasks : EntityIsKnown(t)
    BY DEF Init, StatusIsLogged, EntityIsKnown
  <2> QED BY <2>1, TypeInit DEF Inv
<1>2. Inv /\ [Next]_vars => Inv'
  BY TypeStep, EntityStep, StatusStep DEF Inv
<1> QED BY <1>1, <1>2, PTL DEF Spec

(* Rows, events and updates in progress keep their types, and the log its    *)
(* bound.                                                                    *)
THEOREM RecordsTyping == Spec => []SessionRecordsTypeOK
<1>1. Inv => SessionRecordsTypeOK
  BY DEF Inv, TypeInv
<1> QED BY <1>1, RecordsInvariance, PTL

(* However many updates of a session overlap, its row never shows a status   *)
(* that is in no event of it (sessions.service.ts:73).                       *)
THEOREM RowsShowWhatIsLogged == Spec => []StatusIsLogged
<1>1. Inv => StatusIsLogged
  BY DEF Inv
<1> QED BY <1>1, RecordsInvariance, PTL

(* Whatever unsettled, failed half-way or was posted before, from the next  *)
(* update on that sets the status while no other one runs, the last event is *)
(* the status of the row, and an ended session has its end time, until two   *)
(* updates overlap again, one is cut short or an event is posted             *)
(* (sessions.service.ts:47-80, sessions.controller.ts:31-37).                *)
THEOREM LogTellsTheStatus == Spec => []LogTellsStatus
<1>1. Init => TypeInv /\ Settled
  <2>1. Init => Settled
    BY DEF Init, Settled, OneAtATime, RunningOn
  <2> QED BY <2>1, TypeInit
<1>2. TypeInv /\ Settled /\ [Next]_vars => TypeInv' /\ Settled'
  BY TypeStep, SettledStep
<1>3. Settled => LogTellsStatus
  BY DEF Settled, OneAtATime, Stands, LogTellsStatus
<1> QED BY <1>1, <1>2, <1>3, PTL DEF Spec
=============================================================================
