--------------------------- MODULE GatewayProofs ---------------------------
(***************************************************************************)
(* Theorems about Gateway, for any sets of sockets, devices, sessions and  *)
(* handlers in flight.                                                     *)
(***************************************************************************)
EXTENDS Gateway, TLAPS

Job == DeviceTask \cup RequestTask \cup SessionTask
SessionOps == {"submit", "relay", "accepted", "rejected", "ended"}

(* A session that an application or a handler names has a row.               *)
SessionsExist ==
  /\ \A p \in learned : sessions[p[2]] # NoSession
  /\ \A t \in Tasks : task[t] # Idle /\ task[t].op \in SessionOps =>
       sessions[task[t].session] # NoSession

(* A socket announces its device before the index names it, and a socket of  *)
(* which the server was not told that it closed is in the map.               *)
IndexIsAnnounced ==
  \A d \in Devices : deviceIndex[d] # NoSocket => deviceOf[deviceIndex[d]] = d
OpenIsTracked == \A s \in Sockets : wsState[s] \in {"open", "gone"} => s \in connections

(* What a handler took up before it awaited the database is still so.        *)
StillSo(t) ==
  task[t] # Idle =>
    /\ task[t].op = "offline" => wsState[task[t].socket] = "closed"
    /\ task[t].op = "request" => deviceOf[task[t].target] = task[t].parties.host

TypeInv == GatewayTypeOK /\ SessionsExist

(* Only task t moves, to another job or none.                                *)
Moves(t) ==
  /\ task' \in [Tasks -> Job \cup {Idle}]
  /\ \A u \in Tasks \ {t} : task'[u] = task[u]

USE GatewayAssumption DEF vars, mapVars

-----------------------------------------------------------------------------
(* Types *)

LEMMA JobTypes ==
  ASSUME NEW job \in Job
  PROVE  /\ job # Idle
         /\ job.op \in DeviceOps \cup {"request"} \cup SessionOps
         /\ job.op \notin {"register", "claim"} => job.socket \in Sockets
         /\ job.op \in DeviceOps => /\ job \in DeviceTask
                                    /\ job.device \in Devices /\ job.row \in Presence
                                    /\ job.at \in {"find", "save"}
         /\ job.op = "request" => /\ job \in RequestTask
                                  /\ job.parties \in Participants /\ job.target \in Sockets
                                  /\ job.parties.host \in Devices /\ job.parties.client \in Devices
         /\ job.op \in SessionOps => job \in SessionTask /\ job.session \in SessionIds
<1>1. CASE job \in DeviceTask
  BY <1>1 DEF DeviceTask, DeviceOps, SessionOps
<1>2. CASE job \in RequestTask
  BY <1>2 DEF RequestTask, DeviceOps, SessionOps, Participants
<1>3. CASE job \in SessionTask
  BY <1>3 DEF SessionTask, DeviceOps, SessionOps
<1> QED BY <1>1, <1>2, <1>3 DEF Job

LEMMA Begins ==
  ASSUME GatewayTypeOK, NEW t \in Tasks, NEW job \in Job, Begin(t, job)
  PROVE  Moves(t) /\ task[t] = Idle /\ task'[t] = job /\ job # Idle
  BY DEF GatewayTypeOK, Begin, Moves, Job

LEMMA Finishes ==
  ASSUME GatewayTypeOK, NEW t \in Tasks, Finish(t)
  PROVE  Moves(t) /\ task'[t] = Idle
  BY DEF GatewayTypeOK, Finish, Moves, Job

(* A task about a device comes over a socket, or is a REST call.             *)
Caller(op, s) == \/ op \in {"register", "heartbeat", "offline"} /\ s \in Sockets
                 \/ op \in {"register", "claim"} /\ s = NoSocket

LEMMA DeviceBegins ==
  ASSUME GatewayTypeOK, NEW t \in Tasks, NEW op, NEW s, Caller(op, s), NEW d \in Devices,
         BeginDevice(t, op, s, d)
  PROVE  /\ Moves(t) /\ task[t] = Idle /\ task'[t] # Idle /\ op \in DeviceOps
         /\ task'[t].op = op /\ task'[t].at = "find" /\ task'[t].socket = s /\ task'[t].device = d
         /\ unsettled' \in {unsettled, unsettled \cup {d}, unsettled \ {d}}
         /\ unsettled' \subseteq Devices
         /\ d \notin unsettled' =>
              /\ ~Busy(d)
              /\ op = "register" => s # NoSocket \/ Present(d)
              /\ op # "register" => d \notin unsettled
<1> DEFINE job == [op |-> op, at |-> "find", socket |-> s, device |-> d, row |-> "absent"]
<1>1. job \in Job /\ op \in DeviceOps
  BY DEF Job, DeviceTask, DeviceOps, Presence, Caller
<1>2. Begin(t, job)
  BY DEF BeginDevice
<1>3. /\ job.op = op /\ job.at = "find" /\ job.socket = s /\ job.device = d
  OBVIOUS
<1>4. /\ unsettled' \in {unsettled, unsettled \cup {d}, unsettled \ {d}}
      /\ d \notin unsettled' =>
           /\ ~Busy(d)
           /\ op = "register" => s # NoSocket \/ Present(d)
           /\ op # "register" => d \notin unsettled
  BY DEF BeginDevice, Meet
<1>5. unsettled' \subseteq Devices
  BY <1>4 DEF GatewayTypeOK
<1> HIDE DEF job
<1>6. Moves(t) /\ task[t] = Idle /\ task'[t] = job /\ job # Idle
  BY <1>1, <1>2, Begins
<1> QED BY <1>1, <1>3, <1>4, <1>5, <1>6

(* A handler that found what it looked for goes on with the same job.        *)
LEMMA Finds ==
  ASSUME GatewayTypeOK, NEW t \in Tasks, FindDevice(t)
  PROVE  /\ Moves(t) /\ task[t] \in DeviceTask /\ task[t].at = "find"
         /\ \/ /\ task'[t] \in DeviceTask /\ task'[t] # Idle /\ task'[t].at = "save"
               /\ task'[t].op = task[t].op /\ task'[t].socket = task[t].socket
               /\ task'[t].device = task[t].device
               /\ task'[t].row = IF devices[task[t].device] = "absent" THEN "absent"
                                 ELSE StatusWritten(task[t].op, devices[task[t].device])
               /\ devices[task[t].device] # "absent" \/ task[t].op = "register"
               /\ out' = {} /\ connections' = connections
            \/ /\ devices[task[t].device] = "absent" /\ task[t].op # "register"
               /\ FinishDevice(t, TRUE) /\ task'[t] = Idle
         /\ UNCHANGED <<wsState, deviceOf, deviceIndex, devices, sessions, learned, unsettled>>
<1>1. task[t] \in DeviceTask /\ task[t].at = "find" /\ devices[task[t].device] \in Presence
  BY JobTypes DEF FindDevice, GatewayTypeOK, Job
<1> DEFINE found == devices[task[t].device]
           row == IF found = "absent" THEN "absent" ELSE StatusWritten(task[t].op, found)
           job == [task[t] EXCEPT !.at = "save", !.row = row]
<1>2. CASE found # "absent" \/ task[t].op = "register"
  <2>1. task' = [task EXCEPT ![t] = job] /\ out' = {} /\ connections' = connections
    BY <1>2 DEF FindDevice
  <2>2. row \in Presence
    BY <1>1 DEF StatusWritten, Presence
  <2> HIDE DEF row
  <2>3. /\ job \in DeviceTask /\ job.at = "save" /\ job.op = task[t].op
        /\ job.socket = task[t].socket /\ job.device = task[t].device /\ job.row = row
    BY <1>1, <2>2 DEF DeviceTask
  <2> HIDE DEF job
  <2>4. Moves(t) /\ task'[t] = job /\ job # Idle
    BY <2>1, <2>3 DEF Moves, GatewayTypeOK, Job
  <2> QED BY <1>1, <1>2, <2>1, <2>3, <2>4 DEF FindDevice, row
<1>3. CASE ~(found # "absent" \/ task[t].op = "register")
  <2>1. FinishDevice(t, TRUE)
    BY <1>3 DEF FindDevice
  <2>2. Moves(t) /\ task'[t] = Idle
    BY <2>1, Finishes DEF FinishDevice
  <2> QED BY <1>1, <1>3, <2>1, <2>2 DEF FindDevice
<1> QED BY <1>2, <1>3

LEMMA OutTypes ==
  ASSUME NEW targets \in SUBSET Sockets, NEW frame \in Frame
  PROVE  SendTo(targets, frame) \subseteq Sockets \X Frame
  BY DEF SendTo

LEMMA FrameTypes ==
  ASSUME NEW x \in SessionIds
  PROVE  /\ \A type \in {"forward", "submit", "accepted", "rejected"} : About(type, x) \in Frame
         /\ \A s \in Sockets, type \in {"relay", "ended"} :
              deviceOf[s] \in Devices => From(s, type, x) \in Frame
  BY DEF Frame, About, From

LEMMA ErrorTypes ==
  ASSUME NEW s \in Sockets PROVE SendError(s) \subseteq Sockets \X Frame
<1>1. [type |-> "error"] \in Frame
  BY DEF Frame
<1> QED BY <1>1, OutTypes DEF SendError

LEMMA Saves ==
  ASSUME GatewayTypeOK, NEW t \in Tasks, SaveDevice(t)
  PROVE  /\ Moves(t) /\ task'[t] = Idle
         /\ task[t] \in DeviceTask /\ task[t] # Idle /\ task[t].at = "save"
         /\ devices' = [devices EXCEPT ![task[t].device] = Saved(task[t])]
         /\ FinishDevice(t, FALSE) /\ out' = {}
         /\ UNCHANGED <<wsState, deviceOf, deviceIndex, sessions, learned, unsettled>>
<1>1. task[t] \in DeviceTask /\ task[t] # Idle /\ task[t].at = "save"
  BY JobTypes DEF SaveDevice, GatewayTypeOK, Job
<1>2. FinishDevice(t, FALSE)
  BY DEF SaveDevice
<1>3. Moves(t) /\ task'[t] = Idle /\ out' = {}
  BY <1>2, Finishes DEF FinishDevice
<1> QED BY <1>1, <1>2, <1>3 DEF SaveDevice

LEMMA DeviceFinishes ==
  ASSUME GatewayTypeOK, NEW t \in Tasks, NEW failed \in BOOLEAN, task[t] \in DeviceTask,
         FinishDevice(t, failed)
  PROVE  /\ connections' \subseteq Sockets /\ out' \subseteq Sockets \X Frame
         /\ connections' = IF task[t].op = "offline" THEN connections \ {task[t].socket}
                                                     ELSE connections
<1>1. task[t].op = "heartbeat" => SendError(task[t].socket) \subseteq Sockets \X Frame
  BY JobTypes, ErrorTypes DEF Job
<1> QED BY <1>1 DEF FinishDevice, GatewayTypeOK

LEMMA Refuses ==
  ASSUME GatewayTypeOK, NEW t \in Tasks, RefuseRequest(t)
  PROVE  /\ Moves(t) /\ task'[t] = Idle /\ task[t] # Idle /\ task[t].op = "request"
         /\ task[t].socket \in Sockets /\ out' = SendError(task[t].socket)
         /\ UNCHANGED <<wsState, mapVars, devices, sessions, learned, unsettled>>
<1>1. task[t] # Idle /\ task[t].op = "request" /\ task[t].socket \in Sockets
  BY JobTypes DEF RefuseRequest, Asked, GatewayTypeOK, Job
<1> QED BY <1>1, Finishes DEF RefuseRequest

(* What a failing query leaves behind: the task is gone, and what it meant   *)
(* to write is not written.                                                  *)
LEMMA Fails ==
  ASSUME GatewayTypeOK, NEW t \in Tasks, DatabaseFails(t)
  PROVE  /\ Moves(t) /\ task'[t] = Idle /\ task[t] # Idle
         /\ \/ /\ task[t] \in DeviceTask /\ task[t].op \in DeviceOps /\ task[t].device \in Devices
               /\ FinishDevice(t, TRUE)
               /\ unsettled' = unsettled \cup
                    {d \in {task[t].device} : task[t].op \in {"register", "offline"}}
            \/ /\ task[t].op \notin DeviceOps /\ task[t].socket \in Sockets
               /\ out' \in {{}, SendError(task[t].socket)}
               /\ UNCHANGED <<connections, unsettled>>
         /\ UNCHANGED <<wsState, deviceOf, deviceIndex, devices, sessions, learned>>
<1>1. /\ task[t] # Idle
      /\ task[t].op \in DeviceOps => task[t] \in DeviceTask /\ task[t].device \in Devices
      /\ task[t].op \notin DeviceOps => task[t].socket \in Sockets
  BY JobTypes DEF DatabaseFails, GatewayTypeOK, Job, DeviceOps
<1>2. Moves(t) /\ task'[t] = Idle
  BY Finishes DEF DatabaseFails, FinishDevice
<1> QED BY <1>1, <1>2 DEF DatabaseFails

LEMMA Forwards ==
  ASSUME GatewayTypeOK, NEW t \in Tasks, NEW x \in SessionIds, ForwardRequest(t, x)
  PROVE  /\ Moves(t) /\ task'[t] = Idle /\ task[t] \in RequestTask /\ task[t] # Idle /\ task[t].op = "request"
         /\ sessions[x] = NoSession /\ sessions' = [sessions EXCEPT ![x] = task[t].parties]
         /\ out' = SendTo({task[t].target}, About("forward", x))
         /\ learned' \subseteq learned \cup {<<task[t].parties.host, x>>}
         /\ UNCHANGED <<wsState, mapVars, devices, unsettled>>
<1>1. task[t] \in RequestTask /\ task[t] # Idle
  BY JobTypes DEF ForwardRequest, Asked, GatewayTypeOK, Job
<1> QED BY <1>1, Finishes DEF ForwardRequest, Asked

(* The answer of the database to a message about a session ends its task.    *)
SessionAnswered(t) == ForwardPasscode(t) \/ Relay(t) \/ Answer(t) \/ EndSession(t)

LEMMA Answers ==
  ASSUME TypeInv, NEW t \in Tasks, SessionAnswered(t)
  PROVE  /\ Moves(t) /\ task'[t] = Idle /\ task[t] \in SessionTask /\ task[t] # Idle
         /\ task[t].session \in SessionIds /\ sessions[task[t].session] \in Participants
         /\ out' \subseteq Sockets \X Frame
         /\ learned' = learned
         /\ UNCHANGED <<wsState, mapVars, devices, sessions, unsettled>>
<1>1. /\ task[t] \in SessionTask /\ task[t] # Idle /\ task[t].session \in SessionIds
      /\ task[t].socket \in Sockets
      /\ sessions[task[t].session] # NoSession
  BY JobTypes DEF SessionAnswered, ForwardPasscode, Relay, Answer, EndSession, Answered, TypeInv,
     GatewayTypeOK, SessionsExist, SessionOps, Job
<1>2. sessions[task[t].session] \in Participants
  BY <1>1 DEF TypeInv, GatewayTypeOK
<1>3. Moves(t) /\ task'[t] = Idle
  BY Finishes DEF SessionAnswered, ForwardPasscode, Relay, Answer, EndSession, TypeInv
<1>4. \A d : ConnectionOf(d) \subseteq Sockets
  BY DEF ConnectionOf, TypeInv, GatewayTypeOK
<1>5. out' \subseteq Sockets \X Frame /\ learned' = learned
  <2>1. CASE ForwardPasscode(t)
    BY <1>1, <1>4, <2>1, OutTypes, FrameTypes, ErrorTypes DEF ForwardPasscode
  <2>2. CASE Relay(t)
    <3>1. deviceOf[task[t].socket] # NoDevice => deviceOf[task[t].socket] \in Devices
      BY <1>1 DEF TypeInv, GatewayTypeOK
    <3> QED BY <1>1, <1>4, <2>2, <3>1, OutTypes, FrameTypes DEF Relay
  <2>3. CASE Answer(t)
    BY <2>3 DEF Answer, UpdatedSession
  <2>4. CASE EndSession(t)
    <3>1. out' = {} \/ out' = SendError(task[t].socket)
      BY <2>4 DEF EndSession, UpdatedSession
    <3>2. learned' = learned
      BY <2>4 DEF EndSession
    <3> QED BY <1>1, <3>1, <3>2, ErrorTypes
  <2> QED BY <2>1, <2>2, <2>3, <2>4 DEF SessionAnswered
<1> QED BY <1>1, <1>2, <1>3, <1>5
        DEF SessionAnswered, ForwardPasscode, Relay, Answer, EndSession

LEMMA TypeInit == Init => TypeInv
  BY DEF Init, TypeInv, GatewayTypeOK, SessionsExist, Presence

LEMMA TypeStep ==
  ASSUME TypeInv, [Next]_vars PROVE TypeInv'
<1> USE DEF TypeInv, GatewayTypeOK
(* Most steps change the maps and the tasks only.                            *)
<1>1. ASSUME wsState' \in [Sockets -> {"new", "open", "gone", "closed"}],
             connections' \subseteq Sockets,
             deviceOf' \in [Sockets -> Devices \cup {NoDevice}],
             deviceIndex' \in [Devices -> Sockets \cup {NoSocket}],
             devices' \in [Devices -> Presence],
             unsettled' \subseteq Devices, out' \subseteq Sockets \X Frame,
             UNCHANGED <<sessions, learned>>,
             \/ \A t \in Tasks : task'[t] \in {task[t], Idle}
             \/ \E t \in Tasks : /\ Moves(t)
                                 /\ task'[t] # Idle /\ task'[t].op \in SessionOps =>
                                      sessions[task'[t].session] # NoSession,
             task' \in [Tasks -> Job \cup {Idle}]
      PROVE  TypeInv'
  <2>1. ASSUME NEW u \in Tasks, task'[u] # Idle, task'[u].op \in SessionOps
        PROVE  sessions[task'[u].session] # NoSession
    BY <1>1, <2>1 DEF SessionsExist, Moves
  <2> QED BY <1>1, <2>1 DEF SessionsExist, Job
<1>2. ASSUME NEW s \in Sockets, HandleConnection(s) \/ PeerGone(s) PROVE TypeInv'
  BY <1>1, <1>2 DEF HandleConnection, PeerGone, Job
<1>3. ASSUME NEW t \in Tasks, NEW s \in Sockets, NEW d \in Devices, HandleRegister(t, s, d)
      PROVE  TypeInv'
  <2>0. Caller("register", s) /\ BeginDevice(t, "register", s, d)
    BY <1>3 DEF HandleRegister, Caller
  <2>1. Moves(t) /\ task'[t].op = "register" /\ unsettled' \subseteq Devices
    BY ONLY <2>0, TypeInv, DeviceBegins DEF TypeInv
  <2> QED BY <1>1, <1>3, <2>1 DEF HandleRegister, SessionOps, Moves
<1>4. ASSUME NEW t \in Tasks, NEW s \in Sockets, HandleHeartbeat(t, s) PROVE TypeInv'
  <2>1. deviceOf[s] \in Devices
    BY <1>4 DEF HandleHeartbeat
  <2>0. Caller("heartbeat", s) /\ BeginDevice(t, "heartbeat", s, deviceOf[s])
    BY <1>4 DEF HandleHeartbeat, Caller
  <2>2. Moves(t) /\ task'[t].op = "heartbeat" /\ unsettled' \subseteq Devices
    BY ONLY <2>0, <2>1, TypeInv, DeviceBegins DEF TypeInv
  <2> QED BY <1>1, <1>4, <2>2 DEF HandleHeartbeat, SessionOps, Moves
<1>5. ASSUME NEW t \in Tasks, NEW s \in Sockets, HandleDisconnect(t, s) PROVE TypeInv'
  <2>1. CASE deviceOf[s] = NoDevice
    BY <1>1, <1>5, <2>1 DEF HandleDisconnect, Job
  <2>2. CASE deviceOf[s] # NoDevice
    <3>1. Moves(t) /\ task'[t].op = "offline" /\ unsettled' \subseteq Devices
      BY <1>5, <2>2, DeviceBegins DEF HandleDisconnect, Caller
    <3> QED BY <1>1, <1>5, <2>2, <3>1 DEF HandleDisconnect, SessionOps, Moves
  <2> QED BY <2>1, <2>2
<1>6. ASSUME NEW t \in Tasks, NEW s \in Sockets, NEW h \in Devices, NEW c \in Devices,
             HandleConnectionRequest(t, s, h, c)
      PROVE  TypeInv'
  <2>1. CASE task' = task /\ out' = SendError(s)
    <3>1. out' \subseteq Sockets \X Frame
      BY <2>1, ErrorTypes
    <3> QED BY <1>1, <1>6, <2>1, <3>1 DEF HandleConnectionRequest, Job
  <2>2. ASSUME NEW target \in ConnectionOf(h), out' = {},
               Begin(t, [op |-> "request", socket |-> s,
                         parties |-> [host |-> h, client |-> c], target |-> target])
        PROVE  TypeInv'
    <3> DEFINE job == [op |-> "request", socket |-> s,
                       parties |-> [host |-> h, client |-> c], target |-> target]
    <3>1. job \in Job /\ job.op = "request"
      BY <2>2 DEF Job, RequestTask, Participants, ConnectionOf
    <3>2. Moves(t) /\ task'[t].op = "request"
      BY <2>2, <3>1, Begins
    <3> QED BY <1>1, <1>6, <2>2, <3>2 DEF HandleConnectionRequest, SessionOps, Moves
  <2> QED BY <1>6, <2>1, <2>2 DEF HandleConnectionRequest
<1>7. ASSUME NEW t \in Tasks, NEW s \in Sockets, NEW x \in SessionIds, NEW op \in SessionOps,
             HandleSessionMessage(t, s, op, x)
      PROVE  TypeInv'
  <2>1. [op |-> op, socket |-> s, session |-> x] \in Job
    BY DEF Job, SessionTask, SessionOps
  <2>2. Moves(t) /\ task'[t].session = x
    BY <1>7, <2>1, Begins DEF HandleSessionMessage
  <2>3. sessions[x] # NoSession
    BY <1>7 DEF HandleSessionMessage, Names, SessionsExist
  <2> QED BY <1>1, <1>7, <2>2, <2>3 DEF HandleSessionMessage, Moves
<1>8. ASSUME NEW t \in Tasks, FindDevice(t) PROVE TypeInv'
  <2>0. task'[t] # Idle => task'[t] \in DeviceTask
    BY ONLY <1>8, TypeInv, Finds DEF TypeInv
  <2>1. task'[t] # Idle => task'[t].op \notin SessionOps
    BY <2>0 DEF SessionOps, DeviceTask, DeviceOps
  <2>2. connections' \subseteq Sockets /\ out' \subseteq Sockets \X Frame
    BY <1>8, Finds, DeviceFinishes
  <2>3. Moves(t) /\ UNCHANGED <<wsState, deviceOf, deviceIndex, devices, sessions, learned, unsettled>>
    BY <1>8, Finds
  <2> QED BY <1>1, <2>1, <2>2, <2>3 DEF Moves
<1>9. ASSUME NEW t \in Tasks, SaveDevice(t) PROVE TypeInv'
  <2>1. connections' \subseteq Sockets /\ out' \subseteq Sockets \X Frame
    BY <1>9, Saves, DeviceFinishes
  <2>2. devices' \in [Devices -> Presence]
    <3>0. /\ task[t] \in DeviceTask
          /\ devices' = [devices EXCEPT ![task[t].device] = Saved(task[t])]
      BY ONLY <1>9, TypeInv, Saves DEF TypeInv
    <3>1. task[t].device \in Devices /\ task[t].row \in Presence
      BY <3>0 DEF DeviceTask
    <3>2. Saved(task[t]) \in Presence
      BY <3>1 DEF Saved, Presence
    <3> QED BY <3>0, <3>1, <3>2
  <2>3. Moves(t) /\ task'[t] = Idle
        /\ UNCHANGED <<wsState, deviceOf, deviceIndex, sessions, learned, unsettled>>
    BY <1>9, Saves
  <2> QED BY <1>1, <2>1, <2>2, <2>3 DEF Moves
<1>10. ASSUME NEW t \in Tasks, RefuseRequest(t) PROVE TypeInv'
  <2>1. out' \subseteq Sockets \X Frame
    BY <1>10, Refuses, ErrorTypes
  <2>2. Moves(t) /\ task'[t] = Idle
        /\ UNCHANGED <<wsState, mapVars, devices, sessions, learned, unsettled>>
    BY <1>10, Refuses
  <2> QED BY <1>1, <2>1, <2>2 DEF Moves
<1>11. ASSUME NEW t \in Tasks, SessionAnswered(t) PROVE TypeInv'
  <2>1. Moves(t) /\ task'[t] = Idle /\ out' \subseteq Sockets \X Frame /\ learned' = learned
        /\ UNCHANGED <<wsState, mapVars, devices, sessions, unsettled>>
    BY <1>11, Answers
  <2> QED BY <1>1, <2>1 DEF Moves
<1>12. CASE Restart
  BY <1>1, <1>12 DEF Restart, Job
<1>13. CASE UNCHANGED vars
  BY <1>1, <1>13 DEF Job
<1>14. ASSUME NEW t \in Tasks, NEW x \in SessionIds, ForwardRequest(t, x) PROVE TypeInv'
  <2>1. /\ Moves(t) /\ task'[t] = Idle /\ task[t].parties \in Participants
        /\ task[t].parties.host \in Devices
        /\ task[t].target \in Sockets
    <3>1. task[t] \in Job /\ task[t].op = "request" /\ Moves(t) /\ task'[t] = Idle
      BY <1>14, Forwards DEF Job
    <3> QED BY <3>1, JobTypes
  <2>2. out' \subseteq Sockets \X Frame
    <3>1. SendTo({task[t].target}, About("forward", x)) \subseteq Sockets \X Frame
      BY <2>1, OutTypes, FrameTypes
    <3> QED BY <1>14, <3>1, Forwards
  <2>3. sessions' = [sessions EXCEPT ![x] = task[t].parties] /\ task[t].parties # NoSession
    BY <1>14, <2>1, Forwards
  <2>4. learned' \subseteq learned \cup {<<task[t].parties.host, x>>}
    BY <1>14, Forwards
  <2>5. \A y \in SessionIds : sessions[y] # NoSession => sessions'[y] # NoSession
    BY <2>1, <2>3
  <2>6. \A u \in Tasks : task'[u] # Idle => task'[u] = task[u] /\ task[u] \in Job
    BY <2>1 DEF Moves, Job
  <2>7. SessionsExist'
    <3>1. \A p \in learned' : sessions'[p[2]] # NoSession
      BY <2>3, <2>4, <2>5 DEF SessionsExist
    <3>2. \A u \in Tasks : task'[u] # Idle /\ task'[u].op \in SessionOps =>
            sessions'[task'[u].session] # NoSession
      BY <2>5, <2>6, JobTypes DEF SessionsExist
    <3> QED BY <3>1, <3>2 DEF SessionsExist
  <2>8. learned' \subseteq Devices \X SessionIds
    BY <2>1, <2>4
  <2>9. UNCHANGED <<wsState, mapVars, devices, unsettled>>
    BY <1>14, Forwards
  <2> QED BY <2>1, <2>2, <2>3, <2>7, <2>8, <2>9 DEF Moves, Job
<1>15. ASSUME NEW t \in Tasks, NEW d \in Devices, NEW op \in {"register", "claim"},
              HandleRestCall(t, op, d)
       PROVE  TypeInv'
  <2>1. Moves(t) /\ task'[t].op = op /\ unsettled' \subseteq Devices
    BY <1>15, DeviceBegins DEF HandleRestCall, Caller
  <2> QED BY <1>1, <1>15, <2>1 DEF HandleRestCall, SessionOps, Moves
<1>16. ASSUME NEW t \in Tasks, DatabaseFails(t) PROVE TypeInv'
  <2>1. connections' \subseteq Sockets /\ out' \subseteq Sockets \X Frame
    <3>1. CASE task[t] \in DeviceTask /\ FinishDevice(t, TRUE)
      BY ONLY <3>1, t \in Tasks, TypeInv, DeviceFinishes DEF TypeInv
    <3>2. CASE /\ task[t].socket \in Sockets /\ out' \in {{}, SendError(task[t].socket)}
               /\ UNCHANGED connections
      <4>1. SendError(task[t].socket) \subseteq Sockets \X Frame
        BY <3>2, ErrorTypes
      <4> QED BY <3>2, <4>1
    <3> QED BY <1>16, <3>1, <3>2, Fails
  <2>2. /\ Moves(t) /\ task'[t] = Idle /\ unsettled' \subseteq Devices
        /\ UNCHANGED <<wsState, deviceOf, deviceIndex, devices, sessions, learned>>
    BY <1>16, Fails
  <2> QED BY <1>1, <2>1, <2>2 DEF Moves
<1> QED BY <1>2, <1>3, <1>4, <1>5, <1>6, <1>7, <1>8, <1>9, <1>10, <1>11, <1>12, <1>13, <1>14,
           <1>15, <1>16
        DEF Next, TaskStep, SessionAnswered, SessionOps

-----------------------------------------------------------------------------
(* Routes *)

Routed(d) == deviceIndex[d] # NoSocket
Closing(s) == \E t \in Tasks : task[t] # Idle /\ task[t].op = "offline" /\ task[t].socket = s

RouteInv ==
  /\ IndexIsAnnounced /\ OpenIsTracked /\ NoDeadRoutes
  /\ \A t \in Tasks : StillSo(t)

(* A socket keeps the device it announced, and stays closed.                 *)
LEMMA Stable ==
  ASSUME TypeInv, [Next]_vars, NEW s \in Sockets
  PROVE  /\ deviceOf[s] # NoDevice => deviceOf'[s] = deviceOf[s]
         /\ wsState[s] = "closed" => wsState'[s] = "closed"
<1> USE DEF TypeInv, GatewayTypeOK
<1>1. CASE UNCHANGED <<wsState, deviceOf>>
  BY <1>1
<1>2. ASSUME NEW r \in Sockets,
             HandleConnection(r) \/ PeerGone(r) \/ \E t \in Tasks : HandleDisconnect(t, r)
      PROVE  /\ deviceOf[s] # NoDevice => deviceOf'[s] = deviceOf[s]
             /\ wsState[s] = "closed" => wsState'[s] = "closed"
  BY <1>2 DEF HandleConnection, PeerGone, HandleDisconnect
<1>3. ASSUME NEW t \in Tasks, NEW r \in Sockets, NEW d \in Devices, HandleRegister(t, r, d)
      PROVE  /\ deviceOf[s] # NoDevice => deviceOf'[s] = deviceOf[s]
             /\ wsState[s] = "closed" => wsState'[s] = "closed"
  BY <1>3 DEF HandleRegister
<1>4. CASE Restart
  BY <1>4 DEF Restart
<1> QED BY <1>1, <1>2, <1>3, <1>4
        DEF Next, TaskStep, HandleHeartbeat, HandleConnectionRequest, HandleSessionMessage,
            HandleRestCall, FindDevice, SaveDevice, RefuseRequest, ForwardRequest,
            ForwardPasscode, Relay, Answer, EndSession, DatabaseFails

(* What each step does to the tasks: none begins, an offline task of a       *)
(* socket that has closed or a request for a host that is routed begins, or  *)
(* one that is neither.                                                      *)
LEMMA RequestBegins ==
  ASSUME TypeInv, RouteInv, NEW t \in Tasks, NEW s \in Sockets, NEW h \in Devices, NEW c \in Devices,
         HandleConnectionRequest(t, s, h, c)
  PROVE  /\ \/ task' = task
            \/ /\ Moves(t) /\ task[t] = Idle /\ task'[t] # Idle /\ task'[t].op = "request"
               /\ StillSo(t)'
         /\ UNCHANGED <<wsState, mapVars, devices, sessions, learned, unsettled>>
<1>1. CASE task' = task
  BY <1>1 DEF HandleConnectionRequest
<1>2. ASSUME NEW target \in ConnectionOf(h), out' = {},
             Begin(t, [op |-> "request", socket |-> s,
                       parties |-> [host |-> h, client |-> c], target |-> target])
      PROVE  Moves(t) /\ task[t] = Idle /\ task'[t] # Idle /\ task'[t].op = "request" /\ StillSo(t)'
  <2> DEFINE job == [op |-> "request", socket |-> s,
                     parties |-> [host |-> h, client |-> c], target |-> target]
  <2>1. job \in Job
    BY <1>2 DEF Job, RequestTask, Participants, ConnectionOf, TypeInv, GatewayTypeOK
  <2>2. job.op = "request" /\ job.target = target /\ job.parties.host = h /\ job.parties.client = c
    OBVIOUS
  <2>3. deviceIndex[h] = target /\ target # NoSocket
    BY <1>2 DEF ConnectionOf, TypeInv, GatewayTypeOK
  <2>4. deviceOf'[target] = h
    BY <2>3 DEF RouteInv, IndexIsAnnounced, HandleConnectionRequest
  <2> HIDE DEF job
  <2>5. Moves(t) /\ task[t] = Idle /\ task'[t] = job /\ job # Idle
    BY <1>2, <2>1, Begins DEF TypeInv, job
  <2> QED BY <2>2, <2>4, <2>5 DEF StillSo
<1> QED BY <1>1, <1>2 DEF HandleConnectionRequest

LEMMA MessageBegins ==
  ASSUME TypeInv, NEW t \in Tasks, NEW s \in Sockets, NEW x \in SessionIds, NEW op \in SessionOps,
         HandleSessionMessage(t, s, op, x)
  PROVE  /\ Moves(t) /\ task[t] = Idle /\ task'[t] # Idle /\ task'[t].op \in SessionOps
         /\ out' = {}
         /\ UNCHANGED <<wsState, mapVars, devices, sessions, learned, unsettled>>
<1>1. [op |-> op, socket |-> s, session |-> x] \in Job
  BY DEF Job, SessionTask, SessionOps
<1> QED BY <1>1, Begins DEF HandleSessionMessage, TypeInv

LEMMA StillSoStep ==
  ASSUME TypeInv, RouteInv, [Next]_vars, NEW u \in Tasks
  PROVE  StillSo(u)'
<1>1. ASSUME task'[u] = Idle PROVE StillSo(u)'
  BY <1>1 DEF StillSo
<1>2. ASSUME task'[u] # Idle, task[u] # Idle, task'[u].op = task[u].op,
             task[u].op = "offline" => task'[u].socket = task[u].socket,
             task[u].op = "request" => /\ task'[u].parties = task[u].parties
                                       /\ task'[u].target = task[u].target
      PROVE  StillSo(u)'
  <2>1. StillSo(u) /\ task[u] \in Job
    BY <1>2 DEF RouteInv, TypeInv, GatewayTypeOK, Job
  <2>2. task[u].op = "offline" => wsState'[task[u].socket] = "closed"
    BY <1>2, <2>1, Stable, JobTypes DEF StillSo
  <2>3. task[u].op = "request" =>
          deviceOf[task[u].target] # NoDevice /\ deviceOf'[task[u].target] = deviceOf[task[u].target]
    BY <1>2, <2>1, Stable, JobTypes DEF StillSo
  <2> QED BY <1>2, <2>1, <2>2, <2>3 DEF StillSo
<1>3. ASSUME task'[u] \in {task[u], Idle} PROVE StillSo(u)'
  BY <1>1, <1>2, <1>3
<1>4. ASSUME NEW t \in Tasks, Moves(t), t # u PROVE StillSo(u)'
  BY <1>3, <1>4 DEF Moves
<1>5. ASSUME task'[u].op \notin {"offline", "request"} PROVE StillSo(u)'
  BY <1>5 DEF StillSo
<1>6. ASSUME NEW t \in Tasks, NEW s \in Sockets,
             \/ \E d \in Devices : HandleRegister(t, s, d)
             \/ HandleHeartbeat(t, s) \/ HandleDisconnect(t, s)
      PROVE  StillSo(u)'
  <2>1. ASSUME NEW d \in Devices, NEW op, Caller(op, s), BeginDevice(t, op, s, d),
               op = "offline" => wsState'[s] = "closed"
        PROVE  StillSo(u)'
    <3>1. Moves(t) /\ task'[t].op = op /\ task'[t].socket = s /\ op \in DeviceOps
      BY <2>1, DeviceBegins DEF TypeInv
    <3>2. CASE t = u
      BY <2>1, <3>1, <3>2 DEF StillSo, DeviceOps
    <3> QED BY <1>4, <3>1, <3>2
  <2>2. deviceOf[s] \in Devices \cup {NoDevice} /\ wsState \in [Sockets -> {"new", "open", "gone", "closed"}]
    BY DEF TypeInv, GatewayTypeOK
  <2>3. ASSUME HandleDisconnect(t, s) PROVE wsState'[s] = "closed"
    BY <2>2, <2>3 DEF HandleDisconnect
  <2> QED BY <1>3, <1>6, <2>1, <2>2, <2>3 DEF HandleRegister, HandleHeartbeat, HandleDisconnect, Caller
<1>7. ASSUME NEW t \in Tasks, NEW s \in Sockets, NEW h \in Devices, NEW c \in Devices,
             HandleConnectionRequest(t, s, h, c)
      PROVE  StillSo(u)'
  BY <1>3, <1>4, <1>7, RequestBegins
<1>8. ASSUME NEW t \in Tasks, NEW s \in Sockets, NEW x \in SessionIds, NEW op \in SessionOps,
             HandleSessionMessage(t, s, op, x)
      PROVE  StillSo(u)'
  <2>1. Moves(t) /\ task'[t].op \in SessionOps
    BY <1>8, MessageBegins
  <2> QED BY <1>4, <1>5, <2>1 DEF SessionOps
<1>9. ASSUME NEW t \in Tasks, FindDevice(t) PROVE StillSo(u)'
  <2>1. /\ Moves(t) /\ task[t] # Idle /\ task[t].op \in DeviceOps
        /\ \/ task'[t] = Idle
           \/ task'[t].op = task[t].op /\ task'[t].socket = task[t].socket /\ task'[t] # Idle
    BY <1>9, Finds DEF TypeInv, FindDevice, DeviceOps
  <2> QED BY <1>1, <1>2, <1>4, <2>1 DEF DeviceOps
<1>10. ASSUME NEW t \in Tasks,
              SaveDevice(t) \/ SessionAnswered(t) \/ RefuseRequest(t) \/ DatabaseFails(t)
       PROVE  StillSo(u)'
  <2>1. Moves(t) /\ task'[t] = Idle
    BY <1>10, Saves, Answers, Refuses, Fails DEF TypeInv
  <2> QED BY <1>1, <1>4, <2>1
<1>11. ASSUME NEW t \in Tasks, NEW x \in SessionIds, ForwardRequest(t, x) PROVE StillSo(u)'
  <2>1. Moves(t) /\ task'[t] = Idle
    BY <1>11, Forwards DEF TypeInv
  <2> QED BY <1>1, <1>4, <2>1
<1>12. ASSUME NEW t \in Tasks, NEW d \in Devices, NEW op \in {"register", "claim"},
              HandleRestCall(t, op, d)
       PROVE  StillSo(u)'
  <2>1. Moves(t) /\ task'[t].op = op
    BY <1>12, DeviceBegins DEF HandleRestCall, Caller, TypeInv
  <2> QED BY <1>4, <1>5, <2>1
<1>13. CASE Restart \/ UNCHANGED vars \/ \E s \in Sockets : HandleConnection(s) \/ PeerGone(s)
  BY <1>3, <1>13 DEF Restart, HandleConnection, PeerGone
<1> QED BY <1>6, <1>7, <1>8, <1>9, <1>10, <1>11, <1>12, <1>13
        DEF Next, TaskStep, SessionAnswered, SessionOps

(* A step that ends no offline task, or one with its connection, and leaves  *)
(* the sockets and the index alone.                                          *)
LEMMA RoutesKept ==
  ASSUME TypeInv, RouteInv, UNCHANGED <<wsState, deviceOf, deviceIndex>>,
         \A s \in Sockets : s \in connections => s \in connections' \/ wsState[s] = "closed",
         connections' \subseteq connections,
         \A s \in connections' : Closing(s) => Closing(s)'
  PROVE  IndexIsAnnounced' /\ OpenIsTracked' /\ NoDeadRoutes'
<1> USE DEF RouteInv, TypeInv, GatewayTypeOK
<1>1. IndexIsAnnounced'
  BY DEF IndexIsAnnounced
<1>2. OpenIsTracked'
  BY DEF OpenIsTracked
<1>3. \A d \in Devices : deviceIndex'[d] # NoSocket =>
        deviceIndex'[d] \in connections' /\ wsState'[deviceIndex'[d]] # "closed"
  BY DEF NoDeadRoutes
<1>4. \A s \in connections' : wsState'[s] = "closed" => Closing(s)'
  BY DEF NoDeadRoutes, Closing
<1> QED BY <1>1, <1>2, <1>3, <1>4 DEF NoDeadRoutes, Closing

LEMMA RouteStep == ASSUME TypeInv, RouteInv, [Next]_vars PROVE RouteInv'
<1> SUFFICES IndexIsAnnounced' /\ OpenIsTracked' /\ NoDeadRoutes'
  BY StillSoStep DEF RouteInv
<1>0. /\ wsState \in [Sockets -> {"new", "open", "gone", "closed"}]
      /\ deviceOf \in [Sockets -> Devices \cup {NoDevice}]
      /\ deviceIndex \in [Devices -> Sockets \cup {NoSocket}]
      /\ connections \subseteq Sockets
      /\ IndexIsAnnounced /\ OpenIsTracked /\ NoDeadRoutes
  BY DEF TypeInv, GatewayTypeOK, RouteInv
<1>1. ASSUME NEW t \in Tasks, Moves(t), task[t] = Idle
      PROVE  \A s \in Sockets : Closing(s) => Closing(s)'
  BY <1>1 DEF Closing, Moves
<1>2. ASSUME NEW t \in Tasks, Moves(t), task[t].op # "offline"
      PROVE  \A s \in Sockets : Closing(s) => Closing(s)'
  BY <1>2 DEF Closing, Moves
<1>3. ASSUME NEW s \in Sockets, HandleConnection(s) \/ PeerGone(s)
      PROVE  IndexIsAnnounced' /\ OpenIsTracked' /\ NoDeadRoutes'
  <2>1. /\ task' = task /\ deviceOf' = deviceOf /\ deviceIndex' = deviceIndex
        /\ connections' = connections \cup {s} /\ wsState[s] # "closed"
        /\ \E st \in {"open", "gone"} : wsState' = [wsState EXCEPT ![s] = st]
    BY <1>0, <1>3 DEF HandleConnection, PeerGone, OpenIsTracked
  <2>2. IndexIsAnnounced' /\ OpenIsTracked'
    BY <1>0, <2>1 DEF IndexIsAnnounced, OpenIsTracked
  <2> QED BY <1>0, <2>1, <2>2 DEF NoDeadRoutes
<1>4. ASSUME NEW t \in Tasks, NEW s \in Sockets, NEW d \in Devices, HandleRegister(t, s, d)
      PROVE  IndexIsAnnounced' /\ OpenIsTracked' /\ NoDeadRoutes'
  <2>1. /\ wsState' = wsState /\ connections' = connections /\ wsState[s] = "open"
        /\ deviceOf' = [deviceOf EXCEPT ![s] = d] /\ deviceOf[s] \in {NoDevice, d}
        /\ deviceIndex' = [deviceIndex EXCEPT ![d] = s]
    BY <1>4 DEF HandleRegister
  <2>2. Moves(t) /\ task[t] = Idle
    BY <1>4, DeviceBegins DEF HandleRegister, Caller, TypeInv
  <2>3. \A r \in Sockets : Closing(r) => Closing(r)'
    BY <1>1, <2>2
  <2>4. IndexIsAnnounced'
    <3>1. ASSUME NEW e \in Devices, deviceIndex'[e] # NoSocket PROVE deviceOf'[deviceIndex'[e]] = e
      <4>1. CASE e = d
        BY <1>0, <2>1, <4>1
      <4>2. CASE e # d
        BY <1>0, <2>1, <3>1, <4>2 DEF IndexIsAnnounced
      <4> QED BY <4>1, <4>2
    <3> QED BY <3>1 DEF IndexIsAnnounced
  <2>5. OpenIsTracked' /\ s \in connections
    BY <1>0, <2>1 DEF OpenIsTracked
  <2>6. \A e \in Devices : deviceIndex'[e] # NoSocket =>
          deviceIndex'[e] \in connections' /\ wsState'[deviceIndex'[e]] # "closed"
    BY <1>0, <2>1, <2>5 DEF NoDeadRoutes
  <2>7. \A r \in connections' : wsState'[r] = "closed" => Closing(r)'
    BY <1>0, <2>1, <2>3 DEF NoDeadRoutes, Closing
  <2> QED BY <2>4, <2>5, <2>6, <2>7 DEF NoDeadRoutes, Closing
<1>5. ASSUME NEW t \in Tasks, NEW s \in Sockets, HandleHeartbeat(t, s)
      PROVE  IndexIsAnnounced' /\ OpenIsTracked' /\ NoDeadRoutes'
  <2>1. deviceOf[s] \in Devices
    BY <1>0, <1>5 DEF HandleHeartbeat
  <2>2. Moves(t) /\ task[t] = Idle
    BY <1>5, <2>1, DeviceBegins DEF HandleHeartbeat, Caller, TypeInv
  <2> QED BY <1>0, <1>1, <1>5, <2>2, RoutesKept DEF HandleHeartbeat
<1>6. ASSUME NEW t \in Tasks, NEW s \in Sockets, HandleDisconnect(t, s)
      PROVE  IndexIsAnnounced' /\ OpenIsTracked' /\ NoDeadRoutes'
  <2>1. wsState[s] = "gone" /\ wsState' = [wsState EXCEPT ![s] = "closed"] /\ deviceOf' = deviceOf
    BY <1>6 DEF HandleDisconnect
  <2>2. CASE deviceOf[s] = NoDevice
    <3>1. /\ connections' = connections \ {s} /\ deviceIndex' = deviceIndex /\ task' = task
      BY <1>6, <2>2 DEF HandleDisconnect
    <3>2. \A d \in Devices : deviceIndex[d] # s
      BY <1>0, <2>2 DEF IndexIsAnnounced
    <3>3. IndexIsAnnounced' /\ OpenIsTracked'
      BY <1>0, <2>1, <3>1 DEF IndexIsAnnounced, OpenIsTracked
    <3> QED BY <1>0, <2>1, <3>1, <3>2, <3>3 DEF NoDeadRoutes
  <2>3. CASE deviceOf[s] # NoDevice
    <3>1. /\ connections' = connections
          /\ deviceIndex' = [deviceIndex EXCEPT ![deviceOf[s]] = NoSocket]
          /\ BeginDevice(t, "offline", s, deviceOf[s])
      BY <1>6, <2>3 DEF HandleDisconnect
    <3>2. /\ Moves(t) /\ task[t] = Idle /\ task'[t] # Idle /\ task'[t].op = "offline"
          /\ task'[t].socket = s
      BY <1>0, <2>3, <3>1, DeviceBegins DEF Caller, TypeInv
    <3>3. \A d \in Devices : deviceIndex'[d] # s
      BY <1>0, <2>3, <3>1 DEF IndexIsAnnounced
    <3>4. IndexIsAnnounced' /\ OpenIsTracked'
      BY <1>0, <2>1, <3>1 DEF IndexIsAnnounced, OpenIsTracked
    <3>5. \A d \in Devices : deviceIndex'[d] # NoSocket =>
            deviceIndex'[d] \in connections' /\ wsState'[deviceIndex'[d]] # "closed"
      BY <1>0, <2>1, <3>1, <3>3 DEF NoDeadRoutes
    <3>6. Closing(s)'
      BY <3>2 DEF Closing
    <3>7. \A r \in Sockets : Closing(r) => Closing(r)'
      BY <1>1, <3>2
    <3>8. \A r \in connections' : wsState'[r] = "closed" => Closing(r)'
      BY <1>0, <2>1, <3>1, <3>6, <3>7 DEF NoDeadRoutes, Closing
    <3> QED BY <3>4, <3>5, <3>8 DEF NoDeadRoutes, Closing
  <2> QED BY <2>2, <2>3
<1>7. ASSUME NEW t \in Tasks, NEW s \in Sockets, NEW h \in Devices, NEW c \in Devices,
             HandleConnectionRequest(t, s, h, c)
      PROVE  IndexIsAnnounced' /\ OpenIsTracked' /\ NoDeadRoutes'
  <2>1. \A r \in Sockets : Closing(r) => Closing(r)'
    <3>1. CASE task' = task
      BY <3>1 DEF Closing
    <3>2. CASE Moves(t) /\ task[t] = Idle
      BY <1>1, <3>2
    <3> QED BY <1>7, <3>1, <3>2, RequestBegins
  <2>2. UNCHANGED <<wsState, mapVars>>
    BY <1>7 DEF HandleConnectionRequest
  <2> QED BY <1>0, <2>1, <2>2, RoutesKept
<1>8. ASSUME NEW t \in Tasks, NEW s \in Sockets, NEW x \in SessionIds, NEW op \in SessionOps,
             HandleSessionMessage(t, s, op, x)
      PROVE  IndexIsAnnounced' /\ OpenIsTracked' /\ NoDeadRoutes'
  <2>1. Moves(t) /\ task[t] = Idle /\ UNCHANGED <<wsState, mapVars>>
    BY <1>8, MessageBegins
  <2> QED BY <1>0, <1>1, <2>1, RoutesKept
(* The end of an offline task takes its socket out of the map.               *)
<1>9. ASSUME NEW t \in Tasks, NEW failed \in BOOLEAN, task[t] \in DeviceTask, task[t] # Idle,
             Moves(t), FinishDevice(t, failed), UNCHANGED <<wsState, deviceOf, deviceIndex>>
      PROVE  IndexIsAnnounced' /\ OpenIsTracked' /\ NoDeadRoutes'
  <2>1. connections' = IF task[t].op = "offline" THEN connections \ {task[t].socket} ELSE connections
    BY <1>9, DeviceFinishes DEF TypeInv
  <2>2. task[t].op = "offline" => wsState[task[t].socket] = "closed"
    BY <1>9 DEF RouteInv, StillSo
  <2>3. \A s \in connections' : Closing(s) => Closing(s)'
    <3>1. CASE task[t].op # "offline"
      BY <1>0, <1>2, <1>9, <2>1, <3>1
    <3>2. CASE task[t].op = "offline"
      BY <1>9, <2>1, <3>2 DEF Closing, Moves
    <3> QED BY <3>1, <3>2
  <2>4. /\ connections' \subseteq connections
        /\ \A s \in Sockets : s \in connections => s \in connections' \/ wsState[s] = "closed"
    BY <2>1, <2>2
  <2> QED BY <1>9, <2>3, <2>4, RoutesKept
<1>10. ASSUME NEW t \in Tasks, FindDevice(t)
       PROVE  IndexIsAnnounced' /\ OpenIsTracked' /\ NoDeadRoutes'
  <2>1. /\ Moves(t) /\ task[t] \in DeviceTask /\ UNCHANGED <<wsState, deviceOf, deviceIndex>>
        /\ task[t] # Idle
    BY <1>10, Finds DEF TypeInv, FindDevice
  <2>2. CASE FinishDevice(t, TRUE)
    BY <1>9, <2>1, <2>2
  <2>3. CASE /\ task'[t] # Idle /\ task'[t].op = task[t].op /\ task'[t].socket = task[t].socket
             /\ connections' = connections
    <3>1. \A s \in Sockets : Closing(s) => Closing(s)'
      BY <2>1, <2>3 DEF Closing, Moves
    <3> QED BY <1>0, <2>1, <2>3, <3>1, RoutesKept
  <2> QED BY <1>10, <2>2, <2>3, Finds DEF TypeInv
<1>11. ASSUME NEW t \in Tasks, SaveDevice(t)
       PROVE  IndexIsAnnounced' /\ OpenIsTracked' /\ NoDeadRoutes'
  <2>1. /\ Moves(t) /\ task[t] \in DeviceTask /\ task[t] # Idle /\ FinishDevice(t, FALSE)
        /\ UNCHANGED <<wsState, deviceOf, deviceIndex>>
    BY <1>11, Saves DEF TypeInv
  <2> QED BY <1>9, <2>1
<1>12. ASSUME NEW t \in Tasks,
              \/ RefuseRequest(t) \/ SessionAnswered(t)
              \/ \E x \in SessionIds : ForwardRequest(t, x)
       PROVE  IndexIsAnnounced' /\ OpenIsTracked' /\ NoDeadRoutes'
  <2>1. Moves(t) /\ UNCHANGED <<wsState, mapVars>>
    BY <1>12, Refuses, Forwards, Answers DEF TypeInv
  <2>2. task[t].op # "offline"
    BY <1>12 DEF RefuseRequest, ForwardRequest, Asked, SessionAnswered, ForwardPasscode, Relay,
       Answer, EndSession, Answered
  <2> QED BY <1>0, <1>2, <2>1, <2>2, RoutesKept
<1>15. ASSUME NEW t \in Tasks, NEW d \in Devices, NEW op \in {"register", "claim"},
              HandleRestCall(t, op, d)
       PROVE  IndexIsAnnounced' /\ OpenIsTracked' /\ NoDeadRoutes'
  <2>1. Moves(t) /\ task[t] = Idle /\ UNCHANGED <<wsState, mapVars>>
    BY <1>15, DeviceBegins DEF HandleRestCall, Caller, TypeInv
  <2> QED BY <1>0, <1>1, <2>1, RoutesKept
<1>16. ASSUME NEW t \in Tasks, DatabaseFails(t)
       PROVE  IndexIsAnnounced' /\ OpenIsTracked' /\ NoDeadRoutes'
  <2>1. Moves(t) /\ task[t] # Idle /\ UNCHANGED <<wsState, deviceOf, deviceIndex>>
    BY <1>16, Fails DEF TypeInv
  <2>2. CASE task[t] \in DeviceTask /\ FinishDevice(t, TRUE)
    BY <1>9, <2>1, <2>2
  <2>3. CASE task[t].op \notin DeviceOps /\ connections' = connections
    <3>1. \A s \in Sockets : Closing(s) => Closing(s)'
      BY <1>2, <2>1, <2>3 DEF DeviceOps
    <3> QED BY <1>0, <2>1, <2>3, <3>1, RoutesKept
  <2> QED BY <1>16, <2>2, <2>3, Fails DEF TypeInv
<1>13. CASE Restart
  <2>1. /\ \A s \in Sockets : wsState'[s] \in {"new", "closed"}
        /\ connections' = {} /\ \A d \in Devices : deviceIndex'[d] = NoSocket
    BY <1>13 DEF Restart
  <2> QED BY <2>1 DEF IndexIsAnnounced, OpenIsTracked, NoDeadRoutes
<1>14. CASE UNCHANGED vars
  BY <1>14, RoutesKept DEF Closing
<1> QED BY <1>3, <1>4, <1>5, <1>6, <1>7, <1>8, <1>10, <1>11, <1>12, <1>13, <1>14, <1>15, <1>16
        DEF Next, TaskStep, SessionAnswered, SessionOps

LEMMA RouteInit == Init => RouteInv
  BY DEF Init, RouteInv, IndexIsAnnounced, OpenIsTracked, NoDeadRoutes, StillSo

-----------------------------------------------------------------------------
(* Frames *)

LEMMA Written ==
  ASSUME NEW targets, NEW frame, NEW p \in SendTo(targets, frame)
  PROVE  p[1] \in targets /\ p[2] = frame
  BY DEF SendTo

LEMMA Quiet ==
  ASSUME NEW s, out' = {} \/ out' = SendError(s)
  PROVE  GatewayFramesReachTheirSide'
<1>1. ASSUME NEW p \in out' PROVE "session" \notin DOMAIN p[2]
  BY <1>1, Written DEF SendError
<1> QED BY <1>1 DEF GatewayFramesReachTheirSide

(* The connection that is found for a device has announced it.               *)
LEMMA RoutedRightly ==
  ASSUME RouteInv, NEW d \in Devices, NEW s \in ConnectionOf(d), TypeInv
  PROVE  s \in Sockets /\ deviceOf[s] = d
  BY DEF RouteInv, IndexIsAnnounced, ConnectionOf, TypeInv, GatewayTypeOK

LEMMA FramesStep ==
  ASSUME TypeInv, RouteInv, GatewayFramesReachTheirSide, [Next]_vars
  PROVE  GatewayFramesReachTheirSide'
<1>1. ASSUME NEW s \in Sockets, HandleConnection(s) \/ PeerGone(s)
      PROVE  GatewayFramesReachTheirSide'
  BY <1>1, Quiet DEF HandleConnection, PeerGone
<1>2. ASSUME NEW t \in Tasks, NEW s \in Sockets,
             \/ \E d \in Devices : HandleRegister(t, s, d)
             \/ HandleHeartbeat(t, s) \/ HandleDisconnect(t, s)
             \/ \E h, c \in Devices : HandleConnectionRequest(t, s, h, c)
             \/ \E x \in SessionIds, op \in SessionOps : HandleSessionMessage(t, s, op, x)
      PROVE  GatewayFramesReachTheirSide'
  <2>1. out' = {} \/ out' = SendError(s)
    BY <1>2 DEF HandleRegister, HandleHeartbeat, HandleDisconnect, HandleConnectionRequest,
       HandleSessionMessage
  <2> QED BY <2>1, Quiet
<1>3. ASSUME NEW t \in Tasks, FindDevice(t) \/ SaveDevice(t) PROVE GatewayFramesReachTheirSide'
  <2>1. out' = {} \/ out' = SendError(task[t].socket)
    BY <1>3 DEF FindDevice, SaveDevice, FinishDevice
  <2> QED BY <2>1, Quiet
<1>4. ASSUME NEW t \in Tasks,
             \/ RefuseRequest(t) \/ DatabaseFails(t)
             \/ \E d \in Devices, op \in {"register", "claim"} : HandleRestCall(t, op, d)
      PROVE  GatewayFramesReachTheirSide'
  <2>1. out' = {} \/ out' = SendError(task[t].socket)
    BY <1>4 DEF RefuseRequest, DatabaseFails, FinishDevice, HandleRestCall
  <2> QED BY <2>1, Quiet
<1>5. ASSUME NEW t \in Tasks, NEW x \in SessionIds, ForwardRequest(t, x)
      PROVE  GatewayFramesReachTheirSide'
  <2>1. /\ deviceOf[task[t].target] = task[t].parties.host /\ deviceOf' = deviceOf
        /\ sessions'[x] = task[t].parties
        /\ out' = SendTo({task[t].target}, About("forward", x))
    <3>1. /\ task[t].op = "request" /\ task[t] # Idle
          /\ sessions' = [sessions EXCEPT ![x] = task[t].parties]
          /\ out' = SendTo({task[t].target}, About("forward", x)) /\ deviceOf' = deviceOf
      BY <1>5, Forwards DEF TypeInv
    <3>2. deviceOf[task[t].target] = task[t].parties.host
      BY <3>1 DEF RouteInv, StillSo
    <3> QED BY <3>1, <3>2 DEF TypeInv, GatewayTypeOK
  <2>2. ASSUME NEW p \in out'
        PROVE  p[1] = task[t].target /\ p[2].session = x /\ p[2].type = "forward"
    BY <2>1, <2>2, Written DEF About
  <2> QED BY <2>1, <2>2, ZenonT(40) DEF GatewayFramesReachTheirSide
<1>6. ASSUME NEW t \in Tasks, SessionAnswered(t) PROVE GatewayFramesReachTheirSide'
  <2> DEFINE x == task[t].session
             row == sessions[x]
  <2>1. /\ task[t].socket \in Sockets /\ x \in SessionIds /\ row \in Participants
        /\ row.host \in Devices /\ row.client \in Devices
        /\ deviceOf' = deviceOf /\ sessions' = sessions
    BY <1>6, Answers DEF SessionTask, Participants, TypeInv, SessionsExist
  <2> HIDE DEF x
  <2>2. CASE ForwardPasscode(t)
    <3>1. CASE out' = SendError(task[t].socket)
      BY <3>1, Quiet
    <3>2. CASE out' = SendTo(ConnectionOf(row.host), About("submit", x))
      <4>1. ASSUME NEW p \in out'
            PROVE  /\ p[2].session = x /\ p[2].type = "submit" /\ deviceOf[p[1]] = row.host
        BY <2>1, <3>2, <4>1, Written, RoutedRightly DEF About
      <4> QED BY <2>1, <4>1 DEF GatewayFramesReachTheirSide
    <3> QED BY <2>2, <3>1, <3>2 DEF ForwardPasscode, x
  <2>3. CASE Relay(t)
    <3> DEFINE from == deviceOf[task[t].socket]
               other == OtherSide(task[t].socket, row)
    <3>1. CASE from = NoDevice
      BY <2>3, <3>1, Quiet DEF Relay
    <3>2. CASE from # NoDevice
      <4>1. out' = SendTo(ConnectionOf(other), From(task[t].socket, "relay", x))
        BY <2>3, <3>2 DEF Relay, x
      <4>2. other \in {row.host, row.client} /\ (other = from => row.host = row.client)
        BY <2>1 DEF OtherSide
      <4>3. ASSUME NEW p \in out'
            PROVE  /\ p[2].session = x /\ p[2].type = "relay" /\ p[2].from = from
                   /\ deviceOf[p[1]] = other
        BY <2>1, <4>1, <4>2, <4>3, Written, RoutedRightly DEF From
      <4> HIDE DEF other, from
      <4> QED BY <2>1, <4>2, <4>3 DEF GatewayFramesReachTheirSide
    <3> QED BY <3>1, <3>2
  <2>4. CASE Answer(t)
    BY <2>4, Quiet DEF Answer, UpdatedSession
  <2>5. CASE EndSession(t)
    <3>1. out' = {} \/ out' = SendError(task[t].socket)
      BY <2>5 DEF EndSession, UpdatedSession
    <3> QED BY <3>1, Quiet
  <2> QED BY <1>6, <2>2, <2>3, <2>4, <2>5 DEF SessionAnswered
<1>7. CASE Restart
  BY <1>7, Quiet DEF Restart
<1>8. CASE UNCHANGED vars
  BY <1>8 DEF GatewayFramesReachTheirSide
<1> QED BY <1>1, <1>2, <1>3, <1>4, <1>5, <1>6, <1>7, <1>8
        DEF Next, TaskStep, SessionAnswered, SessionOps

-----------------------------------------------------------------------------
(* Presence *)

OnDevice(t, d) == task[t] # Idle /\ task[t].op \in DeviceOps /\ task[t].device = d

Recorded(d) ==
  /\ deviceIndex[d] # NoSocket => devices[d] = "online"
  /\ ~Present(d) => devices[d] # "online"

(* What the only handler that is at work on the record of d can rely on:     *)
(* what it found is still there, and what it will write is still true.       *)
Reliable(t, d) ==
  /\ task[t].at = "save" => task[t].row = IF devices[d] = "absent" THEN "absent"
                                          ELSE StatusWritten(task[t].op, devices[d])
  /\ task[t].op = "offline" => deviceIndex[d] = NoSocket
  /\ task[t].op = "register" => Present(d)
  /\ task[t].op = "heartbeat" => Present(d)
  /\ task[t].op \in {"heartbeat", "claim"} => Recorded(d)
  /\ task[t].at = "save" /\ task[t].op # "register" => devices[d] # "absent"

Settled(d) ==
  /\ \A t, u \in Tasks : OnDevice(t, d) /\ OnDevice(u, d) => t = u
  /\ (\A t \in Tasks : ~OnDevice(t, d)) => Recorded(d)
  /\ \A t \in Tasks : OnDevice(t, d) => Reliable(t, d)

PresenceInv == \A d \in Devices \ unsettled : Settled(d)

LEMMA BusyIs == \A d : Busy(d) <=> \E t \in Tasks : OnDevice(t, d)
  BY DEF Busy, OnDevice, DeviceOps

(* The record of a device that no step of a handler touches                  *)
LEMMA SettledKept ==
  ASSUME NEW d \in Devices, Settled(d), Present(d) => Present(d)',
         deviceIndex'[d] = deviceIndex[d], devices'[d] = devices[d],
         \A t \in Tasks : task'[t] = task[t] \/ (~OnDevice(t, d) /\ ~OnDevice(t, d)')
  PROVE  Settled(d)'
<1>1. \A t \in Tasks : OnDevice(t, d)' <=> OnDevice(t, d)
  BY DEF OnDevice
<1>2. \A t \in Tasks : OnDevice(t, d) => task'[t] = task[t]
  OBVIOUS
<1>3. Recorded(d) => Recorded(d)'
  BY DEF Recorded
<1>4. \A t \in Tasks : Reliable(t, d) /\ OnDevice(t, d) => Reliable(t, d)'
  BY <1>2, <1>3 DEF Reliable
<1> QED BY <1>1, <1>3, <1>4 DEF Settled

(* A task that begins is about one device only.                              *)
LEMMA SettledBegins ==
  ASSUME TypeInv, PresenceInv, NEW t \in Tasks, NEW op, NEW s, Caller(op, s),
         NEW d \in Devices, BeginDevice(t, op, s, d), devices' = devices,
         \A e \in Devices \ {d} : deviceIndex'[e] = deviceIndex[e] /\ (Present(e) => Present(e)'),
         op = "offline" => deviceIndex'[d] = NoSocket,
         op = "register" /\ (s # NoSocket \/ Present(d)) => Present(d)',
         op = "heartbeat" => Present(d)',
         op \in {"heartbeat", "claim"} => deviceIndex'[d] = deviceIndex[d] /\ (Present(d) => Present(d)')
  PROVE  PresenceInv'
<1>1. /\ Moves(t) /\ task[t] = Idle /\ task'[t] # Idle /\ op \in DeviceOps
      /\ task'[t].op = op /\ task'[t].at = "find" /\ task'[t].device = d
      /\ \A e \in Devices \ {d} : e \in unsettled' <=> e \in unsettled
      /\ d \notin unsettled' =>
           /\ ~Busy(d)
           /\ op = "register" => s # NoSocket \/ Present(d)
           /\ op # "register" => d \notin unsettled
  BY DeviceBegins DEF TypeInv
<1>2. ASSUME NEW e \in Devices \ unsettled', e # d PROVE Settled(e)'
  <2>1. Settled(e)
    BY <1>1, <1>2 DEF PresenceInv
  <2>2. \A u \in Tasks : task'[u] = task[u] \/ (~OnDevice(u, e) /\ ~OnDevice(u, e)')
    BY <1>1, <1>2 DEF OnDevice, Moves
  <2> QED BY <1>2, <2>1, <2>2, SettledKept
<1>3. ASSUME d \notin unsettled' PROVE Settled(d)'
  <2>1. ~Busy(d)
    BY <1>1, <1>3
  <2>2. \A u \in Tasks : OnDevice(u, d)' <=> u = t
    BY <1>1, <2>1, BusyIs DEF OnDevice, Moves
  <2>3. op # "register" => Recorded(d)
    BY <1>1, <1>3, <2>1, BusyIs DEF PresenceInv, Settled
  <2>4. op \in {"heartbeat", "claim"} => Recorded(d)'
    BY <2>3 DEF Recorded
  <2>5. Reliable(t, d)'
    BY <1>1, <1>3, <2>4 DEF Reliable, DeviceOps
  <2> QED BY <2>2, <2>5 DEF Settled
<1> QED BY <1>2, <1>3 DEF PresenceInv

(* ... and so is one that goes on or ends: the others are as they were.      *)
LEMMA SettledElsewhere ==
  ASSUME PresenceInv, NEW t \in Tasks, Moves(t), unsettled' = unsettled, deviceIndex' = deviceIndex,
         wsState' = wsState, deviceOf' = deviceOf,
         NEW d \in Devices \ unsettled, ~OnDevice(t, d), ~OnDevice(t, d)', devices'[d] = devices[d]
  PROVE  Settled(d)'
<1>1. Settled(d)
  BY DEF PresenceInv
<1>2. Present(d)' <=> Present(d)
  BY DEF Present
<1>3. \A u \in Tasks : task'[u] = task[u] \/ (~OnDevice(u, d) /\ ~OnDevice(u, d)')
  BY DEF Moves
<1> QED BY <1>1, <1>2, <1>3, SettledKept

LEMMA PresenceStep == ASSUME TypeInv, RouteInv, PresenceInv, [Next]_vars PROVE PresenceInv'
<1>0. /\ wsState \in [Sockets -> {"new", "open", "gone", "closed"}]
      /\ deviceOf \in [Sockets -> Devices \cup {NoDevice}]
      /\ deviceIndex \in [Devices -> Sockets \cup {NoSocket}]
      /\ devices \in [Devices -> Presence]
  BY DEF TypeInv, GatewayTypeOK
(* Steps that touch no record, and tasks about sessions only                 *)
<1>1. ASSUME UNCHANGED <<deviceOf, deviceIndex, devices, unsettled>>,
             \A s \in Sockets : wsState[s] \in {"open", "gone"} => wsState'[s] \in {"open", "gone"},
             \A t \in Tasks, d \in Devices :
               task'[t] = task[t] \/ (~OnDevice(t, d) /\ ~OnDevice(t, d)')
      PROVE  PresenceInv'
  <2>1. ASSUME NEW d \in Devices \ unsettled PROVE Settled(d)'
    <3>1. Present(d) => Present(d)'
      BY <1>1 DEF Present
    <3>2. Settled(d)
      BY DEF PresenceInv
    <3> QED BY <1>1, <3>1, <3>2, SettledKept
  <2> QED BY <1>1, <2>1 DEF PresenceInv
<1>2. ASSUME NEW s \in Sockets, HandleConnection(s) \/ PeerGone(s) PROVE PresenceInv'
  BY <1>0, <1>1, <1>2 DEF HandleConnection, PeerGone
<1>3. ASSUME NEW t \in Tasks, NEW s \in Sockets, NEW d \in Devices, HandleRegister(t, s, d)
      PROVE  PresenceInv'
  <2>1. /\ wsState' = wsState /\ devices' = devices /\ wsState[s] = "open"
        /\ deviceOf' = [deviceOf EXCEPT ![s] = d] /\ deviceOf[s] \in {NoDevice, d}
        /\ deviceIndex' = [deviceIndex EXCEPT ![d] = s]
        /\ BeginDevice(t, "register", s, d)
    BY <1>3 DEF HandleRegister
  <2>2. \A e \in Devices \ {d} : deviceIndex'[e] = deviceIndex[e] /\ (Present(e) => Present(e)')
    BY <1>0, <2>1 DEF Present
  <2>3. Present(d)'
    BY <1>0, <2>1 DEF Present
  <2> QED BY <2>1, <2>2, <2>3, SettledBegins DEF Caller
<1>4. ASSUME NEW t \in Tasks, NEW s \in Sockets, HandleHeartbeat(t, s) PROVE PresenceInv'
  <2>1. /\ wsState' = wsState /\ devices' = devices /\ deviceOf' = deviceOf
        /\ deviceIndex' = deviceIndex /\ wsState[s] = "open" /\ deviceOf[s] \in Devices
        /\ BeginDevice(t, "heartbeat", s, deviceOf[s])
    BY <1>0, <1>4 DEF HandleHeartbeat
  <2>2. Present(deviceOf[s])' /\ \A e : Present(e) => Present(e)'
    BY <2>1 DEF Present
  <2> QED BY <2>1, <2>2, SettledBegins DEF Caller
<1>5. ASSUME NEW t \in Tasks, NEW s \in Sockets, HandleDisconnect(t, s) PROVE PresenceInv'
  <2>1. /\ wsState' = [wsState EXCEPT ![s] = "closed"] /\ devices' = devices /\ deviceOf' = deviceOf
    BY <1>5 DEF HandleDisconnect
  <2>2. \A e \in Devices \ {deviceOf[s]} : Present(e) => Present(e)'
    BY <1>0, <2>1 DEF Present
  <2>3. CASE deviceOf[s] = NoDevice
    <3>1. task' = task /\ deviceIndex' = deviceIndex /\ unsettled' = unsettled
      BY <1>5, <2>3 DEF HandleDisconnect
    <3>2. ASSUME NEW d \in Devices \ unsettled PROVE Settled(d)'
      <4>1. Present(d) => Present(d)'
        BY <2>2, <2>3
      <4>2. Settled(d)
        BY DEF PresenceInv
      <4> QED BY <2>1, <3>1, <4>1, <4>2, SettledKept
    <3> QED BY <3>1, <3>2 DEF PresenceInv
  <2>4. CASE deviceOf[s] # NoDevice
    <3>1. /\ deviceOf[s] \in Devices
          /\ deviceIndex' = [deviceIndex EXCEPT ![deviceOf[s]] = NoSocket]
          /\ BeginDevice(t, "offline", s, deviceOf[s])
      BY <1>0, <1>5, <2>4 DEF HandleDisconnect
    <3>2. /\ deviceIndex'[deviceOf[s]] = NoSocket
          /\ \A e \in Devices \ {deviceOf[s]} : deviceIndex'[e] = deviceIndex[e]
      BY <1>0, <3>1
    <3> QED BY <2>1, <2>2, <3>1, <3>2, SettledBegins DEF Caller
  <2> QED BY <2>3, <2>4
<1>6. ASSUME NEW t \in Tasks, NEW s \in Sockets, NEW h \in Devices, NEW c \in Devices,
             HandleConnectionRequest(t, s, h, c)
      PROVE  PresenceInv'
  <2>1. \A u \in Tasks, d \in Devices :
          task'[u] = task[u] \/ (~OnDevice(u, d) /\ ~OnDevice(u, d)')
    <3>1. CASE Moves(t) /\ task[t] = Idle /\ task'[t].op = "request"
      BY <3>1 DEF OnDevice, Moves, DeviceOps
    <3> QED BY <1>6, <3>1, RequestBegins DEF TypeInv
  <2> QED BY <1>1, <1>6, <2>1 DEF HandleConnectionRequest
<1>7. ASSUME NEW t \in Tasks, NEW s \in Sockets, NEW x \in SessionIds, NEW op \in SessionOps,
             HandleSessionMessage(t, s, op, x)
      PROVE  PresenceInv'
  <2>1. Moves(t) /\ task[t] = Idle /\ task'[t].op \in SessionOps
    BY <1>7, MessageBegins DEF TypeInv
  <2>2. \A u \in Tasks, d \in Devices :
          task'[u] = task[u] \/ (~OnDevice(u, d) /\ ~OnDevice(u, d)')
    BY <2>1 DEF OnDevice, Moves, DeviceOps, SessionOps
  <2> QED BY <1>1, <1>7, <2>2 DEF HandleSessionMessage
<1>8. ASSUME NEW t \in Tasks,
             \/ RefuseRequest(t) \/ SessionAnswered(t)
             \/ DatabaseFails(t) /\ task[t].op \notin DeviceOps
             \/ \E x \in SessionIds : ForwardRequest(t, x)
      PROVE  PresenceInv'
  <2>1. /\ Moves(t) /\ UNCHANGED <<wsState, deviceOf, deviceIndex, devices, unsettled>>
        /\ task'[t] = Idle
    BY <1>8, Refuses, Forwards, Answers, Fails DEF TypeInv
  <2>2. task[t].op \notin DeviceOps
    BY <1>8 DEF RefuseRequest, ForwardRequest, Asked, SessionAnswered, ForwardPasscode, Relay,
       Answer, EndSession, Answered, DeviceOps
  <2>3. \A u \in Tasks, d \in Devices :
          task'[u] = task[u] \/ (~OnDevice(u, d) /\ ~OnDevice(u, d)')
    BY <2>1, <2>2 DEF OnDevice, Moves
  <2> QED BY <1>1, <2>1, <2>3
<1>9. ASSUME NEW t \in Tasks, FindDevice(t) PROVE PresenceInv'
  <2>1. /\ Moves(t) /\ task[t] # Idle /\ task[t].op \in DeviceOps /\ task[t].device \in Devices
        /\ UNCHANGED <<wsState, deviceOf, deviceIndex, devices, unsettled>>
        /\ task[t].at = "find"
    BY <1>9, Finds, JobTypes DEF TypeInv, FindDevice, DeviceOps, Job
  <2>0. PICK d \in Devices : d = task[t].device
    BY <2>1
  <2>2. \/ /\ task'[t] # Idle /\ task'[t].op = task[t].op /\ task'[t].device = d
           /\ task'[t].row = IF devices[d] = "absent" THEN "absent"
                             ELSE StatusWritten(task[t].op, devices[d])
           /\ devices[d] # "absent" \/ task[t].op = "register"
        \/ task'[t] = Idle /\ devices[d] = "absent" /\ task[t].op # "register"
    BY <1>9, <2>0, Finds DEF TypeInv
  <2>3. OnDevice(t, d) /\ \A e : e # d => ~OnDevice(t, e) /\ ~OnDevice(t, e)'
    BY <2>0, <2>1, <2>2 DEF OnDevice
  <2>4. ASSUME NEW e \in Devices \ unsettled, e # d PROVE Settled(e)'
    BY <2>1, <2>3, <2>4, SettledElsewhere
  <2>5. ASSUME d \notin unsettled PROVE Settled(d)'
    <3>1. Settled(d) /\ Reliable(t, d)
      BY <2>1, <2>3, <2>5 DEF PresenceInv, Settled
    <3>2. \A u \in Tasks \ {t} : ~OnDevice(u, d) /\ ~OnDevice(u, d)'
      BY <2>1, <2>3, <3>1 DEF Settled, OnDevice, Moves
    <3>3. Present(d)' <=> Present(d)
      BY <2>1 DEF Present
    <3>4. CASE task'[t] = Idle
      <4>1. Recorded(d)'
        BY <2>1, <2>2, <3>1, <3>3, <3>4 DEF Recorded, Reliable, DeviceOps
      <4>2. ~OnDevice(t, d)'
        BY <3>4 DEF OnDevice
      <4> QED BY <3>2, <4>1, <4>2 DEF Settled
    <3>5. CASE task'[t] # Idle
      <4>0. Recorded(d)' <=> Recorded(d)
        BY <2>1, <3>3 DEF Recorded
      <4>1. Reliable(t, d)'
        BY <2>1, <2>2, <3>1, <3>3, <3>5, <4>0 DEF Reliable
      <4>2. OnDevice(t, d)'
        BY <2>1, <2>2, <3>5 DEF OnDevice
      <4> QED BY <3>2, <4>1, <4>2 DEF Settled
    <3> QED BY <3>4, <3>5
  <2> QED BY <2>1, <2>4, <2>5 DEF PresenceInv
<1>10. ASSUME NEW t \in Tasks, SaveDevice(t) PROVE PresenceInv'
  <2>0. PICK d \in Devices : d = task[t].device
    BY <1>10, Saves, JobTypes DEF TypeInv, SaveDevice, DeviceOps, Job
  <2>1. /\ Moves(t) /\ task[t] # Idle /\ task[t].op \in DeviceOps
        /\ UNCHANGED <<wsState, deviceOf, deviceIndex, unsettled>>
        /\ task[t].at = "save" /\ task'[t] = Idle
        /\ devices' = [devices EXCEPT ![d] = Saved(task[t])]
    BY <1>10, <2>0, Saves, JobTypes DEF TypeInv, SaveDevice, DeviceOps, Job
  <2>2. OnDevice(t, d) /\ \A e : e # d => ~OnDevice(t, e) /\ ~OnDevice(t, e)'
    BY <2>0, <2>1 DEF OnDevice
  <2>3. ASSUME NEW e \in Devices \ unsettled, e # d PROVE Settled(e)'
    <3>1. devices'[e] = devices[e]
      BY <1>0, <2>1, <2>3
    <3> QED BY <2>1, <2>2, <2>3, <3>1, SettledElsewhere
  <2>4. ASSUME d \notin unsettled PROVE Settled(d)'
    <3>1. Settled(d) /\ Reliable(t, d)
      BY <2>1, <2>2, <2>4 DEF PresenceInv, Settled
    <3>2. \A u \in Tasks : ~OnDevice(u, d)'
      BY <2>1, <2>2, <3>1 DEF Settled, OnDevice, Moves
    <3>3. Present(d)' <=> Present(d)
      BY <2>1 DEF Present
    <3>4. devices'[d] = StatusWritten(task[t].op, devices[d])
      BY <1>0, <2>0, <2>1, <3>1 DEF Reliable, Saved, StatusWritten, Presence
    <3>5. Recorded(d)'
      BY <2>1, <3>1, <3>3, <3>4 DEF Recorded, Reliable, DeviceOps, StatusWritten
    <3> QED BY <3>2, <3>5 DEF Settled
  <2> QED BY <2>1, <2>3, <2>4 DEF PresenceInv
<1>11. CASE Restart
  <2>1. /\ \A d \in Devices : deviceIndex'[d] = NoSocket
        /\ \A t \in Tasks : task'[t] = Idle
        /\ \A d \in Devices \ unsettled' : devices'[d] # "online"
    BY <1>11 DEF Restart
  <2>2. \A t \in Tasks, d \in Devices : ~OnDevice(t, d)'
    BY <2>1 DEF OnDevice
  <2>3. \A d \in Devices \ unsettled' : Recorded(d)'
    BY <2>1 DEF Recorded
  <2> QED BY <2>2, <2>3 DEF PresenceInv, Settled
<1>12. CASE UNCHANGED vars
  BY <1>1, <1>12
<1>13. ASSUME NEW t \in Tasks, NEW d \in Devices, NEW op \in {"register", "claim"},
              HandleRestCall(t, op, d)
       PROVE  PresenceInv'
  <2>1. /\ UNCHANGED <<wsState, deviceOf, deviceIndex, devices>>
        /\ BeginDevice(t, op, NoSocket, d)
    BY <1>13 DEF HandleRestCall
  <2>2. \A e : Present(e) => Present(e)'
    BY <2>1 DEF Present
  <2> QED BY <2>1, <2>2, SettledBegins DEF Caller
(* The write of a status that fails leaves the record unsettled, a heartbeat *)
(* or a claim that fails leaves it as it was.                                *)
<1>14. ASSUME NEW t \in Tasks, DatabaseFails(t), task[t].op \in DeviceOps PROVE PresenceInv'
  <2>1. /\ Moves(t) /\ task[t] # Idle /\ task'[t] = Idle /\ task[t].device \in Devices
        /\ UNCHANGED <<wsState, deviceOf, deviceIndex, devices>>
        /\ unsettled' = unsettled \cup {d \in {task[t].device} : task[t].op \in {"register", "offline"}}
    BY <1>14, Fails DEF TypeInv
  <2>2. PICK d \in Devices : d = task[t].device
    BY <2>1
  <2>3. OnDevice(t, d) /\ ~OnDevice(t, d)' /\ \A e : e # d => ~OnDevice(t, e) /\ ~OnDevice(t, e)'
    BY <1>14, <2>1, <2>2 DEF OnDevice
  <2>4. \A e : Present(e)' <=> Present(e)
    BY <2>1 DEF Present
  <2>5. ASSUME NEW e \in Devices \ unsettled', e # d PROVE Settled(e)'
    <3>1. Settled(e)
      BY <2>1, <2>5 DEF PresenceInv
    <3>2. \A u \in Tasks : task'[u] = task[u] \/ (~OnDevice(u, e) /\ ~OnDevice(u, e)')
      BY <2>1, <2>3, <2>5 DEF Moves
    <3> QED BY <2>1, <2>4, <3>1, <3>2, SettledKept
  <2>6. ASSUME d \notin unsettled' PROVE Settled(d)'
    <3>1. Settled(d) /\ Reliable(t, d) /\ task[t].op \in {"heartbeat", "claim"}
      BY <1>14, <2>1, <2>2, <2>3, <2>6 DEF PresenceInv, Settled, DeviceOps
    <3>2. \A u \in Tasks : ~OnDevice(u, d)'
      BY <2>1, <2>3, <3>1 DEF Settled, OnDevice, Moves
    <3>3. Recorded(d)'
      BY <2>1, <2>4, <3>1 DEF Recorded, Reliable
    <3> QED BY <3>2, <3>3 DEF Settled
  <2> QED BY <2>5, <2>6 DEF PresenceInv
<1> QED BY <1>2, <1>3, <1>4, <1>5, <1>6, <1>7, <1>8, <1>9, <1>10, <1>11, <1>12, <1>13, <1>14
        DEF Next, TaskStep, SessionAnswered, SessionOps

-----------------------------------------------------------------------------
(* Theorems *)

Inv == TypeInv /\ RouteInv /\ GatewayFramesReachTheirSide /\ PresenceInv

(* What a handler of signaling.gateway.ts took up before it awaited the      *)
(* database is still so when it goes on: the socket it looked up belongs to  *)
(* the device (lines 149, 164), the session it names has a row, and a record *)
(* that no other call raced for is the one it found.                         *)
THEOREM GatewayInvariance == Spec => []Inv
<1>1. Init => Inv
  <2>1. Init => GatewayFramesReachTheirSide
    BY DEF Init, GatewayFramesReachTheirSide
  <2>2. Init => PresenceInv
    BY DEF Init, PresenceInv, Settled, OnDevice, Recorded
  <2> QED BY <2>1, <2>2, TypeInit, RouteInit DEF Inv
<1>2. Inv /\ [Next]_vars => Inv'
  BY TypeStep, RouteStep, FramesStep, PresenceStep DEF Inv, RouteInv
<1> QED BY <1>1, <1>2, PTL DEF Spec

(* The maps, the tables, the handlers in flight and the frames are well      *)
(* formed.                                                                   *)
THEOREM GatewayTyping == Spec => []GatewayTypeOK
<1>1. Inv => GatewayTypeOK
  BY DEF Inv, TypeInv
<1> QED BY <1>1, GatewayInvariance, PTL

(* deviceIndex never names a socket whose close event was handled, and a     *)
(* closed socket leaves the map when the database has answered               *)
(* (signaling.gateway.ts:66-83).                                             *)
THEOREM RoutesAreAlive == Spec => []NoDeadRoutes
<1>1. Inv => NoDeadRoutes
  BY DEF Inv, RouteInv
<1> QED BY <1>1, GatewayInvariance, PTL

(* Whatever comes and goes while the database is asked, what the gateway     *)
(* writes about a session goes to the participant it is for                  *)
(* (signaling.gateway.ts:164, 189, 242).                                     *)
THEOREM FramesReachTheirSide == Spec => []GatewayFramesReachTheirSide
<1>1. Inv => GatewayFramesReachTheirSide
  BY DEF Inv
<1> QED BY <1>1, GatewayInvariance, PTL

(* From a registration over a socket that met no other call about the device *)
(* on, is_online says whether the device is connected, until calls race for  *)
(* the record, a write fails, the server restarts or a REST registration     *)
(* finds the device without a socket (signaling.gateway.ts:76, 99, 135;      *)
(* devices.service.ts; devices.controller.ts:13).                            *)
THEOREM OnlineIsRecorded == Spec => []PresenceIsRecorded
<1>1. Inv => PresenceIsRecorded
  BY BusyIs DEF Inv, PresenceInv, Settled, Recorded, PresenceIsRecorded
<1> QED BY <1>1, GatewayInvariance, PTL

(* While a handler awaits the database nothing is lost of the routes: only   *)
(* the close event of an older socket of a device takes the route of an open *)
(* one away (signaling.gateway.ts:73).                                       *)
THEOREM RoutesAreKept == Spec => RouteIsLostToOlderSocket
<1>1. ASSUME Inv, [Next]_vars, NEW d \in Devices, NEW s \in Sockets,
             deviceIndex[d] = s, wsState'[s] = "open", deviceIndex'[d] = NoSocket
      PROVE  \E r \in Sockets \ {s} :
               deviceOf[r] = d /\ wsState[r] = "gone" /\ wsState'[r] = "closed"
  <2> USE GatewayAssumption DEF Inv, TypeInv, GatewayTypeOK
  <2>1. deviceIndex'[d] # deviceIndex[d]
    BY <1>1
  <2>2. ASSUME NEW t \in Tasks, NEW r \in Sockets, NEW e \in Devices, HandleRegister(t, r, e)
        PROVE  FALSE
    BY <1>1, <2>1, <2>2 DEF HandleRegister
  <2>3. ASSUME NEW t \in Tasks, NEW r \in Sockets, HandleDisconnect(t, r)
        PROVE  deviceOf[r] = d /\ r # s /\ wsState[r] = "gone" /\ wsState'[r] = "closed"
    BY <1>1, <2>1, <2>3 DEF HandleDisconnect
  <2>4. CASE Restart
    BY <1>1, <2>4 DEF Restart
  <2>5. CASE UNCHANGED deviceIndex
    BY <2>1, <2>5
  <2> QED BY <1>1, <2>2, <2>3, <2>4, <2>5, ZenonT(40)
          DEF Next, TaskStep, HandleConnection, PeerGone, HandleHeartbeat,
              HandleConnectionRequest, HandleSessionMessage, FindDevice, SaveDevice,
              HandleRestCall, RefuseRequest, ForwardRequest, ForwardPasscode, Relay, Answer,
              EndSession, DatabaseFails,
              vars, mapVars
<1>2. Inv /\ [Next]_vars =>
        [\A d \in Devices, s \in Sockets :
           deviceIndex[d] = s /\ wsState'[s] = "open" /\ deviceIndex'[d] = NoSocket =>
             \E r \in Sockets \ {s} :
               deviceOf[r] = d /\ wsState[r] = "gone" /\ wsState'[r] = "closed"]_vars
  BY <1>1
<1> QED BY <1>2, GatewayInvariance, PTL DEF Spec, RouteIsLostToOlderSocket
=============================================================================
