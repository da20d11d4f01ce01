------------------------------ MODULE Gateway ------------------------------
(***************************************************************************)
(* The signaling gateway of the API server (signaling.gateway.ts) with the *)
(* device records it keeps (devices.service.ts), the calls it makes to the *)
(* session records, and the REST calls that write the device records too   *)
(* (devices.controller.ts).                                                *)
(*                                                                         *)
(* A handler runs up to its first await when its event arrives, and goes   *)
(* on when the database answers, or fails; other events come in between.   *)
(* What is in flight is a task.  A task that only writes status or metrics *)
(* of a session and sends nothing (session:started, session:quality:report)*)
(* is left to SessionRecords, and so is POST /api/v1/sessions, which no    *)
(* application calls.                                                      *)
(*                                                                         *)
(* wsState is as in ConnectionManager, but this server never closes a      *)
(* socket and never pings one.  An application announces one device per    *)
(* socket.  out holds the session frames the last step wrote, and errors,  *)
(* whose texts are left out.                                               *)
(***************************************************************************)

CONSTANTS
  Sockets, Devices, SessionIds,
  NoSocket, NoDevice, NoSession,
  Tasks, Idle,           \* bound: handlers in flight
  Hosts                  \* bound: the devices others ask for, and REST calls are about

VARIABLES
  wsState,      \* [Sockets -> {"new", "open", "gone", "closed"}]
  connections,  \* keys of the connections map
  deviceOf,     \* conn.deviceId
  deviceIndex,  \* [Devices -> Sockets \cup {NoSocket}]
  devices,      \* is_online of the devices table, or "absent"
  sessions,     \* the participants in the sessions table
  task,         \* [Tasks -> what a handler is waiting to do, or Idle]
  learned,      \* {<<device, session>>}: the application was told the session id
  unsettled,    \* devices whose record was raced for, outdated by a restart, not
                \* written for a failure, or put online without a socket
  out           \* {<<socket, frame>>}

mapVars == <<connections, deviceOf, deviceIndex>>
vars == <<wsState, mapVars, devices, sessions, task, learned, unsettled, out>>

Participants == [host: Devices, client: Devices]
DeviceOps == {"register", "heartbeat", "offline", "claim"}
Presence == {"absent", "offline", "online"}
DeviceTask == [op: DeviceOps \ {"claim"}, at: {"find", "save"},
               socket: Sockets, device: Devices, row: Presence]
              \cup [op: {"register", "claim"}, at: {"find", "save"},    \* a REST call
                    socket: {NoSocket}, device: Devices, row: Presence]
RequestTask == [op: {"request"}, socket: Sockets, parties: Participants, target: Sockets]
SessionTask == [op: {"submit", "relay", "accepted", "rejected", "ended"},
                socket: Sockets, session: SessionIds]
Frame == [type: {"forward", "submit", "accepted", "rejected"}, session: SessionIds]
         \cup [type: {"relay", "ended"}, session: SessionIds, from: Devices]
         \cup [type: {"error"}]

ASSUME GatewayAssumption ==
  /\ NoSocket \notin Sockets /\ NoDevice \notin Devices /\ NoSession \notin Participants
  /\ Hosts \subseteq Devices
  /\ Idle \notin DeviceTask \cup RequestTask \cup SessionTask

(* Maps, records, tasks and frames are well formed.                         *)
GatewayTypeOK ==
  /\ wsState \in [Sockets -> {"new", "open", "gone", "closed"}]
  /\ connections \subseteq Sockets
  /\ deviceOf \in [Sockets -> Devices \cup {NoDevice}]
  /\ deviceIndex \in [Devices -> Sockets \cup {NoSocket}]
  /\ devices \in [Devices -> Presence]
  /\ sessions \in [SessionIds -> Participants \cup {NoSession}]
  /\ task \in [Tasks -> DeviceTask \cup RequestTask \cup SessionTask \cup {Idle}]
  /\ learned \subseteq Devices \X SessionIds
  /\ unsettled \subseteq Devices
  /\ out \subseteq Sockets \X Frame

Init ==
  /\ wsState = [s \in Sockets |-> "new"]
  /\ connections = {}
  /\ deviceOf = [s \in Sockets |-> NoDevice]
  /\ deviceIndex = [d \in Devices |-> NoSocket]
  /\ devices = [d \in Devices |-> "absent"]
  /\ sessions = [x \in SessionIds |-> NoSession]
  /\ task = [t \in Tasks |-> Idle]
  /\ learned = {} /\ unsettled = {} /\ out = {}

-----------------------------------------------------------------------------
(* Lookups and sending *)

(* getConnectionByDeviceId, as a set                                        *)
ConnectionOf(d) == {s \in connections : d \in Devices /\ deviceIndex[d] = s}

SendTo(targets, frame) == {<<s, frame>> : s \in {t \in targets : wsState[t] = "open"}}
SendError(s) == SendTo({s}, [type |-> "error"])

About(type, x) == [type |-> type, session |-> x]
From(s, type, x) == [type |-> type, session |-> x, from |-> deviceOf[s]]
Names(s, x) == /\ wsState[s] = "open"
               /\ \E d \in Devices : <<d, x>> \in learned /\ deviceOf[s] \in {d, NoDevice}

Begin(t, job) == task[t] = Idle /\ task' = [task EXCEPT ![t] = job]
Finish(t) == task' = [task EXCEPT ![t] = Idle]

Busy(d) == \E t \in Tasks : task[t] # Idle /\ task[t].op \in DeviceOps /\ task[t].device = d

(* Device d has a socket, as far as the server knows.                       *)
Present(d) == \E s \in Sockets : deviceOf[s] = d /\ wsState[s] \in {"open", "gone"}

(* The record of d is settled by a registration over a socket that meets no *)
(* other task.  One over REST puts a device online that may have no socket. *)
Meet(op, s, d) ==
  unsettled' = IF Busy(d) \/ (op = "register" /\ s = NoSocket /\ ~Present(d))
               THEN unsettled \cup {d}
               ELSE IF op = "register" /\ s # NoSocket THEN unsettled \ {d} ELSE unsettled

BeginDevice(t, op, s, d) ==
  /\ Begin(t, [op |-> op, at |-> "find", socket |-> s, device |-> d, row |-> "absent"])
  /\ Meet(op, s, d)

-----------------------------------------------------------------------------
(* Connections and devices *)

HandleConnection(s) ==
  /\ wsState[s] = "new"
  /\ wsState' = [wsState EXCEPT ![s] = "open"]
  /\ connections' = connections \cup {s}
  /\ out' = {}
  /\ UNCHANGED <<deviceOf, deviceIndex, devices, sessions, task, learned, unsettled>>

(* The peer left; ws has queued the close event.                            *)
PeerGone(s) ==
  /\ wsState[s] = "open"
  /\ wsState' = [wsState EXCEPT ![s] = "gone"]
  /\ out' = {}
  /\ UNCHANGED <<mapVars, devices, sessions, task, learned, unsettled>>

HandleRegister(t, s, d) ==
  /\ wsState[s] = "open"
  /\ deviceOf[s] \in {NoDevice, d}
  /\ deviceOf' = [deviceOf EXCEPT ![s] = d]
  /\ deviceIndex' = [deviceIndex EXCEPT ![d] = s]
  /\ BeginDevice(t, "register", s, d)
  /\ out' = {}
  /\ UNCHANGED <<wsState, connections, devices, sessions, learned>>

(* device:heartbeat of a socket that has registered                         *)
HandleHeartbeat(t, s) ==
  /\ wsState[s] = "open"
  /\ deviceOf[s] # NoDevice
  /\ BeginDevice(t, "heartbeat", s, deviceOf[s])
  /\ out' = {}
  /\ UNCHANGED <<wsState, mapVars, devices, sessions, learned>>

(* The close event: the route of the device goes, whichever socket it names;*)
(* the connection goes when the database has answered.                      *)
HandleDisconnect(t, s) ==
  /\ wsState[s] = "gone"
  /\ wsState' = [wsState EXCEPT ![s] = "closed"]
  /\ \/ /\ deviceOf[s] = NoDevice
        /\ connections' = connections \ {s}
        /\ UNCHANGED <<deviceIndex, task, unsettled>>
     \/ /\ deviceOf[s] # NoDevice
        /\ deviceIndex' = [deviceIndex EXCEPT ![deviceOf[s]] = NoSocket]
        /\ BeginDevice(t, "offline", s, deviceOf[s])
        /\ UNCHANGED connections
  /\ out' = {}
  /\ UNCHANGED <<deviceOf, devices, sessions, learned>>

(* POST /api/v1/devices/register and /:deviceId/claim, with or without a    *)
(* socket of the device                                                     *)
HandleRestCall(t, op, d) ==
  /\ BeginDevice(t, op, NoSocket, d)
  /\ out' = {}
  /\ UNCHANGED <<wsState, mapVars, devices, sessions, learned>>

(* a slip: NotFoundException escapes from handleDisconnect                  *)
FinishDeviceUncaught(t, failed) ==
  LET job == task[t]
  IN  /\ Finish(t)
      /\ connections' = IF job.op = "offline" /\ ~failed THEN connections \ {job.socket}
                                                         ELSE connections
      /\ out' = IF failed /\ job.op = "heartbeat"
                THEN SendError(job.socket) ELSE {}

(* What follows the last answer about a device: an offline task forgets the *)
(* connection, a heartbeat of an unknown device is answered with an error.  *)
FinishDevice(t, failed) ==
  LET job == task[t]
  IN  /\ Finish(t)
      /\ connections' = IF job.op = "offline" THEN connections \ {job.socket}
                                              ELSE connections
      /\ out' = IF failed /\ job.op = "heartbeat"
                THEN SendError(job.socket) ELSE {}

(* a slip: updateOnlineStatus ignores its argument                          *)
StatusWrittenAlways(op, row) == "online"

(* isOnline of the entity that is going to be saved: a claim saves it as it *)
(* was found.                                                               *)
StatusWritten(op, row) == CASE op = "offline" -> "offline"
                            [] op = "claim" -> row
                            [] OTHER -> "online"

(* registerDevice, updateOnlineStatus and claimDevice: findOne; the latter  *)
(* two throw when there is no row.                                          *)
FindDevice(t) ==
  /\ task[t] # Idle /\ task[t].op \in DeviceOps
  /\ task[t].at = "find"
  /\ LET op == task[t].op
         row == devices[task[t].device]
     IN  \/ /\ row # "absent" \/ op = "register"
           /\ task' = [task EXCEPT ![t].at = "save",
                                   ![t].row = IF row = "absent" THEN "absent"
                                              ELSE StatusWritten(op, row)]
           /\ out' = {}
           /\ UNCHANGED connections
        \/ /\ row = "absent" /\ op # "register"
           /\ FinishDevice(t, TRUE)
  /\ UNCHANGED <<wsState, deviceOf, deviceIndex, devices, sessions, learned, unsettled>>

(* ... and save: the entity is written back as a whole, or inserted.        *)
(* device_id is unique: a row that somebody else inserted since makes the   *)
(* insert fail, which is logged.                                            *)
Saved(job) == IF job.row # "absent" THEN job.row
              ELSE IF devices[job.device] = "absent" THEN "online" ELSE devices[job.device]

(* a slip: an offline task clears the route once the database has answered  *)
SaveDeviceUnrouting(t) ==
  /\ task[t] # Idle /\ task[t].op \in DeviceOps
  /\ task[t].at = "save"
  /\ devices' = [devices EXCEPT ![task[t].device] = Saved(task[t])]
  /\ deviceIndex' = [deviceIndex EXCEPT ![task[t].device] =
                       IF task[t].op = "offline" THEN NoSocket ELSE @]
  /\ FinishDevice(t, FALSE)
  /\ UNCHANGED <<wsState, deviceOf, sessions, learned, unsettled>>

SaveDevice(t) ==
  /\ task[t] # Idle /\ task[t].op \in DeviceOps
  /\ task[t].at = "save"
  /\ devices' = [devices EXCEPT ![task[t].device] = Saved(task[t])]
  /\ FinishDevice(t, FALSE)
  /\ UNCHANGED <<wsState, deviceOf, deviceIndex, sessions, learned, unsettled>>

-----------------------------------------------------------------------------
(* Sessions *)

(* connection:request of client c for host h, which may be the same: the    *)
(* host's connection is looked up now and used when the session has been    *)
(* created.                                                                 *)
HandleConnectionRequest(t, s, h, c) ==
  /\ wsState[s] = "open" /\ deviceOf[s] \in {c, NoDevice}
  /\ \/ /\ ConnectionOf(h) = {}
        /\ out' = SendError(s)
        /\ UNCHANGED task
     \/ /\ out' = {}
        /\ \E target \in ConnectionOf(h) :
             Begin(t, [op |-> "request", socket |-> s,
                       parties |-> [host |-> h, client |-> c], target |-> target])
  /\ UNCHANGED <<wsState, mapVars, devices, sessions, learned, unsettled>>

Asked(t) == task[t] # Idle /\ task[t].op = "request"
Unknown(t) == "absent" \in {devices[task[t].parties.host], devices[task[t].parties.client]}

(* createSession looks both devices up and throws if one has no row ...     *)
RefuseRequest(t) ==
  /\ Asked(t) /\ Unknown(t)
  /\ Finish(t)
  /\ out' = SendError(task[t].socket)
  /\ UNCHANGED <<wsState, mapVars, devices, sessions, learned, unsettled>>

(* ... or inserts the session, and the host is told its id.  The lookups    *)
(* are part of this step: a row that is there is never deleted.             *)
ForwardRequest(t, x) ==
  /\ Asked(t) /\ ~Unknown(t)
  /\ sessions[x] = NoSession
  /\ sessions' = [sessions EXCEPT ![x] = task[t].parties]
  /\ out' = SendTo({task[t].target}, About("forward", x))
  /\ learned' = learned \cup {p \in {<<task[t].parties.host, x>>} : out' # {}}
  /\ Finish(t)
  /\ UNCHANGED <<wsState, mapVars, devices, unsettled>>

(* The other messages about a session first await its row.                  *)
HandleSessionMessage(t, s, op, x) ==
  /\ Names(s, x)
  /\ Begin(t, [op |-> op, socket |-> s, session |-> x])
  /\ out' = {}
  /\ UNCHANGED <<wsState, mapVars, devices, sessions, learned, unsettled>>

Answered(t, ops) == task[t] # Idle /\ task[t].op \in ops

ForwardPasscode(t) ==
  /\ Answered(t, {"submit"})
  /\ LET x == task[t].session
         target == ConnectionOf(sessions[x].host)
     IN  out' = IF target # {} THEN SendTo(target, About("submit", x))
                ELSE SendError(task[t].socket)
  /\ Finish(t)
  /\ UNCHANGED <<wsState, mapVars, devices, sessions, learned, unsettled>>

(* a slip: the sender is taken for the client                               *)
OtherSideOfClient(s, row) == row.host

OtherSide(s, row) == IF deviceOf[s] = row.host THEN row.client ELSE row.host

(* a slip: the sender need not have registered                              *)
RelayUnregistered(t) ==
  /\ Answered(t, {"relay"})
  /\ LET s == task[t].socket
         x == task[t].session
     IN  out' = SendTo(ConnectionOf(OtherSide(s, sessions[x])), From(s, "relay", x))
  /\ Finish(t)
  /\ UNCHANGED <<wsState, mapVars, devices, sessions, learned, unsettled>>

Relay(t) ==
  /\ Answered(t, {"relay"})
  /\ LET s == task[t].socket
         x == task[t].session
     IN  out' = IF deviceOf[s] = NoDevice THEN {}
                ELSE SendTo(ConnectionOf(OtherSide(s, sessions[x])), From(s, "relay", x))
  /\ Finish(t)
  /\ UNCHANGED <<wsState, mapVars, devices, sessions, learned, unsettled>>

(* updateSession returns the entity its findOne loaded: without relations,  *)
(* so reading hostDevice.deviceId or clientDevice.deviceId of it throws.    *)
UpdatedSession(x) == [row |-> sessions[x], relations |-> FALSE]

Answer(t) ==
  /\ Answered(t, {"accepted", "rejected"})
  /\ LET x == task[t].session
         session == UpdatedSession(x)
         client == ConnectionOf(session.row.client)
     IN  /\ out' = IF session.relations THEN SendTo(client, About(task[t].op, x)) ELSE {}
         /\ learned' = learned \cup {p \in {<<session.row.client, x>>} : out' # {}}
  /\ Finish(t)
  /\ UNCHANGED <<wsState, mapVars, devices, sessions, unsettled>>

EndSession(t) ==
  /\ Answered(t, {"ended"})
  /\ LET s == task[t].socket
         x == task[t].session
         session == UpdatedSession(x)
     IN  out' = IF deviceOf[s] = NoDevice THEN {}
                ELSE IF session.relations
                THEN SendTo(ConnectionOf(OtherSide(s, session.row)), From(s, "ended", x))
                ELSE SendError(s)
  /\ Finish(t)
  /\ UNCHANGED <<wsState, mapVars, devices, sessions, learned, unsettled>>

(* A query fails, and has no effect.  What there is to catch it: the status *)
(* of a device is logged (signaling.gateway.ts:78, 109), an error goes back *)
(* (lines 178, 194, and 61 for what no handler catches), or it is logged.   *)
DatabaseFails(t) ==
  /\ task[t] # Idle
  /\ \/ /\ task[t].op \in DeviceOps
        /\ FinishDevice(t, TRUE)
        /\ unsettled' = unsettled \cup
             {d \in {task[t].device} : task[t].op \in {"register", "offline"}}
     \/ /\ task[t].op \notin DeviceOps
        /\ Finish(t)
        /\ out' = IF task[t].op \in {"request", "submit", "ended"}
                  THEN SendError(task[t].socket) ELSE {}
        /\ UNCHANGED <<connections, unsettled>>
  /\ UNCHANGED <<wsState, deviceOf, deviceIndex, devices, sessions, learned>>

(* The API server dies; the database stays as it is.                        *)
Restart ==
  /\ connections # {} \/ \E t \in Tasks : task[t] # Idle
  /\ wsState' = [s \in Sockets |-> IF wsState[s] = "new" THEN "new" ELSE "closed"]
  /\ connections' = {}
  /\ deviceIndex' = [d \in Devices |-> NoSocket]
  /\ task' = [t \in Tasks |-> Idle]
  /\ unsettled' = unsettled \cup {d \in Devices : devices[d] = "online" \/ Busy(d)}
  /\ out' = {}
  /\ UNCHANGED <<deviceOf, devices, sessions, learned>>

TaskStep(t) ==
  \/ FindDevice(t) \/ SaveDevice(t)
  \/ RefuseRequest(t)
  \/ \E x \in SessionIds : ForwardRequest(t, x)
  \/ ForwardPasscode(t) \/ Relay(t) \/ Answer(t) \/ EndSession(t)
  \/ DatabaseFails(t)

Next ==
  \/ \E s \in Sockets :
       \/ HandleConnection(s)
       \/ PeerGone(s)
       \/ \E t \in Tasks :
            \/ \E d \in Devices : HandleRegister(t, s, d)
            \/ HandleHeartbeat(t, s)
            \/ HandleDisconnect(t, s)
            \/ \E h \in Hosts, c \in Devices : HandleConnectionRequest(t, s, h, c)
            \/ \E x \in SessionIds, op \in {"submit", "relay", "accepted", "rejected", "ended"} :
                 HandleSessionMessage(t, s, op, x)
  \/ \E t \in Tasks, d \in Hosts, op \in {"register", "claim"} : HandleRestCall(t, op, d)
  \/ \E t \in Tasks : TaskStep(t)
  \/ Restart

Spec == Init /\ [][Next]_vars

-----------------------------------------------------------------------------
(* Properties *)

(* No device is routed to a socket whose close event was handled, however   *)
(* long the database takes over it (signaling.gateway.ts:73); and a closed  *)
(* socket is in the map only while it takes that long (line 82).            *)
NoDeadRoutes ==
  /\ \A d \in Devices : deviceIndex[d] # NoSocket =>
       deviceIndex[d] \in connections /\ wsState[deviceIndex[d]] # "closed"
  /\ \A s \in connections : wsState[s] = "closed" =>
       \E t \in Tasks : /\ task[t] # Idle /\ task[t].op = "offline"
                        /\ task[t].socket = s

(* A device that is routed to an open socket stays routed, whatever is in   *)
(* flight about it, until a late close event of another socket it announced *)
(* comes: that one takes the route away (signaling.gateway.ts:73), and      *)
(* nothing else does.  Compare OwnerKeepsRoute of ConnectionManager.        *)
RouteIsLostToOlderSocket ==
  [][\A d \in Devices, s \in Sockets :
       deviceIndex[d] = s /\ wsState'[s] = "open" /\ deviceIndex'[d] = NoSocket =>
         \E r \in Sockets \ {s} :
           deviceOf[r] = d /\ wsState[r] = "gone" /\ wsState'[r] = "closed"]_vars

(* A session frame is written to a socket that announced the participant it *)
(* is for, although devices come and go while the database is asked; what a *)
(* participant says comes back only in a session of a device with itself.   *)
GatewayFramesReachTheirSide ==
  \A p \in out :
    LET s == p[1]
        f == p[2]
    IN  "session" \in DOMAIN f =>
          LET x == sessions[f.session]
          IN  CASE f.type \in {"forward", "submit"} -> deviceOf[s] = x.host
                [] f.type \in {"accepted", "rejected"} -> deviceOf[s] = x.client
                [] OTHER -> /\ deviceOf[s] \in {x.host, x.client}
                            /\ deviceOf[s] = f.from => x.host = x.client

(* is_online follows the connections (signaling.gateway.ts:76, 99, 135): a  *)
(* device that is routed is online and one without any socket is not, since *)
(* the last registration over a socket that met no other call about the     *)
(* device, unless calls raced for the record since, a write failed, the     *)
(* server restarted or a REST call put a device online that has no socket.  *)
PresenceIsRecorded ==
  \A d \in Devices \ unsettled : ~Busy(d) =>
    /\ deviceIndex[d] # NoSocket => devices[d] = "online"
    /\ ~Present(d) => devices[d] # "online"

(* The comment of signaling.gateway.ts:266: when a participant ends the     *)
(* session, the other one is notified if it is connected.                   *)
OtherPeerIsNotified ==
  [][\A t \in Tasks :
       EndSession(t) =>
         LET s == task[t].socket
             row == sessions[task[t].session]
         IN  deviceOf[s] \in {row.host, row.client} =>
               \A r \in ConnectionOf(OtherSide(s, row)) :
                 wsState[r] = "open" => \E p \in out' : p[1] = r]_vars
=============================================================================
