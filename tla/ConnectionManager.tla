------------------------- MODULE ConnectionManager -------------------------
(***************************************************************************)
(* The ConnectionManager of the signaling server (ws/connection.ts) with   *)
(* the WebSocket events server.ts feeds it: which sockets are tracked,     *)
(* which device id each one announced, and the index that routes a message *)
(* for a device to a socket.                                               *)
(*                                                                         *)
(* Every method is synchronous, so a call is one atomic step.  What        *)
(* interleaves is the order of the events: the close event of a socket     *)
(* comes some time after the socket stopped being OPEN, and by then its    *)
(* device may have registered on another socket.                           *)
(*                                                                         *)
(* A Sockets value is one WebSocket object and the uuid it gets, so it is  *)
(* never used twice.  wsState is the socket as the server sees it:         *)
(*   "new"     not connected yet                                           *)
(*   "open"    readyState OPEN                                             *)
(*   "closing" the server called close(); frames of the peer still arrive  *)
(*   "gone"    the peer left or the server terminated it; only the close   *)
(*             event is still to come                                      *)
(*   "closed"  the close event was handled                                 *)
(***************************************************************************)

CONSTANTS
  Sockets, Devices,
  NoSocket, NoDevice,   \* "no entry" in deviceIndex; deviceId: null
  Rebinders             \* the sockets whose peer may announce a second device id

ASSUME ManagerAssumption ==
  /\ NoSocket \notin Sockets
  /\ NoDevice \notin Devices
  /\ Rebinders \subseteq Sockets

VARIABLES
  wsState,      \* [Sockets -> the five states above]
  connections,  \* the keys of the connections map
  deviceOf,     \* conn.deviceId
  isAlive,      \* conn.isAlive: a ping is answered, or none is outstanding
  deviceIndex,  \* [Devices -> Sockets \cup {NoSocket}]
  silent,       \* sockets whose peer vanished without closing (half-open TCP)
  serverUp      \* FALSE from the shutdown signal to the end of the process

socketVars == <<wsState, silent, serverUp>>
mapVars == <<connections, deviceOf, isAlive, deviceIndex>>
managerVars == <<wsState, connections, deviceOf, isAlive, deviceIndex, silent, serverUp>>

TypeOK ==
  /\ wsState \in [Sockets -> {"new", "open", "closing", "gone", "closed"}]
  /\ connections \subseteq Sockets
  /\ deviceOf \in [Sockets -> Devices \cup {NoDevice}]
  /\ isAlive \in [Sockets -> BOOLEAN]
  /\ deviceIndex \in [Devices -> Sockets \cup {NoSocket}]
  /\ silent \subseteq Sockets
  /\ serverUp \in BOOLEAN

Init ==
  /\ wsState = [s \in Sockets |-> "new"]
  /\ connections = {}
  /\ deviceOf = [s \in Sockets |-> NoDevice]
  /\ isAlive = [s \in Sockets |-> TRUE]
  /\ deviceIndex = [d \in Devices |-> NoSocket]
  /\ silent = {}
  /\ serverUp = TRUE

-----------------------------------------------------------------------------
(* Lookups *)

(* A frame of the peer can still reach the message handler. *)
Receiving(s) == wsState[s] \in {"open", "closing"} /\ s \notin silent

(* sendToSocket: the frames <<socket, message>> it writes. *)
SendToSocket(s, m) == {p \in {<<s, m>>} : wsState[s] = "open"}

(* sendToDevice; it returned false when the result is empty. *)
SendToDevice(d, m) ==
  {<<s, m>> : s \in {t \in connections : /\ d \in Devices
                                         /\ deviceIndex[d] = t
                                         /\ wsState[t] = "open"}}

IsDeviceConnected(d) ==
  \E s \in connections : deviceIndex[d] = s /\ wsState[s] = "open"

(* getConnectionByWs(ws)?.deviceId *)
SenderDevice(s) == IF s \in connections THEN deviceOf[s] ELSE NoDevice

-----------------------------------------------------------------------------
(* Operations *)

HandleNewConnection(s) ==
  /\ serverUp
  /\ wsState[s] = "new"
  /\ wsState' = [wsState EXCEPT ![s] = "open"]
  /\ connections' = connections \cup {s}
  /\ deviceOf' = [deviceOf EXCEPT ![s] = NoDevice]
  /\ isAlive' = [isAlive EXCEPT ![s] = TRUE]
  /\ UNCHANGED <<deviceIndex, silent, serverUp>>

(* Four slips in registerDevice and handleDisconnection, to test that the     *)
(* properties below notice them.                                             *)

(* closes the superseded socket but leaves it in the map *)
RegisterDeviceKeepingOld(s, d) ==
  LET old == {deviceIndex[d]} \ {s, NoSocket}
  IN  /\ Receiving(s)
      /\ s \in connections
      /\ s \in Rebinders \/ deviceOf[s] \in {NoDevice, d}
      /\ wsState' = [t \in Sockets |-> IF t \in old \cap connections /\ wsState[t] = "open"
                                       THEN "closing" ELSE wsState[t]]
      /\ deviceOf' = [deviceOf EXCEPT ![s] = d]
      /\ deviceIndex' = [deviceIndex EXCEPT ![d] = s]
      /\ UNCHANGED <<connections, isAlive, silent, serverUp>>

(* takes the superseded socket out of the map without closing it *)
RegisterDeviceWithoutClose(s, d) ==
  LET old == {deviceIndex[d]} \ {s, NoSocket}
  IN  /\ Receiving(s)
      /\ s \in connections
      /\ s \in Rebinders \/ deviceOf[s] \in {NoDevice, d}
      /\ connections' = connections \ old
      /\ deviceOf' = [deviceOf EXCEPT ![s] = d]
      /\ deviceIndex' = [deviceIndex EXCEPT ![d] = s]
      /\ UNCHANGED <<wsState, isAlive, silent, serverUp>>

(* clears the index for the device id although the map let go of the socket *)
HandleDisconnectionByDevice(s) ==
  /\ wsState[s] = "gone"
  /\ wsState' = [wsState EXCEPT ![s] = "closed"]
  /\ deviceIndex' = [d \in Devices |-> IF deviceOf[s] = d THEN NoSocket
                                       ELSE deviceIndex[d]]
  /\ connections' = connections \ {s}
  /\ UNCHANGED <<deviceOf, isAlive, silent, serverUp>>

(* writes the null of deviceId where the index has no entry *)
HandleDisconnectionToNull(s) ==
  /\ wsState[s] = "gone"
  /\ wsState' = [wsState EXCEPT ![s] = "closed"]
  /\ deviceIndex' = [d \in Devices |-> IF s \in connections /\ deviceOf[s] = d
                                       THEN NoDevice ELSE deviceIndex[d]]
  /\ connections' = connections \ {s}
  /\ UNCHANGED <<deviceOf, isAlive, silent, serverUp>>

(* registerDevice.  A socket the map no longer holds is turned away. *)
RegisterDevice(s, d) ==
  LET old == {deviceIndex[d]} \ {s, NoSocket}
  IN  /\ Receiving(s)
      /\ s \in connections
      /\ s \in Rebinders \/ deviceOf[s] \in {NoDevice, d}
      /\ wsState' = [t \in Sockets |->
                       IF t \in old \cap connections /\ wsState[t] = "open"
                       THEN "closing" ELSE wsState[t]]
      /\ connections' = connections \ old
      /\ deviceOf' = [deviceOf EXCEPT ![s] = d]
      /\ deviceIndex' = [deviceIndex EXCEPT ![d] = s]
      /\ UNCHANGED <<isAlive, silent, serverUp>>

(* The close event: handleDisconnection, found through wsIndex. *)
HandleDisconnection(s) ==
  /\ wsState[s] = "gone"
  /\ wsState' = [wsState EXCEPT ![s] = "closed"]
  /\ deviceIndex' = [d \in Devices |-> IF s \in connections /\ deviceOf[s] = d
                                       THEN NoSocket ELSE deviceIndex[d]]
  /\ connections' = connections \ {s}
  /\ UNCHANGED <<deviceOf, isAlive, silent, serverUp>>

(* The pong listener; a ping is outstanding exactly when isAlive is false. *)
Pong(s) ==
  /\ Receiving(s)
  /\ s \in connections
  /\ ~isAlive[s]
  /\ isAlive' = [isAlive EXCEPT ![s] = TRUE]
  /\ UNCHANGED <<socketVars, connections, deviceOf, deviceIndex>>

(* Two slips in checkHeartbeats: the flag is not cleared before the ping; the *)
(* index keeps the entries of the sockets that were terminated.              *)
CheckHeartbeatsWithoutReset ==
  LET dead == {s \in connections : ~isAlive[s]}
  IN  /\ serverUp
      /\ wsState' = [s \in Sockets |-> IF s \in dead THEN "gone" ELSE wsState[s]]
      /\ deviceIndex' = [d \in Devices |-> IF \E s \in dead : deviceOf[s] = d
                                           THEN NoSocket ELSE deviceIndex[d]]
      /\ connections' = connections \ dead
      /\ UNCHANGED <<deviceOf, isAlive, silent, serverUp>>

CheckHeartbeatsKeepingIndex ==
  LET dead == {s \in connections : ~isAlive[s]}
  IN  /\ serverUp
      /\ wsState' = [s \in Sockets |-> IF s \in dead THEN "gone" ELSE wsState[s]]
      /\ connections' = connections \ dead
      /\ isAlive' = [s \in Sockets |-> IF s \in connections THEN FALSE ELSE isAlive[s]]
      /\ UNCHANGED <<deviceOf, deviceIndex, silent, serverUp>>

(* checkHeartbeats, every 30 s: terminate who did not answer, ping the rest. *)
CheckHeartbeats ==
  LET dead == {s \in connections : ~isAlive[s]}
  IN  /\ serverUp
      /\ wsState' = [s \in Sockets |-> IF s \in dead THEN "gone" ELSE wsState[s]]
      /\ deviceIndex' = [d \in Devices |-> IF \E s \in dead : deviceOf[s] = d
                                           THEN NoSocket ELSE deviceIndex[d]]
      /\ connections' = connections \ dead
      /\ isAlive' = [s \in Sockets |-> IF s \in connections THEN FALSE ELSE isAlive[s]]
      /\ UNCHANGED <<deviceOf, silent, serverUp>>

(* SIGTERM / SIGINT: no more sweeps, no new sockets, disconnectAll(1001). *)
Shutdown ==
  /\ serverUp
  /\ serverUp' = FALSE
  /\ wsState' = [s \in Sockets |-> IF s \in connections /\ wsState[s] = "open"
                                   THEN "closing" ELSE wsState[s]]
  /\ connections' = {}
  /\ deviceIndex' = [d \in Devices |-> NoSocket]
  /\ UNCHANGED <<deviceOf, isAlive, silent>>

-----------------------------------------------------------------------------
(* The world outside *)

(* The peer's close frame, a TCP error, or the close timeout of ws.  ws has  *)
(* left OPEN, and queues the close event.                                    *)
PeerGone(s) ==
  /\ wsState[s] \in {"open", "closing"}
  /\ wsState' = [wsState EXCEPT ![s] = "gone"]
  /\ UNCHANGED <<mapVars, silent, serverUp>>

(* The peer loses its network: the server is told nothing. *)
GoSilent(s) ==
  /\ Receiving(s)
  /\ silent' = silent \cup {s}
  /\ UNCHANGED <<mapVars, wsState, serverUp>>

(* A crash, or the exit that ends a shutdown; a new process starts empty. *)
Restart ==
  /\ ~serverUp \/ \E s \in Sockets : wsState[s] \notin {"new", "closed"}
  /\ serverUp' = TRUE
  /\ wsState' = [s \in Sockets |-> IF wsState[s] = "new" THEN "new" ELSE "closed"]
  /\ connections' = {}
  /\ deviceIndex' = [d \in Devices |-> NoSocket]
  /\ UNCHANGED <<deviceOf, isAlive, silent>>

Next ==
  \/ \E s \in Sockets : HandleNewConnection(s)
  \/ \E s \in Sockets, d \in Devices : RegisterDevice(s, d)
  \/ \E s \in Sockets : HandleDisconnection(s)
  \/ \E s \in Sockets : Pong(s)
  \/ CheckHeartbeats
  \/ Shutdown
  \/ \E s \in Sockets : PeerGone(s)
  \/ \E s \in Sockets : GoSilent(s)
  \/ Restart

Spec == Init /\ [][Next]_managerVars

(* The interval timer keeps firing, and ws emits the close event of a socket *)
(* it gave up.  Nothing is assumed of the peers.                             *)
FairSpec ==
  /\ Spec
  /\ WF_managerVars(CheckHeartbeats)
  /\ \A s \in Sockets : WF_managerVars(HandleDisconnection(s))

-----------------------------------------------------------------------------
(* Properties *)

(* A tracked socket that announced a device is the one the index names for  *)
(* that device.  Hence a device has one tracked socket at most, and dropping *)
(* a tracked socket by its deviceId (connection.ts:108, 183) never takes the *)
(* entry away from another one.                                              *)
IndexAgrees ==
  \A s \in connections : deviceOf[s] # NoDevice => deviceIndex[deviceOf[s]] = s

(* Every socket the server still holds OPEN is in the map, so the sweeps and *)
(* the shutdown reach it: registerDevice never forgets a socket it evicts.   *)
NoOrphan ==
  \A s \in Sockets : wsState[s] = "open" => s \in connections

(* An index entry names a tracked socket that announced this very device,    *)
(* unless the socket announced another device later: registerDevice leaves   *)
(* the entry of the first id behind (connection.ts:94).                      *)
DanglingOnlyByRebinding ==
  \A d \in Devices :
    deviceIndex[d] \in Sockets \ Rebinders =>
      deviceIndex[d] \in connections /\ deviceOf[deviceIndex[d]] = d

(* A route is stable: as long as the socket that owns a device is tracked,   *)
(* nothing (the late close of an older socket least of all) moves the entry. *)
OwnerKeepsRoute ==
  [][\A d \in Devices :
       deviceIndex[d] \in connections' => deviceIndex'[d] = deviceIndex[d]]_managerVars

(* A peer that vanished without a word is dropped by the second sweep after  *)
(* (connection.ts:175): its entry does not outlive it for ever.              *)
SilentPeersAreDropped ==
  \A s \in Sockets : s \in silent ~> s \notin connections

(* The maps implement the directory: messages go where the latest claim of   *)
(* the device says, and an evicted socket never gets the device back.        *)
Directory == INSTANCE DeviceDirectory WITH
  owner <- [d \in Devices |-> IF deviceIndex[d] \in connections
                              THEN deviceIndex[d] ELSE NoSocket],
  status <- [s \in Sockets |-> IF wsState[s] = "new" THEN "fresh"
                               ELSE IF s \in connections THEN "live" ELSE "gone"]

ImplementsDirectory == Directory!DirSpec
=============================================================================
