-------------------------- MODULE SignalingProofs --------------------------
(***************************************************************************)
(* Theorems about Signaling, for any sets of sockets, devices, sessions    *)
(* and addresses.  They rest on those about the connection manager, which  *)
(* the signaling server implements underneath.                             *)
(***************************************************************************)
EXTENDS Signaling, ConnectionManagerProofs

(* A record has both participants, who may be one device, or none at all.    *)
TwoSides ==
  \A x \in SessionIds : Exists(x) =>
    \/ sessions[x].host = NoDevice /\ sessions[x].client = NoDevice
    \/ sessions[x].host \in Devices /\ sessions[x].client \in Devices

(* A lock is held by a session that has a record.                            *)
LocksExist == \A p \in Devices \X Devices : locks[p] # NoSession => Exists(locks[p])

StoreInv == SignalingTypeOK /\ TwoSides /\ LocksExist /\ LockFollowsPair

USE SignalingAssumption, ManagerAssumption

-----------------------------------------------------------------------------
(* The connection manager underneath *)

LEMMA ManagerStep == [SignalingNext]_signalingVars => [Next]_managerVars
<1> SUFFICES ASSUME [SignalingNext]_signalingVars PROVE [Next]_managerVars
  OBVIOUS
<1>1. ASSUME NEW s \in Sockets, HandleMessage(s) PROVE [Next]_managerVars
  BY <1>1 DEF HandleMessage, HandleDeviceRegister, RejectOffline, HandleConnectionRequest,
     HandlePasscodeSubmit, HandleConnectionAccepted, HandleConnectionRejected, HandleWebRTCRelay,
     SessionNotFound, HandleSessionStarted, HandleSessionEnded, HandleQualityReport, Next
<1>2. CASE ConnectionStep
  BY <1>2 DEF ConnectionStep, Next
<1>3. CASE ServerShutdown \/ ServerRestart
  BY <1>3 DEF ServerShutdown, ServerRestart, Next
<1>4. CASE UNCHANGED signalingVars
  BY <1>4 DEF signalingVars
<1> QED BY <1>1, <1>2, <1>3, <1>4 DEF SignalingNext

(* The signaling server implements the connection manager, whose theorems    *)
(* hold of it therefore: the handlers touch the maps through its methods     *)
(* only (ws/handler.ts, server.ts).                                          *)
THEOREM ManagerUnderneath == SignalingSpec => Spec
<1>1. SignalingInit => Init
  BY DEF SignalingInit
<1> QED BY <1>1, ManagerStep, PTL DEF SignalingSpec, Spec

(* So the server as a whole keeps the promise of the directory: whatever its *)
(* handlers do for a device, only a later claim or the end of its socket     *)
(* takes the route away (ws/handler.ts:87, ws/connection.ts:82-131).         *)
THEOREM SignalingDirectory == SignalingSpec => ImplementsDirectory
BY ManagerUnderneath, DirectoryRefinement

-----------------------------------------------------------------------------
(* Sending *)

LEMMA Sent ==
  ASSUME connections \subseteq Sockets, NEW d, NEW m,
         NEW p \in SendToDevice(d, m) \cup Deliver(d, m)
  PROVE  /\ p \in Sockets \X {m} /\ p[2] = m
         /\ p[1] \in connections /\ d \in Devices /\ deviceIndex[d] = p[1]
<1>1. p \in SendToDevice(d, m)
  BY DEF Deliver, Publish
<1> QED BY <1>1 DEF SendToDevice

LEMMA Reached ==
  ASSUME NEW d \in Devices, NEW m, NEW t \in connections, deviceIndex[d] = t, wsState[t] = "open"
  PROVE  <<t, m>> \in SendToDevice(d, m) /\ <<t, m>> \in Deliver(d, m)
  BY DEF SendToDevice, Deliver

LEMMA Frames ==
  ASSUME NEW x \in SessionIds
  PROVE  /\ \A type \in {"forward", "submit", "accepted", "rejected", "rate_limited", "not_found"} :
              About(type, x) \in Frame
         /\ \A s \in Sockets, type \in {"relay", "ended"} :
              SenderDevice(s) \in Devices => From(s, type, x) \in Frame
         /\ \A d \in Devices : [type |-> "offline", device |-> d] \in Frame
  BY DEF Frame, About, From

LEMMA Answered ==
  ASSUME NEW s \in Sockets, NEW m \in Frame
  PROVE  SendToSocket(s, m) \subseteq Sockets \X Frame
  BY DEF SendToSocket

LEMMA SentTypes ==
  ASSUME connections \subseteq Sockets, NEW d, NEW m \in Frame
  PROVE  Deliver(d, m) \subseteq Sockets \X Frame /\ SendToDevice(d, m) \subseteq Sockets \X Frame
  BY Sent

LEMMA Learned ==
  ASSUME connections \subseteq Sockets, learned \subseteq Devices \X SessionIds,
         NEW d, NEW x \in SessionIds, NEW m, NEW frames,
         frames = Deliver(d, m) \/ frames = SendToDevice(d, m), Tell(d, x, frames)
  PROVE  learned' \subseteq Devices \X SessionIds
<1>1. (\E f \in frames : f[1] \notin silent) => d \in Devices
  BY Sent
<1> QED BY <1>1 DEF Tell

-----------------------------------------------------------------------------
(* Records and locks *)

(* A merge leaves the participants of a record alone.                        *)
LEMMA UpdateKeeps ==
  ASSUME StoreInv, NEW x \in SessionIds, UpdateSession(x), locks' = locks
  PROVE  /\ sessions' \in [SessionIds -> Record \cup {NoSession}]
         /\ Exists(x)' /\ (Exists(x) => sessions' = sessions)
         /\ TwoSides' /\ LocksExist' /\ LockFollowsPair'
<1> DEFINE none == [host |-> NoDevice, client |-> NoDevice]
<1>0. sessions \in [SessionIds -> Record \cup {NoSession}]
  BY DEF StoreInv, SignalingTypeOK
<1>1. CASE Exists(x)
  <2>1. sessions' = sessions
    BY <1>0, <1>1 DEF UpdateSession, Stored
  <2> QED BY <1>0, <1>1, <2>1 DEF StoreInv, Exists, TwoSides, LocksExist, LockFollowsPair
<1>2. CASE ~Exists(x)
  <2>1. none \in Record /\ none.host = NoDevice /\ none.client = NoDevice
    BY DEF Record
  <2>2. sessions' = [sessions EXCEPT ![x] = none]
    BY <1>2 DEF UpdateSession, Stored
  <2> HIDE DEF none
  <2>3. /\ sessions' \in [SessionIds -> Record \cup {NoSession}]
        /\ sessions'[x] = none /\ \A y \in SessionIds \ {x} : sessions'[y] = sessions[y]
    BY <1>0, <2>1, <2>2
  <2>4. \A y : Exists(y)' <=> (Exists(y) \/ y = x)
    BY <2>1, <2>3 DEF Exists
  <2>5. TwoSides'
    BY <2>1, <2>3, <2>4 DEF StoreInv, TwoSides
  <2>6. LocksExist'
    BY <2>4 DEF StoreInv, LocksExist
  <2>7. \A h, c \in Devices : locks[h, c] # x
    BY <1>2 DEF StoreInv, LocksExist
  <2>8. LockFollowsPair'
    <3>1. ASSUME NEW h \in Devices, NEW c \in Devices, Exists(locks[h, c])'
          PROVE  sessions'[locks'[h, c]].host = h /\ sessions'[locks'[h, c]].client = c
      <4>1. Exists(locks[h, c]) /\ locks[h, c] # x
        BY <2>4, <2>7, <3>1
      <4>2. sessions[locks[h, c]].host = h /\ sessions[locks[h, c]].client = c
        BY <4>1 DEF StoreInv, LockFollowsPair
      <4>3. locks'[h, c] = locks[h, c] /\ locks[h, c] \in SessionIds \ {x}
        BY <4>1 DEF Exists
      <4> QED BY <2>3, <4>2, <4>3
    <3>2. ASSUME NEW y \in SessionIds, Exists(y)', sessions'[y].host # NoDevice
          PROVE  locks'[sessions'[y].host, sessions'[y].client] # NoSession
      BY <2>1, <2>3, <2>4, <3>2 DEF StoreInv, LockFollowsPair
    <3> QED BY <3>1, <3>2 DEF LockFollowsPair, Exists
  <2> QED BY <1>2, <2>3, <2>4, <2>5, <2>6, <2>8
<1> QED BY <1>1, <1>2

(* The first session of a pair takes its lock, a later one finds it held.    *)
LEMMA CreateKeeps ==
  ASSUME StoreInv, NEW x \in SessionIds, NEW h \in Devices, NEW c \in Devices,
         ~Exists(x), CreateSession(h, c, x)
  PROVE  /\ sessions' \in [SessionIds -> Record \cup {NoSession}]
         /\ locks' \in [Devices \X Devices -> SessionIds \cup {NoSession}]
         /\ Exists(x)' /\ sessions'[x].host = h /\ sessions'[x].client = c
         /\ TwoSides' /\ LocksExist' /\ LockFollowsPair'
<1> DEFINE pair == [host |-> h, client |-> c]
<1>0. /\ sessions \in [SessionIds -> Record \cup {NoSession}]
      /\ locks \in [Devices \X Devices -> SessionIds \cup {NoSession}]
  BY DEF StoreInv, SignalingTypeOK
<1>1. pair \in Record /\ pair.host = h /\ pair.client = c
  BY DEF Record
<1>2. sessions' = [sessions EXCEPT ![x] = pair]
  BY DEF CreateSession
<1> HIDE DEF pair
<1>3. /\ sessions' \in [SessionIds -> Record \cup {NoSession}]
      /\ sessions'[x] = pair /\ \A y \in SessionIds \ {x} : sessions'[y] = sessions[y]
  BY <1>0, <1>1, <1>2
<1>4. /\ locks' \in [Devices \X Devices -> SessionIds \cup {NoSession}]
      /\ \A p \in Devices \X Devices :
           locks'[p] = IF p = <<h, c>> /\ locks[p] = NoSession THEN x ELSE locks[p]
  BY <1>0 DEF CreateSession, AcquireLock
<1>5. \A y : Exists(y)' <=> (Exists(y) \/ y = x)
  BY <1>1, <1>3 DEF Exists
<1>6. TwoSides'
  BY <1>1, <1>3, <1>5 DEF StoreInv, TwoSides
<1>7. LocksExist'
  BY <1>4, <1>5 DEF StoreInv, LocksExist
<1>8. LockFollowsPair'
  <2>1. ASSUME NEW g \in Devices, NEW b \in Devices, Exists(locks[g, b])'
        PROVE  sessions'[locks'[g, b]].host = g /\ sessions'[locks'[g, b]].client = b
    <3>1. CASE g = h /\ b = c /\ locks[g, b] = NoSession
      BY <1>1, <1>3, <1>4, <3>1
    <3>2. CASE ~(g = h /\ b = c /\ locks[g, b] = NoSession)
      <4>1. locks'[g, b] = locks[g, b]
        BY <1>4, <3>2
      <4>2. locks[g, b] # NoSession
        BY <2>1, <4>1 DEF Exists
      <4>3. Exists(locks[g, b])
        BY <4>2 DEF StoreInv, LocksExist
      <4>4. sessions[locks[g, b]].host = g /\ sessions[locks[g, b]].client = b
        BY <4>3 DEF StoreInv, LockFollowsPair
      <4>5. locks[g, b] \in SessionIds \ {x}
        BY <4>3 DEF Exists
      <4> QED BY <1>3, <4>1, <4>4, <4>5
    <3> QED BY <3>1, <3>2
  <2>2. ASSUME NEW y \in SessionIds, Exists(y)', sessions'[y].host # NoDevice
        PROVE  locks'[sessions'[y].host, sessions'[y].client] # NoSession
    <3>1. CASE y = x
      BY <1>1, <1>3, <1>4, <3>1
    <3>2. CASE y # x
      <4>1. Exists(y) /\ sessions'[y] = sessions[y]
        BY <1>3, <1>5, <2>2, <3>2
      <4>2. sessions[y].host \in Devices /\ sessions[y].client \in Devices
        BY <2>2, <4>1 DEF StoreInv, TwoSides
      <4>3. locks[sessions[y].host, sessions[y].client] # NoSession
        BY <2>2, <4>1 DEF StoreInv, LockFollowsPair
      <4> QED BY <1>4, <4>1, <4>2, <4>3
    <3> QED BY <3>1, <3>2
  <2> QED BY <2>1, <2>2 DEF LockFollowsPair, Exists
<1> QED BY <1>1, <1>3, <1>4, <1>5, <1>6, <1>7, <1>8

LEMMA SameKeeps ==
  ASSUME StoreInv, UNCHANGED <<sessions, locks>>
  PROVE  TwoSides' /\ LocksExist' /\ LockFollowsPair'
  BY DEF StoreInv, TwoSides, LocksExist, LockFollowsPair, Exists

LEMMA StoreStep ==
  ASSUME StoreInv, TypeOK', [SignalingNext]_signalingVars
  PROVE  StoreInv'
<1>0. /\ online \subseteq Devices /\ subscribed \subseteq Devices
      /\ sessions \in [SessionIds -> Record \cup {NoSession}]
      /\ locks \in [Devices \X Devices -> SessionIds \cup {NoSession}]
      /\ rateLimits \in [Ips -> 0..MaxSubmissions]
      /\ learned \subseteq Devices \X SessionIds
      /\ out \subseteq Sockets \X Frame /\ connections \subseteq Sockets
  BY DEF StoreInv, SignalingTypeOK, TypeOK
<1>1. ASSUME NEW s \in Sockets, NEW d \in Devices, HandleDeviceRegister(s, d) PROVE StoreInv'
  BY <1>0, <1>1, SameKeeps DEF HandleDeviceRegister, StoreInv, SignalingTypeOK
<1>2. ASSUME NEW s \in Sockets, NEW h \in Devices, RejectOffline(s, h) PROVE StoreInv'
  <2>1. out' \subseteq Sockets \X Frame
    BY <1>2, Answered DEF RejectOffline, Frame
  <2> QED BY <1>0, <1>2, <2>1, SameKeeps DEF RejectOffline, storeVars, StoreInv, SignalingTypeOK
<1>3. ASSUME NEW s \in Sockets, NEW h \in Devices, NEW c \in Devices, NEW x \in SessionIds,
             HandleConnectionRequest(s, h, c, x)
      PROVE  StoreInv'
  <2>1. out' \subseteq Sockets \X Frame
    BY <1>0, <1>3, Frames, SentTypes DEF HandleConnectionRequest
  <2>2. learned' \subseteq Devices \X SessionIds
    BY <1>0, <1>3, Learned DEF HandleConnectionRequest
  <2>3. /\ sessions' \in [SessionIds -> Record \cup {NoSession}]
        /\ locks' \in [Devices \X Devices -> SessionIds \cup {NoSession}]
        /\ TwoSides' /\ LocksExist' /\ LockFollowsPair'
    BY <1>3, CreateKeeps DEF HandleConnectionRequest
  <2> QED BY <1>0, <1>3, <2>1, <2>2, <2>3 DEF HandleConnectionRequest, StoreInv, SignalingTypeOK
<1>4. ASSUME NEW s \in Sockets, NEW x \in SessionIds, HandlePasscodeSubmit(s, x) PROVE StoreInv'
  <2>1. out' \subseteq Sockets \X Frame
    BY <1>0, <1>4, Frames, Answered, SentTypes DEF HandlePasscodeSubmit
  <2>2. rateLimits' \in [Ips -> 0..MaxSubmissions]
    BY <1>0, <1>4 DEF HandlePasscodeSubmit
  <2> QED BY <1>0, <1>4, <2>1, <2>2, SameKeeps DEF HandlePasscodeSubmit, StoreInv, SignalingTypeOK
<1>5. ASSUME NEW s \in Sockets, NEW x \in SessionIds,
             HandleConnectionAccepted(s, x) \/ HandleConnectionRejected(s, x)
      PROVE  StoreInv'
  <2>1. out' \subseteq Sockets \X Frame
    BY <1>0, <1>5, Frames, SentTypes DEF HandleConnectionAccepted, HandleConnectionRejected
  <2>2. learned' \subseteq Devices \X SessionIds
    BY <1>0, <1>5, Learned DEF HandleConnectionAccepted, HandleConnectionRejected
  <2>3. UpdateSession(x) /\ UNCHANGED <<online, subscribed, locks, rateLimits>>
    BY <1>5 DEF HandleConnectionAccepted, HandleConnectionRejected
  <2> QED BY <1>0, <2>1, <2>2, <2>3, UpdateKeeps DEF StoreInv, SignalingTypeOK
<1>6. ASSUME NEW s \in Sockets, NEW x \in SessionIds, HandleWebRTCRelay(s, x) \/ SessionNotFound(s, x)
      PROVE  StoreInv'
  <2>1. UNCHANGED <<storeVars, learned>>
    BY <1>6 DEF HandleWebRTCRelay, SessionNotFound
  <2>2. out' \subseteq Sockets \X Frame
    <3>1. CASE HandleWebRTCRelay(s, x)
      <4>1. SenderDevice(s) \in Devices
        BY <3>1 DEF HandleWebRTCRelay, SenderDevice, StoreInv, SignalingTypeOK, TypeOK
      <4> QED BY <1>0, <3>1, <4>1, Frames, SentTypes DEF HandleWebRTCRelay
    <3>2. CASE SessionNotFound(s, x)
      BY <3>2, Frames, Answered DEF SessionNotFound
    <3> QED BY <1>6, <3>1, <3>2
  <2> QED BY <1>0, <2>1, <2>2, SameKeeps DEF storeVars, StoreInv, SignalingTypeOK
<1>7. ASSUME NEW s \in Sockets, NEW x \in SessionIds,
             HandleSessionStarted(s, x) \/ HandleSessionEnded(s, x) \/ HandleQualityReport(s, x)
      PROVE  StoreInv'
  <2>1. UpdateSession(x) /\ UNCHANGED <<online, subscribed, locks, rateLimits, learned>>
    BY <1>7 DEF HandleSessionStarted, HandleSessionEnded, HandleQualityReport
  <2>2. out' \subseteq Sockets \X Frame
    <3>1. SenderDevice(s) # NoDevice => SenderDevice(s) \in Devices
      BY DEF SenderDevice, StoreInv, SignalingTypeOK, TypeOK
    <3> QED BY <1>0, <1>7, <3>1, Frames, SentTypes
            DEF HandleSessionStarted, HandleSessionEnded, HandleQualityReport
  <2> QED BY <1>0, <2>1, <2>2, UpdateKeeps DEF StoreInv, SignalingTypeOK
<1>8. CASE ConnectionStep \/ ServerShutdown
  BY <1>0, <1>8, SameKeeps DEF ConnectionStep, ServerShutdown, storeVars, StoreInv, SignalingTypeOK
<1>9. CASE ServerRestart
  <2>1. /\ sessions' = NoSessions /\ locks' = NoLocks /\ rateLimits' = NoCounts
        /\ online' = {} /\ subscribed' = {} /\ out' = {} /\ learned' = learned
    BY <1>9 DEF ServerRestart
  <2>2. \A y : ~Exists(y)'
    BY <2>1 DEF Exists, NoSessions
  <2>3. TwoSides' /\ LockFollowsPair'
    BY <2>2 DEF TwoSides, LockFollowsPair
  <2>4. LocksExist'
    BY <2>1 DEF LocksExist, NoLocks
  <2> QED BY <1>0, <2>1, <2>3, <2>4 DEF StoreInv, SignalingTypeOK, NoSessions, NoLocks, NoCounts
<1>10. CASE UNCHANGED signalingVars
  BY <1>0, <1>10, SameKeeps DEF signalingVars, storeVars, StoreInv, SignalingTypeOK
<1> QED BY <1>1, <1>2, <1>3, <1>4, <1>5, <1>6, <1>7, <1>8, <1>9, <1>10
        DEF SignalingNext, HandleMessage

-----------------------------------------------------------------------------
(* Frames *)

(* What is written about session x to the device d of its record is where it *)
(* belongs, if d is where it comes from only in a session with itself.       *)
LEMMA FramesOf ==
  ASSUME Inv, NEW x \in SessionIds, NEW d, NEW frame,
         connections' = connections, deviceOf' = deviceOf, Exists(x)',
         out' = Deliver(d, frame) \/ out' = SendToDevice(d, frame), frame.session = x,
         \/ frame.type \in {"forward", "submit"} /\ sessions'[x].host = d
         \/ frame.type \in {"accepted", "rejected"} /\ sessions'[x].client = d
         \/ /\ frame.type \in {"relay", "ended"}
            /\ d \in Devices => d \in {sessions'[x].host, sessions'[x].client}
            /\ d = frame.from => sessions'[x].host = sessions'[x].client
  PROVE  FramesReachTheirSide'
<1>1. ASSUME NEW p \in out'
      PROVE  /\ p[2] = frame /\ p[1] \in connections
             /\ d \in Devices /\ (p[1] \in Rebinders \/ deviceOf[p[1]] = d)
  <2>1. p[2] = frame /\ p[1] \in connections /\ d \in Devices /\ deviceIndex[d] = p[1]
    BY <1>1, Sent DEF Inv, TypeOK
  <2> QED BY <2>1 DEF Inv, TypeOK, DanglingOnlyByRebinding
<1>2. ASSUME NEW p \in out', p[1] \notin Rebinders
      PROVE  LET y == sessions'[frame.session]
             IN  CASE frame.type \in {"forward", "submit"} -> deviceOf[p[1]] = y.host
                   [] frame.type \in {"accepted", "rejected"} -> deviceOf[p[1]] = y.client
                   [] OTHER -> /\ deviceOf[p[1]] \in {y.host, y.client}
                               /\ deviceOf[p[1]] = frame.from => y.host = y.client
  BY <1>1, <1>2
<1> QED BY <1>1, <1>2 DEF FramesReachTheirSide

LEMMA Silent ==
  ASSUME NEW s, NEW m, m.type \in {"offline", "rate_limited", "not_found"},
         out' = {} \/ out' = SendToSocket(s, m)
  PROVE  FramesReachTheirSide'
<1>1. ASSUME NEW p \in out' PROVE p[2] = m
  BY <1>1 DEF SendToSocket
<1> QED BY <1>1 DEF FramesReachTheirSide

LEMMA FramesStep ==
  ASSUME Inv, StoreInv, FramesReachTheirSide, [SignalingNext]_signalingVars
  PROVE  FramesReachTheirSide'
<1>1. ASSUME out' = {} PROVE FramesReachTheirSide'
  BY <1>1 DEF FramesReachTheirSide
<1>2. ASSUME NEW s \in Sockets, NEW h \in Devices, RejectOffline(s, h)
      PROVE  FramesReachTheirSide'
  BY <1>2, Silent DEF RejectOffline
<1>3. ASSUME NEW s \in Sockets, NEW h \in Devices, NEW c \in Devices, NEW x \in SessionIds,
             HandleConnectionRequest(s, h, c, x)
      PROVE  FramesReachTheirSide'
  <2>1. Exists(x)' /\ sessions'[x].host = h
    BY <1>3, CreateKeeps DEF HandleConnectionRequest
  <2> QED BY <1>3, <2>1, FramesOf DEF HandleConnectionRequest, About, managerVars
<1>4. ASSUME NEW s \in Sockets, NEW x \in SessionIds,
             HandlePasscodeSubmit(s, x) \/ SessionNotFound(s, x)
      PROVE  FramesReachTheirSide'
  <2>1. \/ out' = SendToSocket(s, About("rate_limited", x))
        \/ out' = SendToSocket(s, About("not_found", x))
        \/ /\ Exists(x) /\ UNCHANGED <<managerVars, sessions>>
           /\ out' = Deliver(sessions[x].host, About("submit", x))
    BY <1>4 DEF HandlePasscodeSubmit, SessionNotFound
  <2>2. CASE /\ Exists(x) /\ UNCHANGED <<managerVars, sessions>>
             /\ out' = Deliver(sessions[x].host, About("submit", x))
    <3>1. Exists(x)'
      BY <2>2 DEF Exists
    <3> QED BY <2>2, <3>1, FramesOf DEF About, managerVars
  <2> QED BY <2>1, <2>2, Silent DEF About
<1>5. ASSUME NEW s \in Sockets, NEW x \in SessionIds,
             HandleConnectionAccepted(s, x) \/ HandleConnectionRejected(s, x)
      PROVE  FramesReachTheirSide'
  <2>1. Exists(x)' /\ sessions' = sessions /\ UNCHANGED managerVars
    BY <1>5, UpdateKeeps DEF HandleConnectionAccepted, HandleConnectionRejected
  <2>2. \/ out' = Deliver(sessions[x].client, About("accepted", x))
        \/ out' = SendToDevice(sessions[x].client, About("rejected", x))
    BY <1>5 DEF HandleConnectionAccepted, HandleConnectionRejected
  <2> QED BY <2>1, <2>2, FramesOf DEF About, managerVars
(* The other side is another device than the one that speaks, unless the     *)
(* session has but one.                                                      *)
<1>6. ASSUME NEW s \in Sockets, NEW x \in SessionIds, Exists(x), SenderDevice(s) # NoDevice,
             sessions' = sessions, UNCHANGED managerVars, NEW type \in {"relay", "ended"},
             \/ out' = Deliver(OtherSide(s, x), From(s, type, x))
             \/ out' = SendToDevice(OtherSide(s, x), From(s, type, x))
      PROVE  FramesReachTheirSide'
  <2>1. Exists(x)'
    BY <1>6 DEF Exists
  <2>2. /\ From(s, type, x).session = x /\ From(s, type, x).type = type
        /\ From(s, type, x).from = SenderDevice(s)
    BY DEF From
  <2>3. /\ OtherSide(s, x) \in {sessions'[x].host, sessions'[x].client}
        /\ OtherSide(s, x) = SenderDevice(s) => sessions'[x].host = sessions'[x].client
    BY <1>6 DEF OtherSide
  <2> HIDE DEF From
  <2> QED BY <1>6, <2>1, <2>2, <2>3, FramesOf DEF managerVars
<1>7. ASSUME NEW s \in Sockets, NEW x \in SessionIds, HandleWebRTCRelay(s, x)
      PROVE  FramesReachTheirSide'
  BY <1>6, <1>7 DEF HandleWebRTCRelay, storeVars
<1>8. ASSUME NEW s \in Sockets, NEW x \in SessionIds, HandleSessionEnded(s, x)
      PROVE  FramesReachTheirSide'
  <2>1. CASE Exists(x) /\ SenderDevice(s) # NoDevice
    <3>1. sessions' = sessions
      BY <1>8, <2>1, UpdateKeeps DEF HandleSessionEnded
    <3> QED BY <1>6, <1>8, <2>1, <3>1 DEF HandleSessionEnded
  <2> QED BY <1>1, <1>8, <2>1 DEF HandleSessionEnded
<1>9. CASE UNCHANGED signalingVars
  BY <1>9 DEF signalingVars, managerVars, storeVars, FramesReachTheirSide, Exists
<1> QED BY <1>1, <1>2, <1>3, <1>4, <1>5, <1>7, <1>8, <1>9
        DEF SignalingNext, HandleMessage, HandleDeviceRegister, HandleSessionStarted,
            HandleQualityReport, ConnectionStep, ServerShutdown, ServerRestart

(* An open socket of the device spoken to is in both maps, so it is written  *)
(* to.                                                                       *)
LEMMA LossStep ==
  ASSUME Inv, StoreInv, NEW s \in Sockets, NEW t \in Sockets, NEW x \in SessionIds,
         NEW d \in Devices, Speaking(t, d), PassedOn(s, x, d)
  PROVE  \E p \in out' : p[1] = t
<1>1. wsState[t] = "open" /\ deviceOf[t] = d
  BY DEF Speaking
<1>2. t \in connections /\ deviceIndex[d] = t
  BY <1>1 DEF Inv, NoOrphan, IndexAgrees
<1>3. ASSUME NEW m, out' = Deliver(d, m) \/ out' = SendToDevice(d, m)
      PROVE  \E p \in out' : p[1] = t
  <2>1. <<t, m>> \in out'
    BY <1>1, <1>2, <1>3, Reached
  <2> QED BY <2>1
<1>4. ASSUME NEW c \in Devices, HandleConnectionRequest(s, d, c, x)
      PROVE  \E p \in out' : p[1] = t
  BY <1>3, <1>4 DEF HandleConnectionRequest
<1>5. CASE /\ Exists(x) /\ d = sessions[x].host
           /\ rateLimits[IpOf[s]] < PASSCODE_RATE_LIMIT /\ HandlePasscodeSubmit(s, x)
  <2>1. IpOf[s] \in Ips /\ rateLimits \in [Ips -> 0..MaxSubmissions]
    BY DEF StoreInv, SignalingTypeOK
  <2>2. rateLimits'[IpOf[s]] <= PASSCODE_RATE_LIMIT
    BY <1>5, <2>1 DEF HandlePasscodeSubmit
  <2>3. ~(rateLimits'[IpOf[s]] > PASSCODE_RATE_LIMIT)
    BY <2>1, <2>2, <1>5 DEF HandlePasscodeSubmit
  <2>4. out' = Deliver(d, About("submit", x))
    BY <1>5, <2>3 DEF HandlePasscodeSubmit
  <2> QED BY <1>3, <2>4
<1>6. CASE /\ Exists(x) /\ d = sessions[x].client
           /\ HandleConnectionAccepted(s, x) \/ HandleConnectionRejected(s, x)
  BY <1>3, <1>6 DEF HandleConnectionAccepted, HandleConnectionRejected
<1>7. CASE /\ Exists(x) /\ SenderDevice(s) # NoDevice /\ d = OtherSide(s, x)
           /\ HandleWebRTCRelay(s, x) \/ HandleSessionEnded(s, x)
  BY <1>3, <1>7 DEF HandleWebRTCRelay, HandleSessionEnded
<1> QED BY <1>4, <1>5, <1>6, <1>7 DEF PassedOn

-----------------------------------------------------------------------------
(* Theorems *)

(* A record keeps its two participants whatever update merges into it, and a *)
(* lock that is held is held by a session (adapter.ts, manager.ts).          *)
THEOREM SignalingInvariance == SignalingSpec => []StoreInv
<1>1. SignalingInit => StoreInv
  BY DEF SignalingInit, Init, StoreInv, SignalingTypeOK, TypeOK, TwoSides, LocksExist,
     LockFollowsPair, Exists, NoSessions, NoLocks, NoCounts
<1>2. StoreInv /\ TypeOK' /\ [SignalingNext]_signalingVars => StoreInv'
  BY StoreStep
<1> QED BY <1>1, <1>2, ManagerUnderneath, Typing, PTL DEF SignalingSpec

(* Records, locks, counts and frames keep their types.                       *)
THEOREM SignalingTyping == SignalingSpec => []SignalingTypeOK
<1>1. StoreInv => SignalingTypeOK
  BY DEF StoreInv
<1> QED BY <1>1, SignalingInvariance, PTL

(* The lock of a pair is taken by its first session and is never held by a   *)
(* session of another pair (manager.ts:40-44).                               *)
THEOREM LockIsOfPair == SignalingSpec => []LockFollowsPair
<1>1. StoreInv => LockFollowsPair
  BY DEF StoreInv
<1> QED BY <1>1, SignalingInvariance, PTL

(* Each frame about a session goes to the participant it is meant for, by a  *)
(* socket that announced this device only, and a relay or an end comes back  *)
(* to its sender only in a session of a device with itself                   *)
(* (ws/handler.ts:163-362).                                                  *)
THEOREM SignalingFrames == SignalingSpec => []FramesReachTheirSide
<1>1. SignalingInit => FramesReachTheirSide
  BY DEF SignalingInit, FramesReachTheirSide
<1>2. Inv /\ StoreInv /\ FramesReachTheirSide /\ [SignalingNext]_signalingVars
        => FramesReachTheirSide'
  BY FramesStep
<1> QED BY <1>1, <1>2, ManagerUnderneath, Invariance, SignalingInvariance, PTL DEF SignalingSpec

(* A request, a passcode within the limit, an answer, a relay and the end of *)
(* a session are written to every open socket of the device they are for, at *)
(* the one step that passes them on, whatever sockets the device went        *)
(* through before (ws/handler.ts:198, 232, 258, 279, 298, 347).              *)
THEOREM MessagesAreWritten == SignalingSpec => NothingIsLost
<1>1. Inv /\ StoreInv /\ [SignalingNext]_signalingVars =>
        [\A t \in Sockets, d \in Devices : Speaking(t, d) =>
           \A s \in Sockets, x \in SessionIds :
             PassedOn(s, x, d) => \E p \in out' : p[1] = t]_signalingVars
  BY LossStep
<1> QED BY <1>1, ManagerUnderneath, Invariance, SignalingInvariance, PTL
        DEF SignalingSpec, NothingIsLost
=============================================================================
