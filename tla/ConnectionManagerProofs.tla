---------------------- MODULE ConnectionManagerProofs ----------------------
(***************************************************************************)
(* Proofs about ConnectionManager, for any sets of sockets, devices and    *)
(* rebinders.                                                              *)
(*                                                                         *)
(* IndexAgrees is not inductive on its own: a new socket must not be known *)
(* to the maps before it connects.  Inv adds that, and the other state     *)
(* invariants are conjuncts of it or proved beside it.                     *)
(***************************************************************************)
EXTENDS ConnectionManager, TLAPS

(* Neither map holds a socket that has not connected yet. *)
NewIsUnknown ==
  \A s \in Sockets : wsState[s] = "new" =>
    s \notin connections /\ \A d \in Devices : deviceIndex[d] # s

Inv == TypeOK /\ NewIsUnknown /\ IndexAgrees /\ NoOrphan /\ DanglingOnlyByRebinding

-----------------------------------------------------------------------------
(* Every variable keeps its type in every reachable state. *)
THEOREM Typing == Spec => []TypeOK
<1>1. Init => TypeOK
  BY DEF Init, TypeOK
<1>2. TypeOK /\ [Next]_managerVars => TypeOK'
  <2> SUFFICES ASSUME TypeOK, [Next]_managerVars PROVE TypeOK'
    OBVIOUS
  <2> USE ManagerAssumption DEF TypeOK
  <2>1. ASSUME NEW s \in Sockets, HandleNewConnection(s) PROVE TypeOK'
    BY <2>1 DEF HandleNewConnection
  <2>2. ASSUME NEW s \in Sockets, NEW d \in Devices, RegisterDevice(s, d)
        PROVE  TypeOK'
    BY <2>2 DEF RegisterDevice
  <2>3. ASSUME NEW s \in Sockets, HandleDisconnection(s) PROVE TypeOK'
    BY <2>3 DEF HandleDisconnection
  <2>4. ASSUME NEW s \in Sockets, Pong(s) PROVE TypeOK'
    BY <2>4 DEF Pong, socketVars
  <2>5. CASE CheckHeartbeats
    BY <2>5 DEF CheckHeartbeats
  <2>6. CASE Shutdown
    BY <2>6 DEF Shutdown
  <2>7. ASSUME NEW s \in Sockets, PeerGone(s) PROVE TypeOK'
    BY <2>7 DEF PeerGone, mapVars
  <2>8. ASSUME NEW s \in Sockets, GoSilent(s) PROVE TypeOK'
    BY <2>8 DEF GoSilent, mapVars
  <2>9. CASE Restart
    BY <2>9 DEF Restart
  <2>10. CASE UNCHANGED managerVars
    BY <2>10 DEF managerVars
  <2> QED
    BY <2>1, <2>2, <2>3, <2>4, <2>5, <2>6, <2>7, <2>8, <2>9, <2>10 DEF Next
<1> QED
  BY <1>1, <1>2, PTL DEF Spec

-----------------------------------------------------------------------------
(* The inductive step, one lemma per action that touches the maps: each      *)
(* keeps every conjunct of Inv other than TypeOK.                            *)
MapsAgree == NewIsUnknown /\ IndexAgrees /\ NoOrphan /\ DanglingOnlyByRebinding

LEMMA NewConnectionKeepsMaps ==
  ASSUME Inv, NEW s \in Sockets, HandleNewConnection(s)
  PROVE  MapsAgree'
<1> USE ManagerAssumption DEF Inv, TypeOK, HandleNewConnection
<1>1. s \notin connections /\ \A d \in Devices : deviceIndex[d] # s
  BY DEF NewIsUnknown
<1>2. NewIsUnknown'
  BY DEF NewIsUnknown
<1>3. IndexAgrees'
  BY <1>1 DEF IndexAgrees
<1>4. NoOrphan'
  BY DEF NoOrphan
<1>5. DanglingOnlyByRebinding'
  BY <1>1 DEF DanglingOnlyByRebinding
<1> QED
  BY <1>2, <1>3, <1>4, <1>5 DEF MapsAgree

(* The eviction of the older socket is what keeps IndexAgrees: a tracked     *)
(* socket that announced d is the one deviceIndex[d] named before the step.  *)
LEMMA RegisterKeepsMaps ==
  ASSUME Inv, NEW s \in Sockets, NEW d \in Devices, RegisterDevice(s, d)
  PROVE  MapsAgree'
<1> USE ManagerAssumption DEF Inv, TypeOK, RegisterDevice
<1> DEFINE old == {deviceIndex[d]} \ {s, NoSocket}
<1>1. wsState[s] # "new"
  BY DEF NewIsUnknown
<1>2. NewIsUnknown'
  BY <1>1 DEF NewIsUnknown
<1>3. IndexAgrees'
  <2> SUFFICES ASSUME NEW t \in connections', deviceOf'[t] # NoDevice
               PROVE  deviceIndex'[deviceOf'[t]] = t
    BY DEF IndexAgrees
  <2>1. CASE t = s
    BY <2>1
  <2>2. CASE t # s
    <3>1. t \in connections /\ t \notin old /\ deviceOf'[t] = deviceOf[t]
      BY <2>2
    <3>2. deviceIndex[deviceOf[t]] = t
      BY <3>1 DEF IndexAgrees
    <3>3. deviceOf[t] # d
      BY <2>2, <3>1, <3>2
    <3> QED
      BY <3>1, <3>2, <3>3
  <2> QED
    BY <2>1, <2>2
<1>4. NoOrphan'
  BY DEF NoOrphan
<1>5. DanglingOnlyByRebinding'
  <2> SUFFICES ASSUME NEW e \in Devices, deviceIndex'[e] \in Sockets \ Rebinders
               PROVE  /\ deviceIndex'[e] \in connections'
                      /\ deviceOf'[deviceIndex'[e]] = e
    BY DEF DanglingOnlyByRebinding
  <2>1. CASE e = d
    BY <2>1
  <2>2. CASE e # d
    <3>1. deviceIndex'[e] = deviceIndex[e]
      BY <2>2
    <3>2. deviceIndex[e] \in connections /\ deviceOf[deviceIndex[e]] = e
      BY <3>1 DEF DanglingOnlyByRebinding
    <3>3. deviceIndex[e] # s
      BY <3>1, <3>2, <2>2
    <3>4. deviceIndex[e] \notin old
      <4>1. SUFFICES ASSUME deviceIndex[e] = deviceIndex[d] PROVE FALSE
        OBVIOUS
      <4>2. deviceOf[deviceIndex[d]] = d
        BY <4>1, <3>1 DEF DanglingOnlyByRebinding
      <4> QED
        BY <4>1, <4>2, <3>2, <2>2
    <3> QED
      BY <3>1, <3>2, <3>3, <3>4
  <2> QED
    BY <2>1, <2>2
<1> QED
  BY <1>2, <1>3, <1>4, <1>5 DEF MapsAgree

(* A close event removes the entry of the socket itself, and of no other.    *)
LEMMA DisconnectionKeepsMaps ==
  ASSUME Inv, NEW s \in Sockets, HandleDisconnection(s)
  PROVE  MapsAgree'
<1> USE ManagerAssumption DEF Inv, TypeOK, HandleDisconnection
<1>1. NewIsUnknown'
  BY DEF NewIsUnknown
<1>2. IndexAgrees'
  BY DEF IndexAgrees
<1>3. NoOrphan'
  BY DEF NoOrphan
<1>4. DanglingOnlyByRebinding'
  BY DEF DanglingOnlyByRebinding
<1> QED
  BY <1>1, <1>2, <1>3, <1>4 DEF MapsAgree

(* A sweep takes the sockets it terminates out of both maps together.        *)
LEMMA SweepKeepsMaps ==
  ASSUME Inv, CheckHeartbeats
  PROVE  MapsAgree'
<1> USE ManagerAssumption DEF Inv, TypeOK, CheckHeartbeats
<1>1. NewIsUnknown'
  BY DEF NewIsUnknown
<1>2. IndexAgrees'
  BY DEF IndexAgrees
<1>3. NoOrphan'
  BY DEF NoOrphan
<1>4. DanglingOnlyByRebinding'
  BY DEF DanglingOnlyByRebinding
<1> QED
  BY <1>1, <1>2, <1>3, <1>4 DEF MapsAgree

(* A shutdown and a restart empty both maps.                                 *)
LEMMA ClearingKeepsMaps ==
  ASSUME Inv, Shutdown \/ Restart
  PROVE  MapsAgree'
<1> USE ManagerAssumption DEF Inv, TypeOK, Shutdown, Restart
<1>1. NewIsUnknown'
  BY DEF NewIsUnknown
<1>2. IndexAgrees'
  BY DEF IndexAgrees
<1>3. NoOrphan'
  BY DEF NoOrphan
<1>4. DanglingOnlyByRebinding'
  BY DEF DanglingOnlyByRebinding
<1> QED
  BY <1>1, <1>2, <1>3, <1>4 DEF MapsAgree

(* A pong, and what happens to the peers, leave both maps alone.             *)
LEMMA OtherStepsKeepMaps ==
  ASSUME Inv, NEW s \in Sockets,
         Pong(s) \/ PeerGone(s) \/ GoSilent(s)
  PROVE  MapsAgree'
BY ManagerAssumption
DEF Inv, TypeOK, Pong, PeerGone, GoSilent, mapVars, socketVars, MapsAgree,
    NewIsUnknown, IndexAgrees, NoOrphan, DanglingOnlyByRebinding

(* The maps agree with each other and with the sockets in every reachable    *)
(* state.                                                                    *)
THEOREM Invariance == Spec => []Inv
<1>1. Init => Inv
  BY ManagerAssumption
  DEF Init, Inv, TypeOK, NewIsUnknown, IndexAgrees, NoOrphan, DanglingOnlyByRebinding
<1>2. Inv /\ TypeOK' /\ [Next]_managerVars => Inv'
  <2> SUFFICES ASSUME Inv, TypeOK', [Next]_managerVars PROVE MapsAgree'
    BY DEF Inv, MapsAgree
  <2>1. CASE \E s \in Sockets : HandleNewConnection(s)
    BY <2>1, NewConnectionKeepsMaps
  <2>2. CASE \E s \in Sockets, d \in Devices : RegisterDevice(s, d)
    BY <2>2, RegisterKeepsMaps
  <2>3. CASE \E s \in Sockets : HandleDisconnection(s)
    BY <2>3, DisconnectionKeepsMaps
  <2>4. CASE CheckHeartbeats
    BY <2>4, SweepKeepsMaps
  <2>5. CASE Shutdown \/ Restart
    BY <2>5, ClearingKeepsMaps
  <2>6. CASE \E s \in Sockets : Pong(s) \/ PeerGone(s) \/ GoSilent(s)
    BY <2>6, OtherStepsKeepMaps
  <2>7. CASE UNCHANGED managerVars
    BY <2>7
    DEF Inv, managerVars, MapsAgree, NewIsUnknown, IndexAgrees, NoOrphan,
        DanglingOnlyByRebinding
  <2> QED
    BY <2>1, <2>2, <2>3, <2>4, <2>5, <2>6, <2>7 DEF Next
<1> QED
  BY <1>1, <1>2, Typing, PTL DEF Spec

-----------------------------------------------------------------------------
(* Consequences of the invariant. *)

(* A tracked socket is the one its device routes to. *)
THEOREM IndexAgreement == Spec => []IndexAgrees
<1>1. Inv => IndexAgrees
  BY DEF Inv
<1> QED
  BY <1>1, Invariance, PTL

(* No socket the server holds open escapes the sweeps. *)
THEOREM NoOrphans == Spec => []NoOrphan
<1>1. Inv => NoOrphan
  BY DEF Inv
<1> QED
  BY <1>1, Invariance, PTL

(* Only a second announcement on one socket can leave an index entry behind. *)
THEOREM NoDangling == Spec => []DanglingOnlyByRebinding
<1>1. Inv => DanglingOnlyByRebinding
  BY DEF Inv
<1> QED
  BY <1>1, Invariance, PTL

(* A device is announced by one tracked socket at most. *)
THEOREM OneSocketPerDevice ==
  Spec => [](\A s, t \in connections :
               deviceOf[s] = deviceOf[t] /\ deviceOf[s] # NoDevice => s = t)
<1>1. Inv => \A s, t \in connections :
               deviceOf[s] = deviceOf[t] /\ deviceOf[s] # NoDevice => s = t
  BY DEF Inv, IndexAgrees
<1> QED
  BY <1>1, Invariance, PTL

-----------------------------------------------------------------------------
(* No step moves the entry of a device whose socket stays tracked: the       *)
(* supersession closes the older socket first, and the late close of that    *)
(* one finds nothing of its own to remove.                                   *)
LEMMA StepKeepsRoutes ==
  ASSUME Inv, [Next]_managerVars,
         NEW d \in Devices, deviceIndex[d] \in connections'
  PROVE  deviceIndex'[d] = deviceIndex[d]
<1> USE ManagerAssumption DEF Inv, TypeOK
<1>1. ASSUME NEW s \in Sockets, NEW e \in Devices, RegisterDevice(s, e)
      PROVE  deviceIndex'[d] = deviceIndex[d]
  BY <1>1 DEF RegisterDevice
<1>2. ASSUME NEW s \in Sockets, HandleDisconnection(s)
      PROVE  deviceIndex'[d] = deviceIndex[d]
  BY <1>2 DEF HandleDisconnection, IndexAgrees
<1>3. CASE CheckHeartbeats
  BY <1>3 DEF CheckHeartbeats, IndexAgrees
<1>4. CASE Shutdown \/ Restart
  BY <1>4 DEF Shutdown, Restart
<1>5. ASSUME NEW s \in Sockets,
             HandleNewConnection(s) \/ Pong(s) \/ PeerGone(s) \/ GoSilent(s)
      PROVE  deviceIndex'[d] = deviceIndex[d]
  BY <1>5 DEF HandleNewConnection, Pong, PeerGone, GoSilent, mapVars
<1>6. CASE UNCHANGED managerVars
  BY <1>6 DEF managerVars
<1> QED
  BY <1>1, <1>2, <1>3, <1>4, <1>5, <1>6 DEF Next

(* A route is stable as long as the socket that owns it is tracked. *)
THEOREM RouteStability == Spec => OwnerKeepsRoute
<1>1. Inv /\ [Next]_managerVars
        => [\A d \in Devices :
              deviceIndex[d] \in connections' => deviceIndex'[d] = deviceIndex[d]]_managerVars
  BY StepKeepsRoutes
<1> QED
  BY <1>1, Invariance, PTL DEF Spec, OwnerKeepsRoute

-----------------------------------------------------------------------------
(* Refinement.  Owner and Status are the values the mapping gives to the     *)
(* variables of DeviceDirectory.                                             *)
Owner == [d \in Devices |-> IF deviceIndex[d] \in connections
                            THEN deviceIndex[d] ELSE NoSocket]
Status == [s \in Sockets |-> IF wsState[s] = "new" THEN "fresh"
                             ELSE IF s \in connections THEN "live" ELSE "gone"]

(* A new connection joins the directory with nothing to its name.            *)
LEMMA JoinStep ==
  ASSUME Inv, NEW s \in Sockets, HandleNewConnection(s)
  PROVE  Directory!Join(s)
<1> USE ManagerAssumption DEF Inv, TypeOK, HandleNewConnection
<1>1. \A d \in Devices : deviceIndex[d] # s
  BY DEF NewIsUnknown
<1>2. Owner' = Owner
  BY <1>1 DEF Owner
<1>3. Status[s] = "fresh" /\ Status' = [Status EXCEPT ![s] = "live"]
  BY DEF Status
<1> QED
  BY <1>2, <1>3 DEF Directory!Join, Owner, Status

(* registerDevice is a claim: the sockets it evicts are the ones expelled.   *)
LEMMA ClaimStep ==
  ASSUME Inv, NEW s \in Sockets, NEW d \in Devices, RegisterDevice(s, d)
  PROVE  Directory!Claim(d, s)
<1> USE ManagerAssumption DEF Inv, TypeOK, RegisterDevice
<1> DEFINE expelled == {Owner[d]} \ {s, NoSocket}
<1>1. expelled = ({deviceIndex[d]} \ {s, NoSocket}) \cap connections
  BY DEF Owner
<1>2. Status[s] = "live"
  BY DEF Status, NewIsUnknown
<1>3. connections' = connections \ expelled
  BY <1>1
<1>4. Owner' = [e \in Devices |-> IF e = d THEN s
                                  ELSE IF Owner[e] \in expelled THEN NoSocket
                                  ELSE Owner[e]]
  BY <1>1, <1>3 DEF Owner
<1>5. Status' = [t \in Sockets |-> IF t \in expelled THEN "gone" ELSE Status[t]]
  <2>1. \A t \in Sockets : wsState'[t] = "new" <=> wsState[t] = "new"
    BY DEF NewIsUnknown
  <2>2. \A t \in expelled : wsState[t] # "new"
    BY <1>1 DEF NewIsUnknown
  <2> QED
    BY <1>3, <2>1, <2>2 DEF Status
<1> QED
  BY <1>2, <1>4, <1>5 DEF Directory!Claim, Owner, Status

(* Removing a set of tracked sockets, with the index entries of (some of)    *)
(* them, is a Leave of the directory.                                        *)
LEMMA LeaveStep ==
  ASSUME Inv, NEW leaving \in SUBSET connections,
         connections' = connections \ leaving,
         \A s \in Sockets : wsState'[s] = "new" <=> wsState[s] = "new",
         \A d \in Devices : deviceIndex'[d] = deviceIndex[d]
                           \/ /\ deviceIndex'[d] = NoSocket
                              /\ deviceIndex[d] \in leaving \/ deviceIndex[d] \notin connections
  PROVE  Directory!Leave(leaving)
<1> USE ManagerAssumption DEF Inv, TypeOK
<1>1. \A s \in leaving : Status[s] = "live"
  BY DEF Status, NewIsUnknown
<1>2. Owner' = [d \in Devices |-> IF Owner[d] \in leaving THEN NoSocket ELSE Owner[d]]
  BY DEF Owner
<1>3. Status' = [s \in Sockets |-> IF s \in leaving THEN "gone" ELSE Status[s]]
  BY DEF Status, NewIsUnknown
<1> QED
  BY <1>1, <1>2, <1>3 DEF Directory!Leave, Owner, Status

(* Every step of the connection manager is a step of the directory, or none. *)
LEMMA DirectoryStep ==
  ASSUME Inv, [Next]_managerVars
  PROVE  [Directory!DirNext]_<<Owner, Status>>
<1> USE ManagerAssumption DEF Inv, TypeOK
<1>1. ASSUME NEW s \in Sockets, HandleNewConnection(s)
      PROVE  Directory!DirNext
  BY <1>1, JoinStep DEF Directory!DirNext
<1>2. ASSUME NEW s \in Sockets, NEW d \in Devices, RegisterDevice(s, d)
      PROVE  Directory!DirNext
  BY <1>2, ClaimStep DEF Directory!DirNext
<1>3. ASSUME NEW t \in Sockets, HandleDisconnection(t)
      PROVE  Directory!DirNext
  <2>1. PICK leaving \in SUBSET Sockets : leaving = {t} \cap connections
    OBVIOUS
  <2>2. leaving \in SUBSET connections /\ connections' = connections \ leaving
    BY <1>3, <2>1 DEF HandleDisconnection
  <2>3. \A s \in Sockets : wsState'[s] = "new" <=> wsState[s] = "new"
    BY <1>3 DEF HandleDisconnection
  <2>4. \A d \in Devices :
          \/ deviceIndex'[d] = deviceIndex[d]
          \/ /\ deviceIndex'[d] = NoSocket
             /\ deviceIndex[d] \in leaving \/ deviceIndex[d] \notin connections
    BY <1>3, <2>1 DEF HandleDisconnection, IndexAgrees
  <2>5. Directory!Leave(leaving)
    BY <2>2, <2>3, <2>4, LeaveStep
  <2> QED
    BY <2>5 DEF Directory!DirNext
<1>4. ASSUME CheckHeartbeats
      PROVE  Directory!DirNext
  <2>1. PICK leaving \in SUBSET Sockets : leaving = {s \in connections : ~isAlive[s]}
    OBVIOUS
  <2>2. leaving \in SUBSET connections /\ connections' = connections \ leaving
    BY <1>4, <2>1 DEF CheckHeartbeats
  <2>3. \A s \in Sockets : wsState'[s] = "new" <=> wsState[s] = "new"
    BY <1>4 DEF CheckHeartbeats, NewIsUnknown
  <2>4. \A d \in Devices :
          \/ deviceIndex'[d] = deviceIndex[d]
          \/ /\ deviceIndex'[d] = NoSocket
             /\ deviceIndex[d] \in leaving \/ deviceIndex[d] \notin connections
    BY <1>4, <2>1 DEF CheckHeartbeats, IndexAgrees
  <2>5. Directory!Leave(leaving)
    BY <2>2, <2>3, <2>4, LeaveStep
  <2> QED
    BY <2>5 DEF Directory!DirNext
<1>5. ASSUME Shutdown \/ Restart
      PROVE  Directory!DirNext
  <2>1. PICK leaving \in SUBSET Sockets : leaving = connections
    OBVIOUS
  <2>2. leaving \in SUBSET connections /\ connections' = connections \ leaving
    BY <1>5, <2>1 DEF Shutdown, Restart
  <2>3. \A s \in Sockets : wsState'[s] = "new" <=> wsState[s] = "new"
    BY <1>5 DEF Shutdown, Restart
  <2>4. \A d \in Devices :
          \/ deviceIndex'[d] = deviceIndex[d]
          \/ /\ deviceIndex'[d] = NoSocket
             /\ deviceIndex[d] \in leaving \/ deviceIndex[d] \notin connections
    BY <1>5, <2>1 DEF Shutdown, Restart, IndexAgrees
  <2>5. Directory!Leave(leaving)
    BY <2>2, <2>3, <2>4, LeaveStep
  <2> QED
    BY <2>5 DEF Directory!DirNext
<1>6. ASSUME NEW s \in Sockets, Pong(s) \/ PeerGone(s) \/ GoSilent(s)
      PROVE  UNCHANGED <<Owner, Status>>
  BY <1>6 DEF Pong, PeerGone, GoSilent, mapVars, socketVars, Owner, Status
<1>7. CASE UNCHANGED managerVars
  BY <1>7 DEF managerVars, Owner, Status
<1> QED
  BY <1>1, <1>2, <1>3, <1>4, <1>5, <1>6, <1>7 DEF Next

(* The maps implement the directory: whatever the order of registrations,    *)
(* closes, sweeps and restarts, a message for a device goes to the socket of *)
(* its latest claim, and an evicted socket never gets the device back.       *)
THEOREM DirectoryRefinement == Spec => ImplementsDirectory
<1>1. Init => Directory!DirInit
  BY ManagerAssumption DEF Init, Directory!DirInit
<1>2. Inv /\ [Next]_managerVars => [Directory!DirNext]_(Directory!dirVars)
  BY DirectoryStep DEF Directory!dirVars, Owner, Status
<1> QED
  BY <1>1, <1>2, Invariance, PTL DEF Spec, ImplementsDirectory, Directory!DirSpec
=============================================================================
