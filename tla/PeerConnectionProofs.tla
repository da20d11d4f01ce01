------------------------ MODULE PeerConnectionProofs ------------------------
(***************************************************************************)
(* The safety of PeerConnection, for any sessions, any number of peer      *)
(* connections and of attempts, and for pages that keep their iceServers   *)
(* as well as pages that do not.                                           *)
(***************************************************************************)
EXTENDS PeerConnection, TLAPS

(* The current connection has the role the effect last ran with.            *)
RoleIsShown == pcs[pcRef].role = shown

(* Nothing but a prompt outlives the connection it is for.                  *)
WorkIsCurrent ==
  /\ \A t \in pending : t.op # "capture" => t.pc = pcRef
  /\ channels \subseteq {pcRef}

(* Each connection that replaced a failed one, and the armed timer, took    *)
(* one attempt.                                                             *)
AttemptsAreCounted ==
  ~fresh => replaced + (IF timers = {} THEN 0 ELSE 1) <= attempts

PeerInv ==
  /\ PeerTypeOK
  /\ OnlyCurrentOpen /\ RoleIsShown /\ WorkIsCurrent
  /\ SentIsCurrent
  /\ TimerIsForFailure /\ AttemptsAreCounted
  /\ FailureHasARetry /\ OfferInHand

Connections == OnlyCurrentOpen /\ RoleIsShown /\ WorkIsCurrent
Progress == FailureHasARetry /\ OfferInHand

-----------------------------------------------------------------------------
(* The initial page is as the invariant says.                               *)
LEMMA InitPeerInv == Init => PeerInv
<1> SUFFICES ASSUME Init PROVE PeerInv
  OBVIOUS
<1> USE PeerConnectionAssumption
<1>1. Visitor \in Role /\ NewPc(Visitor) \in Pc
  BY DEF Visitor, Role, NewPc, Pc
<1>2. PeerTypeOK
  <2>1. fresh \in Freshness /\ dirty \in BOOLEAN
    BY Zenon DEF Init
  <2>2. ws \in {"connecting", "open", "closed"} /\ app \in Role /\ shown \in Role
    BY <1>1 DEF Init
  <2>3. pcs \in [Pcs -> Pc \cup {NoPc}] /\ pcRef \in Pcs /\ dcRef \in Pcs \cup {NoPc}
    BY <1>1 DEF Init, OnlyPc
  <2>4. channels \subseteq Pcs /\ pending \subseteq Operation /\ out \subseteq Sent
    BY DEF Init
  <2>5. /\ attempts \in 0..MaxReconnectAttempts /\ timers \subseteq 1..MaxReconnectAttempts
        /\ timerRef \in 0..MaxReconnectAttempts /\ replaced \in 0..(MaxReconnectAttempts + 1)
    BY DEF Init
  <2>6. status \in {"disconnected", "connected", "reconnecting", "error"}
    BY DEF Init
  <2> QED BY <2>1, <2>2, <2>3, <2>4, <2>5, <2>6 DEF PeerTypeOK
<1>3. OnlyCurrentOpen
  BY <1>1 DEF Init, OnlyCurrentOpen, Open, OnlyPc
<1>4. RoleIsShown /\ WorkIsCurrent
  BY DEF Init, RoleIsShown, WorkIsCurrent, OnlyPc, NewPc
<1>5. SentIsCurrent /\ TimerIsForFailure /\ AttemptsAreCounted
  BY DEF Init, SentIsCurrent, TimerIsForFailure, AttemptsAreCounted
<1>6. FailureHasARetry /\ OfferInHand
  BY DEF Init, FailureHasARetry, OfferInHand, OnlyPc, NewPc
<1> QED BY <1>2, <1>3, <1>4, <1>5, <1>6 DEF PeerInv

(* initializePeerConnection leaves its new connection as the only open one, *)
(* whether or not its caller has closed the current one.                    *)
LEMMA InitializeLeavesOne ==
  ASSUME PeerInv, NEW p \in Pcs, NEW role \in Role, NEW left,
         left \in {pcs, [pcs EXCEPT ![pcRef] = NoPc]},
         InitializePeerConnection(p, role, left)
  PROVE  /\ pcs' = [q \in Pcs |-> IF q = p THEN NewPc(role) ELSE NoPc]
         /\ pcRef' = p
         /\ channels' = {}
         /\ dcRef' \in Pcs \cup {NoPc}
         /\ pending' \subseteq Operation
         /\ \A t \in pending' : t.op = "capture"
<1> USE DEF PeerInv, PeerTypeOK
<1>1. \A q \in Pcs : q # pcRef => pcs[q] = NoPc
  BY DEF OnlyCurrentOpen, Open
<1>2. pcs' = [q \in Pcs |-> IF q = p THEN NewPc(role) ELSE NoPc]
  BY <1>1 DEF InitializePeerConnection
<1>3. pcRef' = p /\ channels' = {} /\ dcRef' \in Pcs \cup {NoPc}
  BY DEF InitializePeerConnection, WorkIsCurrent
<1>4. [op |-> "capture", pc |-> p] \in Operation
  BY DEF Operation
<1>5. pending' \subseteq Operation
  BY <1>4 DEF InitializePeerConnection
<1>6. \A t \in pending' : t.op = "capture"
  BY DEF InitializePeerConnection, WorkIsCurrent
<1> QED BY <1>2, <1>3, <1>5, <1>6

(* ... and is shown to its page.                                            *)
LEMMA OneIsCurrent ==
  ASSUME PeerInv, NEW p \in Pcs, shown' \in Role,
         pcs' = [q \in Pcs |-> IF q = p THEN NewPc(shown') ELSE NoPc],
         pcRef' = p, channels' = {}, \A t \in pending' : t.op = "capture"
  PROVE  pcs' \in [Pcs -> Pc \cup {NoPc}] /\ pcRef' \in Pcs
         /\ pcs'[pcRef'].conn = "new" /\ Connections' /\ Progress'
<1>1. NewPc(shown') \in Pc
  BY DEF NewPc, Pc
<1>2. pcs' \in [Pcs -> Pc \cup {NoPc}] /\ pcRef' \in Pcs
  BY <1>1
<1>3. pcs'[pcRef'] = NewPc(shown')
  BY <1>2
<1>4. OnlyCurrentOpen'
  BY <1>1, <1>2, PeerConnectionAssumption DEF OnlyCurrentOpen, Open
<1>5. RoleIsShown' /\ pcs'[pcRef'].conn = "new"
  BY <1>3 DEF RoleIsShown, NewPc
<1>6. WorkIsCurrent'
  BY DEF WorkIsCurrent
<1>7. Progress'
  BY <1>3 DEF Progress, FailureHasARetry, OfferInHand, NewPc
<1> QED BY <1>2, <1>4, <1>5, <1>6, <1>7 DEF Connections

(* A step that leaves the references alone and changes at most what was     *)
(* negotiated on the current connection.                                    *)
LEMMA UpdateCurrent ==
  ASSUME PeerInv, NEW pc \in Pc,
         pc.role = pcs[pcRef].role,
         pcs' = [pcs EXCEPT ![pcRef] = pc],
         UNCHANGED <<pcRef, shown>>,
         channels' \subseteq {pcRef},
         \A t \in pending' : t.op # "capture" => t.pc = pcRef
  PROVE  pcs' \in [Pcs -> Pc \cup {NoPc}] /\ pcs'[pcRef'] = pc /\ Connections'
<1> USE DEF PeerInv, PeerTypeOK
<1>1. pcs' \in [Pcs -> Pc \cup {NoPc}] /\ pcs'[pcRef'] = pc
  OBVIOUS
<1>2. OnlyCurrentOpen'
  BY <1>1, PeerConnectionAssumption DEF OnlyCurrentOpen, Open
<1>3. RoleIsShown'
  BY <1>1 DEF RoleIsShown
<1>4. WorkIsCurrent'
  BY DEF WorkIsCurrent
<1> QED BY <1>1, <1>2, <1>3, <1>4 DEF Connections

(* The current connection is open.                                          *)
LEMMA CurrentIsOpen ==
  ASSUME PeerInv
  PROVE  pcs[pcRef] \in Pc
BY DEF PeerInv, PeerTypeOK, OnlyCurrentOpen, Open

(* Frames sent by the current connection are as SentIsCurrent says.         *)
LEMMA SendIsCurrent ==
  ASSUME PeerInv, UNCHANGED <<shown, pcRef>>, Open(pcRef)',
         NEW type \in {"offer", "answer"},
         out' = Send(type, pcRef)
  PROVE  out' \subseteq Sent /\ SentIsCurrent'
<1>1. pcs[pcRef].role = shown /\ shown \in Role /\ pcRef \in Pcs
  BY DEF PeerInv, PeerTypeOK, RoleIsShown
<1>2. \A f \in out' : f = [type |-> type, session |-> shown.session, pc |-> pcRef]
  BY <1>1 DEF Send
<1>3. [type |-> type, session |-> shown.session, pc |-> pcRef] \in Sent
  BY <1>1 DEF Role, Sent
<1>4. SentIsCurrent'
  BY <1>1, <1>2 DEF SentIsCurrent, Open
<1> QED BY <1>2, <1>3, <1>4

-----------------------------------------------------------------------------
(* The actions on a connection *)

LEMMA CaptureInv ==
  ASSUME PeerInv, NEW p \in Pcs, CaptureGranted(p) \/ CaptureDenied(p)
  PROVE  PeerInv'
<1> USE DEF PeerInv, PeerTypeOK
<1>1. /\ UNCHANGED <<appVars, pcVars, retryVars, replaced>>
      /\ out' = {} /\ dirty' \in BOOLEAN
      /\ status' \in {status, "error"}
  BY DEF CaptureGranted, CaptureDenied
<1>2. \A t \in pending' : t \in pending \/ (t = [op |-> "offer", pc |-> p] /\ Open(p))
  BY DEF CaptureGranted, CaptureDenied, Done
<1>3. Open(p) => p = pcRef
  BY DEF OnlyCurrentOpen
<1>4. pending' \subseteq Operation
  BY <1>2 DEF Operation
<1>5. WorkIsCurrent'
  BY <1>1, <1>2, <1>3 DEF WorkIsCurrent, pcVars
<1>6. PeerTypeOK'
  BY <1>1, <1>4 DEF appVars, pcVars, retryVars
<1>7. OnlyCurrentOpen' /\ RoleIsShown'
  BY <1>1 DEF OnlyCurrentOpen, RoleIsShown, Open, appVars, pcVars
<1>8. SentIsCurrent' /\ TimerIsForFailure' /\ AttemptsAreCounted'
  BY <1>1 DEF SentIsCurrent, TimerIsForFailure, AttemptsAreCounted, appVars, pcVars, retryVars
<1>9. \A t \in pending : t.op = "answer" => t \in pending'
  BY DEF CaptureGranted, CaptureDenied, Done
<1>10. FailureHasARetry' /\ OfferInHand'
  BY <1>1, <1>9 DEF FailureHasARetry, OfferInHand, pcVars, retryVars
<1> QED BY <1>5, <1>6, <1>7, <1>8, <1>10

(* The browser has made a description: createOffer of the host, of an ICE   *)
(* restart, or createAnswer.                                                *)
LEMMA DescriptionInv ==
  ASSUME PeerInv, NEW p \in Pcs,
         \/ OfferCreated(p) \/ AnswerCreated(p)
         \/ \E op \in {"restart", "iceRestart"} : IceRestartCreated(op, p)
  PROVE  PeerInv'
<1> USE DEF PeerInv, PeerTypeOK
<1>1. p = pcRef /\ pending' \subseteq pending
  BY DEF OfferCreated, AnswerCreated, IceRestartCreated, WorkIsCurrent, Done
<1>2. /\ UNCHANGED <<appVars, pcRef, dcRef, channels, retryVars, replaced>>
      /\ dirty' \in BOOLEAN /\ status' \in {status, "error"}
  BY DEF OfferCreated, AnswerCreated, IceRestartCreated
<1>3. PICK pc \in Pc : /\ pcs' = [pcs EXCEPT ![pcRef] = pc]
                       /\ pc.role = pcs[pcRef].role
                       /\ pc.conn \in {"connected", "failed"} => pcs[pcRef].conn = pc.conn
                       /\ pc.sig = "have-remote-offer" => UNCHANGED pcs
  <2> DEFINE old == pcs[pcRef]
  <2>1. old \in Pc
    BY CurrentIsOpen
  <2>2. CASE UNCHANGED pcs
    BY <2>1, <2>2, pcs = [pcs EXCEPT ![pcRef] = old]
  <2>3. CASE pcs' = [pcs EXCEPT ![p].sig = "have-local-offer"]
    <3> DEFINE new == [old EXCEPT !.sig = "have-local-offer"]
    <3>1. new \in Pc /\ new.role = old.role /\ new.conn = old.conn
          /\ new.sig = "have-local-offer"
      BY <2>1 DEF Pc
    <3>2. pcs' = [pcs EXCEPT ![pcRef] = new]
      BY <2>3, <1>1
    <3> QED BY <3>1, <3>2
  <2>4. CASE pcs' = [pcs EXCEPT ![p].sig = "stable", ![p].remote = "own",
                                ![p].conn = IF @ = "failed" THEN "new" ELSE @]
    <3> DEFINE new == [old EXCEPT !.sig = "stable", !.remote = "own",
                                  !.conn = IF @ = "failed" THEN "new" ELSE @]
    <3>1. new \in Pc /\ new.role = old.role /\ new.sig = "stable"
          /\ (new.conn \in {"connected", "failed"} => old.conn = new.conn)
      BY <2>1 DEF Pc
    <3>2. pcs' = [pcs EXCEPT ![pcRef] = new]
      BY <2>4, <1>1
    <3> QED BY <3>1, <3>2
  <2> QED BY <2>2, <2>3, <2>4 DEF OfferCreated, AnswerCreated, IceRestartCreated
<1>4. channels' \subseteq {pcRef} /\ \A t \in pending' : t.op # "capture" => t.pc = pcRef
  BY <1>1, <1>2 DEF WorkIsCurrent
<1>5. pcs' \in [Pcs -> Pc \cup {NoPc}] /\ pcs'[pcRef'] = pc /\ Connections'
  BY <1>2, <1>3, <1>4, UpdateCurrent DEF appVars
<1>6. out' \subseteq Sent /\ SentIsCurrent'
  <2>1. out' = {} \/ out' = Send("offer", pcRef) \/ out' = Send("answer", pcRef)
    BY <1>1 DEF OfferCreated, AnswerCreated, IceRestartCreated
  <2>2. Open(pcRef)'
    BY <1>2, <1>5 DEF Connections, OnlyCurrentOpen, Open
  <2> QED BY <1>2, <2>1, <2>2, SendIsCurrent DEF SentIsCurrent, appVars
<1>7. TimerIsForFailure' /\ AttemptsAreCounted'
  BY <1>2, <1>3, <1>5 DEF TimerIsForFailure, AttemptsAreCounted, retryVars, appVars
<1>8. PeerTypeOK'
  BY <1>1, <1>2, <1>5, <1>6 DEF appVars, retryVars
<1>9. FailureHasARetry'
  BY <1>2, <1>3, <1>5 DEF FailureHasARetry, retryVars
<1>10. OfferInHand'
  <2> SUFFICES ASSUME pc.sig = "have-remote-offer", ~pc.role.host
               PROVE  [op |-> "answer", pc |-> pcRef] \in pending'
    BY <1>2, <1>5 DEF OfferInHand
  <2>1. UNCHANGED pcs /\ pcs[pcRef] = pc
    BY <1>2, <1>3, <1>5
  <2>2. [op |-> "answer", pc |-> pcRef] \in pending
    BY <2>1 DEF OfferInHand
  <2>3. ~AnswerCreated(p)
    <3>1. ASSUME AnswerCreated(p) PROVE pcs'[p].sig = "stable"
      BY <1>1, <2>1, <3>1, CurrentIsOpen DEF AnswerCreated, Pc
    <3> QED BY <1>1, <2>1, <3>1
  <2> QED BY <2>2, <2>3 DEF OfferCreated, IceRestartCreated, Done
<1> QED BY <1>5, <1>6, <1>7, <1>8, <1>9, <1>10 DEF Connections

LEMMA ConnectedInv ==
  ASSUME PeerInv, NEW p \in Pcs, Connected(p)
  PROVE  PeerInv'
<1> USE DEF PeerInv, PeerTypeOK
<1> DEFINE new == [pcs[pcRef] EXCEPT !.conn = "connected"]
<1>1. p = pcRef
  BY DEF Connected, OnlyCurrentOpen
<1>2. /\ new \in Pc /\ new.role = pcs[pcRef].role
      /\ new.sig = pcs[pcRef].sig /\ new.conn = "connected"
  BY CurrentIsOpen DEF Pc
<1>3. pcs' = [pcs EXCEPT ![pcRef] = new]
  BY <1>1 DEF Connected
<1>4. UNCHANGED <<appVars, pcRef, dcRef, channels, pending>> /\ out' = {} /\ timers' = {}
      /\ timerRef' = 0 /\ attempts' = 0 /\ replaced' = 0 /\ dirty' = TRUE
      /\ status' = "connected"
  BY DEF Connected, TimerIsForFailure
<1>5. pcs' \in [Pcs -> Pc \cup {NoPc}] /\ pcs'[pcRef'] = new /\ Connections'
  BY <1>2, <1>3, <1>4, UpdateCurrent DEF WorkIsCurrent, appVars
<1>6. SentIsCurrent' /\ TimerIsForFailure' /\ AttemptsAreCounted'
  BY <1>4 DEF SentIsCurrent, TimerIsForFailure, AttemptsAreCounted
<1>7. PeerTypeOK'
  BY <1>4, <1>5, PeerConnectionAssumption DEF appVars
<1>8. FailureHasARetry' /\ OfferInHand'
  BY <1>2, <1>4, <1>5 DEF FailureHasARetry, OfferInHand
<1> QED BY <1>5, <1>6, <1>7, <1>8 DEF Connections

LEMMA DisconnectedInv ==
  ASSUME PeerInv, NEW p \in Pcs, Disconnected(p)
  PROVE  PeerInv'
<1> USE DEF PeerInv, PeerTypeOK
<1> DEFINE new == [pcs[pcRef] EXCEPT !.conn = "disconnected"]
<1>1. p = pcRef
  BY DEF Disconnected, OnlyCurrentOpen
<1>2. /\ new \in Pc /\ new.role = pcs[pcRef].role
      /\ new.sig = pcs[pcRef].sig /\ new.conn = "disconnected"
  BY CurrentIsOpen DEF Pc
<1>3. pcs' = [pcs EXCEPT ![pcRef] = new]
  BY <1>1 DEF Disconnected
<1>4. UNCHANGED <<appVars, pcRef, dcRef, channels, retryVars, replaced>> /\ out' = {}
      /\ dirty' = TRUE /\ status' = "reconnecting" /\ pending \subseteq pending'
      /\ \A t \in pending' : t \in pending \/ t \in [op: {"restart", "iceRestart"}, pc: {pcRef}]
  BY DEF Disconnected
<1>5. \A t \in pending' : t.op # "capture" => t.pc = pcRef
  BY <1>4 DEF WorkIsCurrent
<1>6. pcs' \in [Pcs -> Pc \cup {NoPc}] /\ pcs'[pcRef'] = new /\ Connections'
  BY <1>2, <1>3, <1>4, <1>5, UpdateCurrent DEF WorkIsCurrent, appVars
<1>7. SentIsCurrent' /\ TimerIsForFailure' /\ AttemptsAreCounted'
  BY <1>2, <1>4, <1>6
  DEF SentIsCurrent, TimerIsForFailure, AttemptsAreCounted, retryVars, appVars
<1>8. pending' \subseteq Operation
  BY <1>4 DEF Operation
<1>9. PeerTypeOK'
  BY <1>4, <1>6, <1>8 DEF appVars, retryVars
<1> HIDE DEF new
<1>10. FailureHasARetry'
  BY <1>2, <1>4, <1>6 DEF FailureHasARetry
<1>11. OfferInHand'
  BY <1>2, <1>4, <1>6 DEF OfferInHand
<1> QED BY <1>6, <1>7, <1>9, <1>10, <1>11 DEF Connections

LEMMA FailedInv ==
  ASSUME PeerInv, NEW p \in Pcs, Failed(p)
  PROVE  PeerInv'
<1> USE DEF PeerInv, PeerTypeOK
<1> DEFINE new == [pcs[pcRef] EXCEPT !.conn = "failed"]
<1>1. p = pcRef
  BY DEF Failed, OnlyCurrentOpen
<1>2. /\ new \in Pc /\ new.role = pcs[pcRef].role
      /\ new.sig = pcs[pcRef].sig /\ new.conn = "failed"
  BY CurrentIsOpen DEF Pc
<1>3. pcs' = [pcs EXCEPT ![pcRef] = new]
  BY <1>1 DEF Failed
<1>4. UNCHANGED <<appVars, pcRef, dcRef, channels, pending, replaced>> /\ out' = {}
      /\ dirty' = TRUE /\ status' = "error"
  BY DEF Failed
<1>5. pcs' \in [Pcs -> Pc \cup {NoPc}] /\ pcs'[pcRef'] = new /\ Connections'
  BY <1>2, <1>3, <1>4, UpdateCurrent DEF WorkIsCurrent, appVars
<1>6. TimerIsForFailure' /\ AttemptsAreCounted'
      /\ attempts' \in 0..MaxReconnectAttempts /\ timerRef' \in 0..MaxReconnectAttempts
      /\ timers' \subseteq 1..MaxReconnectAttempts
      /\ (timers' # {} \/ attempts' = MaxReconnectAttempts)
  <2>1. HandleFullReconnect /\ pcs'[pcRef'].conn # "connected"
    BY <1>2, <1>5 DEF Failed
  <2>2. CASE UNCHANGED retryVars
    <3>1. attempts = MaxReconnectAttempts
      BY <2>1, <2>2, PeerConnectionAssumption DEF HandleFullReconnect, retryVars
    <3> QED BY <1>4, <2>1, <2>2, <3>1 DEF TimerIsForFailure, AttemptsAreCounted, retryVars, appVars
  <2>3. CASE /\ attempts < MaxReconnectAttempts
             /\ attempts' = attempts + 1
             /\ timers' = (timers \ {timerRef}) \cup {attempts + 1}
             /\ timerRef' = attempts + 1
    <3>1. timers' = {attempts + 1}
      BY <2>3 DEF TimerIsForFailure
    <3>2. TimerIsForFailure'
      BY <2>1, <2>3, <3>1 DEF TimerIsForFailure
    <3>3. ~fresh => replaced <= attempts
      BY DEF AttemptsAreCounted
    <3>4. AttemptsAreCounted'
      BY <1>4, <2>3, <3>1, <3>3 DEF AttemptsAreCounted, appVars
    <3>5. attempts' \in 0..MaxReconnectAttempts /\ attempts + 1 \in 1..MaxReconnectAttempts
      BY <2>3, PeerConnectionAssumption
    <3> QED BY <2>3, <3>1, <3>2, <3>4, <3>5
  <2> QED BY <2>1, <2>2, <2>3 DEF HandleFullReconnect
<1>7. SentIsCurrent'
  BY <1>4 DEF SentIsCurrent
<1>8. PeerTypeOK'
  BY <1>4, <1>5, <1>6 DEF appVars
<1>9. FailureHasARetry'
  BY <1>4, <1>6 DEF FailureHasARetry
<1> HIDE DEF new
<1>10. OfferInHand'
  BY <1>2, <1>4, <1>5 DEF OfferInHand
<1> QED BY <1>5, <1>6, <1>7, <1>8, <1>9, <1>10 DEF Connections

LEMMA TimerFiresInv ==
  ASSUME PeerInv, NEW n \in timers, NEW p \in Pcs, TimerFires(n, p)
  PROVE  PeerInv'
<1> USE DEF PeerInv, PeerTypeOK
<1>1. UNCHANGED <<appVars, dirty, attempts, timerRef, status>> /\ out' = {} /\ timers' = {}
      /\ replaced' = More(replaced)
  BY DEF TimerFires, TimerIsForFailure
<1>2. InitializePeerConnection(p, shown, pcs) /\ shown' = shown
  BY DEF TimerFires, appVars
<1>3. /\ pcs' = [q \in Pcs |-> IF q = p THEN NewPc(shown) ELSE NoPc]
      /\ pcRef' = p /\ channels' = {} /\ dcRef' \in Pcs \cup {NoPc}
      /\ pending' \subseteq Operation /\ \A t \in pending' : t.op = "capture"
  BY <1>2, InitializeLeavesOne
<1>4. pcs' \in [Pcs -> Pc \cup {NoPc}] /\ pcRef' \in Pcs /\ Connections' /\ Progress'
  BY <1>2, <1>3, OneIsCurrent
<1>5. AttemptsAreCounted'
  <2>1. ~fresh => replaced + 1 <= attempts
    BY DEF AttemptsAreCounted
  <2>2. replaced' <= replaced + 1
    BY <1>1, PeerConnectionAssumption DEF More
  <2>3. replaced' \in Nat
    BY <1>1, PeerConnectionAssumption DEF More
  <2> QED BY <1>1, <2>1, <2>2, <2>3, PeerConnectionAssumption DEF AttemptsAreCounted, appVars
<1>6. replaced' \in 0..(MaxReconnectAttempts + 1)
  BY <1>1, PeerConnectionAssumption DEF More
<1>7. SentIsCurrent' /\ TimerIsForFailure'
  BY <1>1 DEF SentIsCurrent, TimerIsForFailure
<1>8. PeerTypeOK'
  BY <1>1, <1>3, <1>4, <1>6 DEF appVars
<1> QED BY <1>4, <1>5, <1>7, <1>8 DEF Connections, Progress

LEMMA RenderInv ==
  ASSUME PeerInv, NEW p \in Pcs, Render(p)
  PROVE  PeerInv'
<1> USE DEF PeerInv, PeerTypeOK
<1>1. UNCHANGED <<fresh, ws, app, attempts, timerRef, status>> /\ out' = {} /\ dirty' = FALSE
      /\ shown' = app
  BY DEF Render
<1>2. SentIsCurrent'
  BY <1>1 DEF SentIsCurrent
<1>3. CASE fresh \/ app # shown
  <2>1. /\ timers' = timers \ {timerRef}
        /\ replaced' = IF app = shown THEN More(replaced) ELSE 0
        /\ InitializePeerConnection(p, app, [pcs EXCEPT ![pcRef] = NoPc])
    BY <1>3 DEF Render
  <2>2. /\ pcs' = [q \in Pcs |-> IF q = p THEN NewPc(app) ELSE NoPc]
        /\ pcRef' = p /\ channels' = {} /\ dcRef' \in Pcs \cup {NoPc}
        /\ pending' \subseteq Operation /\ \A t \in pending' : t.op = "capture"
    BY <2>1, InitializeLeavesOne
  <2>3. pcs' \in [Pcs -> Pc \cup {NoPc}] /\ pcRef' \in Pcs /\ Connections' /\ Progress'
    BY <1>1, <2>2, OneIsCurrent
  <2>4. timers' = {}
    BY <2>1 DEF TimerIsForFailure
  <2>5. replaced' \in 0..(MaxReconnectAttempts + 1)
    BY <2>1, PeerConnectionAssumption DEF More
  <2>6. AttemptsAreCounted'
    BY <1>1, <1>3, <2>1, <2>4 DEF AttemptsAreCounted
  <2>7. TimerIsForFailure'
    BY <2>4 DEF TimerIsForFailure
  <2>8. PeerTypeOK'
    BY <1>1, <2>2, <2>3, <2>4, <2>5
  <2> QED BY <1>2, <2>3, <2>6, <2>7, <2>8 DEF Connections, Progress
<1>4. CASE ~(fresh \/ app # shown)
  <2>1. UNCHANGED <<pcVars, pending, timers, replaced>> /\ shown' = shown
    BY <1>1, <1>4 DEF Render
  <2>2. OnlyCurrentOpen' /\ RoleIsShown' /\ WorkIsCurrent'
    BY <2>1 DEF OnlyCurrentOpen, RoleIsShown, WorkIsCurrent, Open, pcVars
  <2>3. TimerIsForFailure' /\ AttemptsAreCounted'
    BY <1>1, <2>1 DEF TimerIsForFailure, AttemptsAreCounted, pcVars
  <2>4. PeerTypeOK'
    BY <1>1, <2>1 DEF pcVars
  <2>5. FailureHasARetry' /\ OfferInHand'
    BY <1>1, <2>1 DEF FailureHasARetry, OfferInHand, pcVars
  <2> QED BY <1>2, <2>2, <2>3, <2>4, <2>5
<1> QED BY <1>3, <1>4

LEMMA ChannelInv ==
  ASSUME PeerInv, (\E p \in Pcs : ChannelOpen(p)) \/ SendInput
  PROVE  PeerInv'
<1> USE DEF PeerInv, PeerTypeOK
<1>1. /\ UNCHANGED <<appVars, pcs, pcRef, pending, retryVars, replaced>>
      /\ dirty' \in BOOLEAN /\ status' \in {status, "connected"}
      /\ channels' \subseteq {pcRef} /\ dcRef' \in Pcs \cup {NoPc}
  BY DEF ChannelOpen, SendInput, pcVars, WorkIsCurrent, OnlyCurrentOpen
<1>2. OnlyCurrentOpen' /\ RoleIsShown' /\ WorkIsCurrent'
  BY <1>1 DEF OnlyCurrentOpen, RoleIsShown, WorkIsCurrent, Open, appVars
<1>3. out' \subseteq Sent /\ SentIsCurrent'
  <2>1. CASE out' = {}
    BY <2>1 DEF SentIsCurrent
  <2>2. CASE SendInput
    <3>1. dcRef = pcRef
      BY <2>2 DEF SendInput, WorkIsCurrent
    <3>2. out' = {[type |-> "input", session |-> shown.session, pc |-> pcRef]}
      BY <2>2, <3>1 DEF SendInput, RoleIsShown
    <3>3. Open(pcRef)'
      BY <1>2 DEF OnlyCurrentOpen, Open
    <3> QED BY <1>1, <3>2, <3>3 DEF SentIsCurrent, Sent, Role, appVars, Open
  <2> QED BY <2>1, <2>2 DEF ChannelOpen
<1>4. TimerIsForFailure' /\ AttemptsAreCounted'
  BY <1>1 DEF TimerIsForFailure, AttemptsAreCounted, retryVars, appVars
<1>5. PeerTypeOK'
  BY <1>1, <1>3 DEF appVars, retryVars
<1>6. pcs[pcRef].conn = "failed" => status' = status
  BY DEF ChannelOpen, SendInput, OnlyCurrentOpen
<1>7. FailureHasARetry' /\ OfferInHand'
  BY <1>1, <1>6 DEF FailureHasARetry, OfferInHand, retryVars
<1> QED BY <1>2, <1>3, <1>4, <1>5, <1>7

-----------------------------------------------------------------------------
(* Messages and the page *)

LEMMA OfferArrivesInv ==
  ASSUME PeerInv, NEW x \in Sessions, OfferArrives(x)
  PROVE  PeerInv'
<1> USE DEF PeerInv, PeerTypeOK
<1> DEFINE new == [pcs[pcRef] EXCEPT !.sig = "have-remote-offer"]
<1>1. new \in Pc /\ new.role = pcs[pcRef].role /\ new.conn = pcs[pcRef].conn
  BY CurrentIsOpen DEF Pc
<1>2. pcs' = [pcs EXCEPT ![pcRef] = new]
  BY DEF OfferArrives
<1>3. UNCHANGED <<appVars, pcRef, dcRef, channels, retryVars, status, replaced>> /\ out' = {}
      /\ dirty' \in BOOLEAN
      /\ \A t \in pending' : t \in pending \/ t = [op |-> "answer", pc |-> pcRef]
  BY DEF OfferArrives
<1>4. pending' \subseteq Operation /\ \A t \in pending' : t.op # "capture" => t.pc = pcRef
  BY <1>3 DEF WorkIsCurrent, Operation
<1>5. pcs' \in [Pcs -> Pc \cup {NoPc}] /\ pcs'[pcRef'] = new /\ Connections'
  BY <1>1, <1>2, <1>3, <1>4, UpdateCurrent DEF WorkIsCurrent, appVars
<1>6. SentIsCurrent' /\ TimerIsForFailure' /\ AttemptsAreCounted'
  BY <1>1, <1>3, <1>5
  DEF SentIsCurrent, TimerIsForFailure, AttemptsAreCounted, retryVars, appVars
<1>7. PeerTypeOK'
  BY <1>3, <1>4, <1>5 DEF appVars, retryVars
<1>8. FailureHasARetry'
  BY <1>1, <1>3, <1>5 DEF FailureHasARetry, retryVars
<1>9. OfferInHand'
  <2>1. ~shown.host => [op |-> "answer", pc |-> pcRef] \in pending'
    BY DEF OfferArrives
  <2> QED BY <1>1, <1>3, <1>5, <2>1 DEF OfferInHand, RoleIsShown
<1> QED BY <1>5, <1>6, <1>7, <1>8, <1>9 DEF Connections

LEMMA AnswerArrivesInv ==
  ASSUME PeerInv, NEW x \in Sessions, NEW remote \in {"stale", "own"}, AnswerArrives(x, remote)
  PROVE  PeerInv'
<1> USE DEF PeerInv, PeerTypeOK
<1> DEFINE new == [pcs[pcRef] EXCEPT !.sig = "stable", !.remote = remote,
                                     !.conn = IF @ = "failed" THEN "new" ELSE @]
<1>1. new \in Pc /\ new.role = pcs[pcRef].role
      /\ new.sig = "stable" /\ new.conn # "failed"
      /\ (new.conn = "connected" => pcs[pcRef].conn = "connected")
  BY CurrentIsOpen DEF Pc
<1>2. pcs' = [pcs EXCEPT ![pcRef] = new]
  BY DEF AnswerArrives
<1>3. UNCHANGED <<appVars, dirty, pcRef, dcRef, channels, pending, retryVars, status, replaced>>
      /\ out' = {}
  BY DEF AnswerArrives
<1>4. pcs' \in [Pcs -> Pc \cup {NoPc}] /\ pcs'[pcRef'] = new /\ Connections'
  BY <1>1, <1>2, <1>3, UpdateCurrent DEF WorkIsCurrent, appVars
<1>5. SentIsCurrent' /\ TimerIsForFailure' /\ AttemptsAreCounted'
  BY <1>1, <1>3, <1>4
  DEF SentIsCurrent, TimerIsForFailure, AttemptsAreCounted, retryVars, appVars
<1>6. PeerTypeOK'
  BY <1>3, <1>4 DEF appVars, retryVars
<1>7. FailureHasARetry' /\ OfferInHand'
  BY <1>1, <1>3, <1>4 DEF FailureHasARetry, OfferInHand
<1> QED BY <1>4, <1>5, <1>6, <1>7 DEF Connections

(* Steps that touch the socket and the state of App only, and stuttering.   *)
LEMMA PageInv ==
  ASSUME PeerInv,
         \/ \E x \in Sessions, host \in BOOLEAN : SessionArrives(x, host)
         \/ SocketOpens \/ SocketCloses \/ StateSet \/ UNCHANGED vars
  PROVE  PeerInv'
<1> USE DEF PeerInv, PeerTypeOK
<1>1. UNCHANGED <<fresh, shown, pcVars, pending, retryVars, status, replaced>>
      /\ out' \in {{}, out}
  BY DEF SessionArrives, SocketOpens, SocketCloses, StateSet, vars, appVars
<1>5. dirty' \in BOOLEAN
  BY Zenon DEF SessionArrives, SocketOpens, SocketCloses, StateSet, vars
<1>6. app' \in Role /\ ws' \in {"connecting", "open", "closed"}
  BY DEF SessionArrives, SocketOpens, SocketCloses, StateSet, vars, appVars, Role
<1>2. OnlyCurrentOpen' /\ RoleIsShown' /\ WorkIsCurrent'
  BY <1>1 DEF OnlyCurrentOpen, RoleIsShown, WorkIsCurrent, Open, pcVars
<1>3. SentIsCurrent' /\ TimerIsForFailure' /\ AttemptsAreCounted'
  BY <1>1 DEF SentIsCurrent, TimerIsForFailure, AttemptsAreCounted, Open, retryVars, pcVars
<1>4. PeerTypeOK'
  BY <1>1, <1>5, <1>6 DEF pcVars, retryVars
<1>7. FailureHasARetry' /\ OfferInHand'
  BY <1>1 DEF FailureHasARetry, OfferInHand, pcVars, retryVars
<1> QED BY <1>2, <1>3, <1>4, <1>7

LEMMA HandleDisconnectInv ==
  ASSUME PeerInv, HandleDisconnect
  PROVE  PeerInv'
<1> USE DEF PeerInv, PeerTypeOK
<1>1. Visitor \in Role
  BY DEF Visitor, Role
<1>2. UNCHANGED <<fresh, pcRef>> /\ app' = Visitor /\ shown' = Visitor
      /\ ws' = "connecting" /\ dirty' = FALSE /\ status' = "disconnected"
  BY DEF HandleDisconnect
<1>3. /\ dcRef' = NoPc /\ channels' = {} /\ pending' = {} /\ out' = {}
      /\ attempts' = 0 /\ timers' = {} /\ timerRef' = 0 /\ replaced' = 0
  BY DEF HandleDisconnect
<1>4. pcs' = [q \in Pcs |-> IF q = pcRef THEN NewPc(Visitor) ELSE NoPc]
  BY DEF HandleDisconnect, OnlyPc
<1>5. pcs' \in [Pcs -> Pc \cup {NoPc}] /\ Connections' /\ Progress'
  BY <1>1, <1>2, <1>3, <1>4, OneIsCurrent
<1>6. SentIsCurrent' /\ TimerIsForFailure' /\ AttemptsAreCounted'
  BY <1>3 DEF SentIsCurrent, TimerIsForFailure, AttemptsAreCounted
<1>7. fresh' \in Freshness /\ dirty' \in BOOLEAN
  BY <1>2, Zenon
<1>8. /\ attempts' \in 0..MaxReconnectAttempts /\ timers' \subseteq 1..MaxReconnectAttempts
      /\ timerRef' \in 0..MaxReconnectAttempts /\ replaced' \in 0..(MaxReconnectAttempts + 1)
  BY <1>3, PeerConnectionAssumption
<1>9. PeerTypeOK'
  BY <1>1, <1>2, <1>3, <1>5, <1>7, <1>8
<1> QED BY <1>5, <1>6, <1>9 DEF Connections, Progress

-----------------------------------------------------------------------------
(* What the page holds, has armed and has in flight stays consistent over   *)
(* renders, timers, prompts and messages (useWebRTC.ts).                    *)
THEOREM PeerInvariance == Spec => []PeerInv
<1>1. ASSUME PeerInv, Next PROVE PeerInv'
  <2>1. CASE \E p \in Pcs : CaptureGranted(p) \/ CaptureDenied(p)
    BY <2>1, <1>1, CaptureInv
  <2>2. CASE \E p \in Pcs : \/ OfferCreated(p) \/ AnswerCreated(p)
                            \/ \E op \in {"restart", "iceRestart"} : IceRestartCreated(op, p)
    BY <2>2, <1>1, DescriptionInv
  <2>3. CASE \E p \in Pcs : Connected(p) \/ Disconnected(p) \/ Failed(p)
    BY <2>3, <1>1, ConnectedInv, DisconnectedInv, FailedInv
  <2>4. CASE \E p \in Pcs : (\E n \in timers : TimerFires(n, p)) \/ Render(p)
    BY <2>4, <1>1, TimerFiresInv, RenderInv
  <2>5. CASE (\E p \in Pcs : ChannelOpen(p)) \/ SendInput
    BY <2>5, <1>1, ChannelInv
  <2>6. CASE \E x \in Sessions :
               OfferArrives(x) \/ \E remote \in {"stale", "own"} : AnswerArrives(x, remote)
    BY <2>6, <1>1, OfferArrivesInv, AnswerArrivesInv
  <2>7. CASE \/ \E x \in Sessions, host \in BOOLEAN : SessionArrives(x, host)
             \/ SocketOpens \/ SocketCloses \/ StateSet
    BY <2>7, <1>1, PageInv
  <2>8. CASE HandleDisconnect
    BY <2>8, <1>1, HandleDisconnectInv
  <2> QED BY <1>1, <2>1, <2>2, <2>3, <2>4, <2>5, <2>6, <2>7, <2>8 DEF Next
<1>2. PeerInv /\ UNCHANGED vars => PeerInv'
  BY PageInv
<1> QED BY InitPeerInv, <1>1, <1>2, PTL DEF Spec

(* Every reference of the page and every operation in flight is well formed;*)
(* no more attempts are counted than are allowed (useWebRTC.ts:190).        *)
THEOREM PeerTyping == Spec => []PeerTypeOK
BY PeerInvariance, PTL DEF PeerInv

(* Whatever renders, timers and prompts do, one peer connection is open     *)
(* (useWebRTC.ts:39, 278).                                                  *)
THEOREM OneConnectionIsOpen == Spec => []OnlyCurrentOpen
BY PeerInvariance, PTL DEF PeerInv

(* Descriptions and inputs that are sent are of the current connection and  *)
(* the session shown (useWebRTC.ts:132, 180, 232, 289).                     *)
THEOREM SentIsOfCurrent == Spec => []SentIsCurrent
BY PeerInvariance, PTL DEF PeerInv

(* A page that keeps its iceServers gives up after MaxReconnectAttempts     *)
(* replacements of which none connects (useWebRTC.ts:190).                  *)
THEOREM ReconnectsHaveABound == Spec => []ReconnectsAreBounded
<1>1. PeerInv => ReconnectsAreBounded
  BY PeerConnectionAssumption
  DEF PeerInv, PeerTypeOK, AttemptsAreCounted, ReconnectsAreBounded
<1> QED BY PeerInvariance, <1>1, PTL

(* One reconnect at most is armed, it can be cancelled and never closes a    *)
(* working connection; and while attempts are left, a page whose connection  *)
(* failed has one armed, which is all that FailureIsRetried needs besides    *)
(* fairness of the timer (useWebRTC.ts:72, 189, 199, 274).                   *)
THEOREM RetriesMatchFailures == Spec => []RetryMatchesFailure
<1>1. PeerInv => RetryMatchesFailure
  BY DEF PeerInv, RetryMatchesFailure
<1> QED BY <1>1, PeerInvariance, PTL

(* A client that took an offer has the answer in the making: the step of    *)
(* OfferIsAnswered that the promises of the browser need                    *)
(* (useWebRTC.ts:222-235).                                                  *)
THEOREM OffersAreInHand == Spec => []OfferInHand
BY PeerInvariance, PTL DEF PeerInv
=============================================================================
