--------------------------- MODULE PeerConnection ---------------------------
(***************************************************************************)
(* The peer connection of the web client: useWebRTC.ts under App.tsx, with *)
(* the socket of useSignaling.ts.                                          *)
(*                                                                         *)
(* A handler of a message, a timer or an event of the browser runs to its  *)
(* first await; what goes on after the await is in pending.  A setState    *)
(* leaves the page dirty until React renders it; with the render goes the  *)
(* effect of useWebRTC, when one of its inputs has changed.  iceServers is *)
(* such an input, and App passes a new array every time (App.tsx:30).      *)
(*                                                                         *)
(* The browser and the other end are external.  Closing a peer connection  *)
(* raises no event, and its promises are never settled.  Candidates are    *)
(* left out: the browser queues them behind the descriptions.              *)
(***************************************************************************)
EXTENDS Naturals, FiniteSets

CONSTANTS
  Sessions, NoSession,
  Pcs, NoPc,              \* bound: peer connections open or with a prompt open
  Freshness,              \* whether iceServers is new on every render
  MaxReconnectAttempts

VARIABLES
  fresh,       \* \in Freshness
  ws,          \* the socket: "connecting", "open", "closed"
  app,         \* sessionId and isHost of App
  shown,       \* the same when the effect last ran
  dirty,       \* a setState waits for its render
  pcs,         \* [Pcs -> Pc \cup {NoPc}]: the peer connections that are not closed
  pcRef, dcRef,
  channels,    \* peer connections whose data channel is open
  pending,     \* what awaits the browser or the user
  attempts,    \* reconnectAttemptsRef
  timers,      \* armed timers, by the attempt they are for
  timerRef,    \* reconnectTimerRef, 0 for null
  status,
  replaced,    \* peer connections begun since one connected or the session changed
  out          \* descriptions and inputs the last step sent

appVars == <<fresh, ws, app, shown>>
retryVars == <<attempts, timers, timerRef>>
pcVars == <<pcs, pcRef, dcRef, channels>>
vars == <<appVars, dirty, pcVars, pending, retryVars, status, replaced, out>>

Role == [session: Sessions \cup {NoSession}, host: BOOLEAN]
Pc == [role: Role,
       sig: {"stable", "have-local-offer", "have-remote-offer"},
       remote: {"none", "stale", "own"},  \* whose negotiation the remote description is of
       conn: {"new", "connected", "disconnected", "failed"}]
Operation == [op: {"capture", "offer", "restart", "iceRestart", "answer"}, pc: Pcs]
Sent == [type: {"offer", "answer", "input"}, session: Sessions \cup {NoSession}, pc: Pcs]

ASSUME PeerConnectionAssumption ==
  /\ Freshness \subseteq BOOLEAN
  /\ MaxReconnectAttempts \in Nat
  /\ NoPc \notin Pc

(* Each reference and each pending operation is well formed.               *)
PeerTypeOK ==
  /\ fresh \in Freshness /\ dirty \in BOOLEAN
  /\ ws \in {"connecting", "open", "closed"}
  /\ app \in Role /\ shown \in Role
  /\ pcs \in [Pcs -> Pc \cup {NoPc}]
  /\ pcRef \in Pcs /\ dcRef \in Pcs \cup {NoPc} /\ channels \subseteq Pcs
  /\ pending \subseteq Operation
  /\ attempts \in 0..MaxReconnectAttempts
  /\ timers \subseteq 1..MaxReconnectAttempts /\ timerRef \in 0..MaxReconnectAttempts
  /\ status \in {"disconnected", "connected", "reconnecting", "error"}
  /\ replaced \in 0..(MaxReconnectAttempts + 1)
  /\ out \subseteq Sent

NewPc(role) == [role |-> role, sig |-> "stable", remote |-> "none", conn |-> "new"]
Visitor == [session |-> NoSession, host |-> FALSE]

OnlyPc(p) == [q \in Pcs |-> IF q = p THEN NewPc(Visitor) ELSE NoPc]

(* The page has loaded and its effects have run once.                      *)
Init ==
  /\ fresh \in Freshness
  /\ ws = "connecting"
  /\ app = Visitor /\ shown = Visitor /\ dirty = FALSE
  /\ pcRef \in Pcs /\ pcs = OnlyPc(pcRef)
  /\ dcRef = NoPc /\ channels = {} /\ pending = {}
  /\ attempts = 0 /\ timers = {} /\ timerRef = 0
  /\ status = "disconnected" /\ replaced = 0 /\ out = {}

-----------------------------------------------------------------------------
(* Peer connections *)

Open(p) == pcs[p] # NoPc
Unused(p) == ~Open(p) /\ \A t \in pending : t.pc # p

More(n) == IF n > MaxReconnectAttempts THEN n ELSE n + 1

(* a slip: the old peer connection is not closed                           *)
InitializeLeavingOld(p, role, left) ==
  /\ Unused(p)
  /\ pcs' = [left EXCEPT ![p] = NewPc(role)]
  /\ pcRef' = p
  /\ dcRef' = IF role.host THEN p ELSE dcRef
  /\ channels' = channels \ {pcRef}
  /\ pending' = {t \in pending : left[t.pc] # NoPc \/ t.op = "capture"}
                \cup {t \in {[op |-> "capture", pc |-> p]} : role.host}

(* initializePeerConnection up to its first await.  left is what its caller *)
(* left open.  Operations of the closed connection never go on, but the     *)
(* user may still answer its prompt.                                        *)
InitializePeerConnection(p, role, left) ==
  /\ Unused(p)
  /\ pcs' = [left EXCEPT ![pcRef] = NoPc, ![p] = NewPc(role)]
  /\ pcRef' = p
  /\ dcRef' = IF role.host THEN p ELSE dcRef
  /\ channels' = channels \ {pcRef}
  /\ pending' = {t \in pending : t.pc # pcRef \/ t.op = "capture"}
                \cup {t \in {[op |-> "capture", pc |-> p]} : role.host}

Send(type, p) ==
  IF ws = "open" THEN {[type |-> type, session |-> pcs[p].role.session, pc |-> p]} ELSE {}

Done(op, p) == pending \ {[op |-> op, pc |-> p]}

(* The user picks a screen.  addTrack throws when the connection has been   *)
(* closed meanwhile, and the user reads that permission was denied.         *)
CaptureGranted(p) ==
  /\ [op |-> "capture", pc |-> p] \in pending
  /\ pending' = IF Open(p) THEN Done("capture", p) \cup {[op |-> "offer", pc |-> p]}
                           ELSE Done("capture", p)
  /\ status' = IF Open(p) THEN status ELSE "error"
  /\ dirty' = (dirty \/ ~Open(p))
  /\ out' = {}
  /\ UNCHANGED <<appVars, pcVars, retryVars, replaced>>

CaptureDenied(p) ==
  /\ [op |-> "capture", pc |-> p] \in pending
  /\ pending' = Done("capture", p)
  /\ status' = "error" /\ dirty' = TRUE
  /\ out' = {}
  /\ UNCHANGED <<appVars, pcVars, retryVars, replaced>>

(* createOffer and setLocalDescription of the host; refused by the browser  *)
(* when an offer of the other end has been taken meanwhile.                 *)
OfferCreated(p) ==
  /\ [op |-> "offer", pc |-> p] \in pending
  /\ pending' = Done("offer", p)
  /\ IF pcs[p].sig = "have-remote-offer"
     THEN status' = "error" /\ dirty' = TRUE /\ out' = {} /\ UNCHANGED pcs
     ELSE /\ pcs' = [pcs EXCEPT ![p].sig = "have-local-offer"]
          /\ out' = Send("offer", p)
          /\ UNCHANGED <<status, dirty>>
  /\ UNCHANGED <<appVars, pcRef, dcRef, channels, retryVars, replaced>>

(* handleIceRestart after its awaits                                        *)
IceRestartCreated(op, p) ==
  /\ [op |-> op, pc |-> p] \in pending
  /\ pending' = Done(op, p)
  /\ IF pcs[p].sig = "have-remote-offer"
     THEN out' = {} /\ UNCHANGED pcs
     ELSE /\ pcs' = [pcs EXCEPT ![p].sig = "have-local-offer"]
          /\ out' = Send("offer", p)
  /\ UNCHANGED <<appVars, dirty, pcRef, dcRef, channels, retryVars, status, replaced>>

-----------------------------------------------------------------------------
(* Reconnecting *)

(* a slip: connecting forgets the timer                                     *)
ConnectedKeepingTimer(p) ==
  /\ Open(p) /\ pcs[p].remote = "own" /\ pcs[p].conn # "connected"
  /\ pcs' = [pcs EXCEPT ![p].conn = "connected"]
  /\ status' = "connected" /\ dirty' = TRUE
  /\ attempts' = 0 /\ replaced' = 0
  /\ out' = {}
  /\ UNCHANGED <<appVars, pcRef, dcRef, channels, pending, timers, timerRef>>

Connected(p) ==
  /\ Open(p) /\ pcs[p].remote = "own" /\ pcs[p].conn # "connected"
  /\ pcs' = [pcs EXCEPT ![p].conn = "connected"]
  /\ status' = "connected" /\ dirty' = TRUE
  /\ attempts' = 0 /\ replaced' = 0
  /\ timers' = timers \ {timerRef} /\ timerRef' = 0
  /\ out' = {}
  /\ UNCHANGED <<appVars, pcRef, dcRef, channels, pending>>

(* Both the connection and its ICE transport report it.                     *)
Disconnected(p) ==
  /\ Open(p) /\ pcs[p].conn = "connected"
  /\ pcs' = [pcs EXCEPT ![p].conn = "disconnected"]
  /\ status' = "reconnecting" /\ dirty' = TRUE
  /\ pending' = IF pcs[p].role.host THEN pending
                ELSE pending \cup [op: {"restart", "iceRestart"}, pc: {pcRef}]
  /\ out' = {}
  /\ UNCHANGED <<appVars, pcRef, dcRef, channels, retryVars, replaced>>

(* a slip: one attempt too many                                             *)
SchedulePastLimit ==
  \/ /\ attempts > MaxReconnectAttempts
     /\ UNCHANGED retryVars
  \/ /\ attempts <= MaxReconnectAttempts
     /\ attempts' = attempts + 1
     /\ timers' = (timers \ {timerRef}) \cup {attempts + 1}
     /\ timerRef' = attempts + 1

(* a slip: the timer is cleared after it has been set                       *)
ScheduleThenClear ==
  \/ /\ attempts >= MaxReconnectAttempts
     /\ UNCHANGED retryVars
  \/ /\ attempts < MaxReconnectAttempts
     /\ attempts' = attempts + 1 /\ timerRef' = attempts + 1
     /\ UNCHANGED timers

(* handleFullReconnect                                                      *)
HandleFullReconnect ==
  \/ /\ attempts >= MaxReconnectAttempts
     /\ UNCHANGED retryVars
  \/ /\ attempts < MaxReconnectAttempts
     /\ attempts' = attempts + 1
     /\ timers' = (timers \ {timerRef}) \cup {attempts + 1}
     /\ timerRef' = attempts + 1

Failed(p) ==
  /\ Open(p) /\ pcs[p].remote # "none" /\ pcs[p].conn # "failed"
  /\ pcs' = [pcs EXCEPT ![p].conn = "failed"]
  /\ status' = "error" /\ dirty' = TRUE
  /\ HandleFullReconnect
  /\ out' = {}
  /\ UNCHANGED <<appVars, pcRef, dcRef, channels, pending, replaced>>

TimerFires(n, p) ==
  /\ n \in timers
  /\ timers' = timers \ {n}
  /\ InitializePeerConnection(p, shown, pcs)
  /\ replaced' = More(replaced)
  /\ out' = {}
  /\ UNCHANGED <<appVars, dirty, attempts, timerRef, status>>

(* The data channel of p opens; a client learns of it by ondatachannel.     *)
ChannelOpen(p) ==
  /\ Open(p) /\ pcs[p].conn = "connected" /\ p \notin channels
  /\ channels' = channels \cup {p}
  /\ dcRef' = IF pcs[p].role.host THEN dcRef ELSE p
  /\ status' = "connected" /\ dirty' = TRUE
  /\ out' = {}
  /\ UNCHANGED <<appVars, pcs, pcRef, pending, retryVars, replaced>>

(* sendInput, from the viewport that App shows with a session               *)
SendInput ==
  /\ app.session # NoSession
  /\ dcRef \in channels
  /\ out' = {[type |-> "input", session |-> pcs[dcRef].role.session, pc |-> dcRef]}
  /\ UNCHANGED <<appVars, dirty, pcVars, pending, retryVars, status, replaced>>

-----------------------------------------------------------------------------
(* Messages.  A handler has the session and the role of the last effect.    *)

(* a slip: the host answers and the client does not                         *)
OfferArrivesRolesSwapped(x) ==
  /\ ws = "open" /\ x = shown.session
  /\ pcs' = [pcs EXCEPT ![pcRef].sig = "have-remote-offer"]
  /\ dirty' \in {dirty, dirty \/ ~shown.host}
  /\ pending' = IF shown.host THEN pending \cup {[op |-> "answer", pc |-> pcRef]} ELSE pending
  /\ out' = {}
  /\ UNCHANGED <<appVars, pcRef, dcRef, channels, retryVars, status, replaced>>

(* webrtc:sdp:offer.  The first one of a host brings its track, and ontrack *)
(* sets the state.                                                          *)
OfferArrives(x) ==
  /\ ws = "open" /\ x = shown.session
  /\ pcs' = [pcs EXCEPT ![pcRef].sig = "have-remote-offer"]
  /\ dirty' \in {dirty, dirty \/ ~shown.host}
  /\ pending' = IF shown.host THEN pending ELSE pending \cup {[op |-> "answer", pc |-> pcRef]}
  /\ out' = {}
  /\ UNCHANGED <<appVars, pcRef, dcRef, channels, retryVars, status, replaced>>

AnswerCreated(p) ==
  /\ [op |-> "answer", pc |-> p] \in pending
  /\ pending' = Done("answer", p)
  /\ IF pcs[p].sig = "have-remote-offer"
     THEN /\ pcs' = [pcs EXCEPT ![p].sig = "stable", ![p].remote = "own",
                                ![p].conn = IF @ = "failed" THEN "new" ELSE @]
          /\ out' = Send("answer", p)
     ELSE out' = {} /\ UNCHANGED pcs
  /\ UNCHANGED <<appVars, dirty, pcRef, dcRef, channels, retryVars, status, replaced>>

(* webrtc:sdp:answer, to the offer that is out or to one of a connection    *)
(* that has been closed; refused when no offer is out.                      *)
AnswerArrives(x, remote) ==
  /\ ws = "open" /\ x = shown.session
  /\ pcs[pcRef].sig = "have-local-offer"
  /\ pcs' = [pcs EXCEPT ![pcRef].sig = "stable", ![pcRef].remote = remote,
                        ![pcRef].conn = IF @ = "failed" THEN "new" ELSE @]
  /\ out' = {}
  /\ UNCHANGED <<appVars, dirty, pcRef, dcRef, channels, pending, retryVars, status, replaced>>

(* connection:request:forward makes the page a host, connection:accepted    *)
(* makes it a client.                                                       *)
SessionArrives(x, host) ==
  /\ ws = "open"
  /\ app' = [session |-> x, host |-> host]
  /\ dirty' = (dirty \/ app' # app)
  /\ out' = {}
  /\ UNCHANGED <<fresh, ws, shown, pcVars, pending, retryVars, status, replaced>>

-----------------------------------------------------------------------------
(* The page *)

SocketOpens ==
  /\ ws = "connecting"
  /\ ws' = "open"
  /\ dirty' = TRUE
  /\ out' = {}
  /\ UNCHANGED <<fresh, app, shown, pcVars, pending, retryVars, status, replaced>>

(* Nothing opens it again while the page lives.                             *)
SocketCloses ==
  /\ ws \in {"connecting", "open"}
  /\ ws' = "closed"
  /\ dirty' = (dirty \/ ws = "open")
  /\ out' = {}
  /\ UNCHANGED <<fresh, app, shown, pcVars, pending, retryVars, status, replaced>>

(* handleConnect and connection:rejected set other state of App.            *)
StateSet ==
  /\ app.session = NoSession \/ ws = "open"
  /\ dirty' = TRUE
  /\ out' = {}
  /\ UNCHANGED <<appVars, pcVars, pending, retryVars, status, replaced>>

(* a slip: the cleanup runs with every render                               *)
RenderClearingTimer(p) ==
  /\ dirty
  /\ dirty' = FALSE
  /\ shown' = app
  /\ timers' = timers \ {timerRef}
  /\ IF fresh \/ app # shown
     THEN /\ InitializePeerConnection(p, app, [pcs EXCEPT ![pcRef] = NoPc])
          /\ replaced' = IF app = shown THEN More(replaced) ELSE 0
     ELSE p = pcRef /\ UNCHANGED <<pcVars, pending, replaced>>
  /\ out' = {}
  /\ UNCHANGED <<fresh, ws, app, attempts, timerRef, status>>

(* React renders the page, and runs the cleanup of the effect and the       *)
(* effect when an input of it changed.                                      *)
Render(p) ==
  /\ dirty
  /\ dirty' = FALSE
  /\ shown' = app
  /\ IF fresh \/ app # shown
     THEN /\ timers' = timers \ {timerRef}
          /\ InitializePeerConnection(p, app, [pcs EXCEPT ![pcRef] = NoPc])
          /\ replaced' = IF app = shown THEN More(replaced) ELSE 0
     ELSE p = pcRef /\ UNCHANGED <<pcVars, pending, timers, replaced>>
  /\ out' = {}
  /\ UNCHANGED <<fresh, ws, app, attempts, timerRef, status>>

(* handleDisconnect reloads the page.                                       *)
HandleDisconnect ==
  /\ app.session # NoSession
  /\ ws' = "connecting"
  /\ app' = Visitor /\ shown' = Visitor /\ dirty' = FALSE
  /\ pcs' = OnlyPc(pcRef) /\ dcRef' = NoPc /\ channels' = {} /\ pending' = {}
  /\ attempts' = 0 /\ timers' = {} /\ timerRef' = 0
  /\ status' = "disconnected" /\ replaced' = 0 /\ out' = {}
  /\ UNCHANGED <<fresh, pcRef>>

Next ==
  \/ \E p \in Pcs :
       \/ CaptureGranted(p) \/ CaptureDenied(p) \/ OfferCreated(p) \/ AnswerCreated(p)
       \/ \E op \in {"restart", "iceRestart"} : IceRestartCreated(op, p)
       \/ Connected(p) \/ Disconnected(p) \/ Failed(p) \/ ChannelOpen(p)
       \/ \E n \in timers : TimerFires(n, p)
       \/ Render(p)
  \/ SendInput
  \/ \E x \in Sessions :
       \/ OfferArrives(x)
       \/ \E remote \in {"stale", "own"} : AnswerArrives(x, remote)
       \/ \E host \in BOOLEAN : SessionArrives(x, host)
  \/ SocketOpens \/ SocketCloses \/ StateSet
  \/ HandleDisconnect

(* The browser settles its promises and fires its timers, React renders.    *)
Fairness ==
  /\ WF_vars(\E p \in Pcs : AnswerCreated(p))
  /\ WF_vars(\E p \in Pcs, n \in timers : TimerFires(n, p))
  /\ WF_vars(\E p \in Pcs : Render(p))

Spec == Init /\ [][Next]_vars
FairSpec == Spec /\ Fairness

-----------------------------------------------------------------------------
(* Properties *)

(* Whatever renders, timers and prompts do, the page holds one peer         *)
(* connection that is not closed (useWebRTC.ts:39, 278).                    *)
OnlyCurrentOpen == {p \in Pcs : Open(p)} = {pcRef}

(* What is sent describes the current connection in the session shown, and  *)
(* inputs go to its channel, although both references are read again after  *)
(* each await (useWebRTC.ts:132, 180, 232, 289).                            *)
SentIsCurrent == \A f \in out : f.pc = pcRef /\ Open(f.pc) /\ f.session = shown.session

(* At most one reconnect is armed, the reference can cancel it, and it is   *)
(* not one that would close a working connection (useWebRTC.ts:72, 199, 274).*)
TimerIsForFailure ==
  timers # {} => timers = {timerRef} /\ pcs[pcRef].conn # "connected"

(* A page that keeps its iceServers gives up after MaxReconnectAttempts new *)
(* connections of which none connects (useWebRTC.ts:190).                   *)
ReconnectsAreBounded == ~fresh => replaced <= MaxReconnectAttempts

(* A page whose connection failed says so, and has a reconnect armed until  *)
(* its attempts are used up: no render, prompt or message drops the timer   *)
(* and keeps the connection (useWebRTC.ts:72, 189, 274).                    *)
FailureHasARetry ==
  pcs[pcRef].conn = "failed" =>
    status = "error" /\ (timers # {} \/ attempts = MaxReconnectAttempts)

(* A reconnect is armed when it is needed and gone when it is not, through  *)
(* all that clears, replaces and outlives the timer.                        *)
RetryMatchesFailure == TimerIsForFailure /\ FailureHasARetry

(* A client that took an offer is making the answer to it, whatever role    *)
(* App is about to take (useWebRTC.ts:222-235).                             *)
OfferInHand ==
  pcs[pcRef].sig = "have-remote-offer" /\ ~pcs[pcRef].role.host =>
    [op |-> "answer", pc |-> pcRef] \in pending

(* A connection that failed recovers or gives way to a new one, unless the  *)
(* attempts are used up, or the user leaves a prompt open (useWebRTC.ts:81).*)
FailureIsRetried ==
  pcs[pcRef].conn = "failed"
    ~> \/ pcs[pcRef].conn # "failed"
       \/ attempts = MaxReconnectAttempts /\ status = "error"
       \/ \E t \in pending : t.op = "capture"

(* A client that took an offer answers it, if its connection is not         *)
(* replaced before (useWebRTC.ts:224).                                      *)
OfferIsAnswered ==
  pcs[pcRef].sig = "have-remote-offer" /\ ~pcs[pcRef].role.host
    ~> pcs[pcRef].sig # "have-remote-offer"

(* useWebRTC.ts:188 and the state machine of implementation_plan.md:441: a  *)
(* connection that works is left alone; a new one follows a failure.        *)
ConnectedIsKept ==
  [][shown' = shown /\ pcs[pcRef].conn = "connected" => pcRef' = pcRef]_vars
=============================================================================
