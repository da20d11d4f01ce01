------------------------------ MODULE ClientApp ------------------------------
(***************************************************************************)
(* The connections of the client application: client-app's App.tsx.        *)
(*                                                                         *)
(* Each way to connect opens a socket of its own, whose handlers stay with *)
(* it; wsRef and pcRef hold the latest, and count as empty once what they  *)
(* hold is closed.  No close event is handled, and a data channel that     *)
(* closes is not noticed.  The modal that would submit a passcode is never *)
(* shown.                                                                  *)
(***************************************************************************)
EXTENDS Relay

VARIABLES
  sessionState,
  sockets,          \* [Sessions -> SocketState]; "failing": closed before it opened
  wsRef,
  clientPcs,        \* [Sessions -> ClientPc \cup {NoPc}]: those not closed
  clientPcRef,
  deferred          \* the timer of handleIdChange is armed ("link"), or
                    \* handlePasscodeConnect awaits the server ("passcode"), or "none":
                    \* bound: one of them at a time

clientVars == <<sessionState, sockets, wsRef, clientPcs, clientPcRef, deferred>>

SocketState == {"closed", "connecting", "open", "failing"}
ClientPc == [sig : {"new", "have-local-offer", "stable"},
             remote : Sessions \cup {NoSession},   \* whose answer was applied
             channel : BOOLEAN]                    \* dc.onopen has run

ASSUME ClientAssumption == NoPc \notin ClientPc

ClientTypeOK ==
  /\ sessionState \in {"disconnected", "connecting", "connected", "error"}
  /\ sockets \in [Sessions -> SocketState] /\ wsRef \in Sessions \cup {NoSession}
  /\ clientPcs \in [Sessions -> ClientPc \cup {NoPc}]
  /\ clientPcRef \in Sessions \cup {NoSession}
  /\ deferred \in {"none", "link", "passcode"}

ClientInit ==
  /\ sessionState = "disconnected"
  /\ sockets = [s \in Sessions |-> "closed"] /\ wsRef = NoSession
  /\ clientPcs = [s \in Sessions |-> NoPc] /\ clientPcRef = NoSession
  /\ deferred = "none"

ClientOpen(s) == clientPcs[s] # NoPc

AllClosed == \A s \in Sessions : sockets[s] = "closed" /\ ~ClientOpen(s)

-----------------------------------------------------------------------------
(* The ways to connect.  The screen that offers them is shown unless the     *)
(* viewport is.                                                              *)

ScreenShown == sessionState # "connected"

StartConnection(s) ==
  /\ sockets[s] = "closed"
  /\ sockets' = [sockets EXCEPT ![s] = "connecting"] /\ wsRef' = s
  /\ sessionState' = "connecting"
  /\ course' = IF AllClosed /\ frames = {} THEN "plain" ELSE "overlapped"
  /\ UNCHANGED <<clientPcs, clientPcRef, frames>>

(* The button with an id in the field, or handleShareLinkConnect.            *)
Connect(s) == ScreenShown /\ StartConnection(s) /\ UNCHANGED deferred

(* handleIdChange, of a link with a passcode                                 *)
LinkPasted ==
  /\ ScreenShown /\ deferred = "none" /\ deferred' = "link"
  /\ UNCHANGED <<sessionState, sockets, wsRef, clientPcs, clientPcRef, relayVars>>

(* The timer has the id that was in the field before the paste: if that was  *)
(* none, nothing happens.                                                    *)
LinkTimerFires(s) ==
  /\ deferred = "link" /\ deferred' = "none"
  /\ \/ StartConnection(s)
     \/ UNCHANGED <<sessionState, sockets, wsRef, clientPcs, clientPcRef, relayVars>>

HandlePasscodeConnect ==
  /\ ScreenShown /\ deferred = "none"
  /\ deferred' = "passcode" /\ sessionState' = "connecting"
  /\ UNCHANGED <<sockets, wsRef, clientPcs, clientPcRef, relayVars>>

PasscodeResolved(s) ==
  /\ deferred = "passcode" /\ deferred' = "none"
  /\ StartConnection(s)

PasscodeRefused ==
  /\ deferred = "passcode" /\ deferred' = "none"
  /\ sessionState' = "error"
  /\ UNCHANGED <<sockets, wsRef, clientPcs, clientPcRef, relayVars>>

-----------------------------------------------------------------------------
(* The socket *)

(* ws.onopen asks for the device. *)
ClientSocketOpens(s) ==
  /\ sockets[s] = "connecting"
  /\ sockets' = [sockets EXCEPT ![s] = "open"]
  /\ Sent("request", s)
  /\ UNCHANGED <<sessionState, wsRef, clientPcs, clientPcRef, deferred, course>>

(* ws.onerror, of whichever socket *)
SocketFails(s) ==
  /\ sockets[s] # "closed"
  /\ sockets' = [sockets EXCEPT ![s] = "closed"]
  /\ wsRef' = IF s = wsRef THEN NoSession ELSE wsRef
  /\ sessionState' = "error" /\ Disturbed
  /\ UNCHANGED <<clientPcs, clientPcRef, deferred, frames>>

ServerClosesSocket(s) ==
  /\ sockets[s] = "open"
  /\ sockets' = [sockets EXCEPT ![s] = "closed"] /\ Disturbed
  /\ wsRef' = IF s = wsRef THEN NoSession ELSE wsRef
  /\ UNCHANGED <<sessionState, clientPcs, clientPcRef, deferred, frames>>

(* close() of the socket, which fails one that is connecting                 *)
WhenClosed(state) == CASE state = "open" -> "closed"
                       [] state = "connecting" -> "failing"
                       [] OTHER -> state

(* a slip: the peer connection stays open                                    *)
DisconnectSocketOnly ==
  /\ sockets' = [s \in Sessions |-> IF s = wsRef THEN WhenClosed(sockets[s]) ELSE sockets[s]]
  /\ wsRef' = NoSession /\ clientPcRef' = NoSession
  /\ sessionState' = "disconnected"
  /\ UNCHANGED <<clientPcs, deferred, course>>

(* disconnect: what the references hold is closed, no message is sent.       *)
Disconnect ==
  /\ sockets' = [s \in Sessions |-> IF s = wsRef THEN WhenClosed(sockets[s]) ELSE sockets[s]]
  /\ clientPcs' = [s \in Sessions |-> IF s = clientPcRef THEN NoPc ELSE clientPcs[s]]
  /\ wsRef' = NoSession /\ clientPcRef' = NoSession
  /\ sessionState' = "disconnected"
  /\ UNCHANGED <<deferred, course>>

(* the button of the viewport                                                *)
DisconnectPressed == sessionState = "connected" /\ Disconnect /\ UNCHANGED frames

-----------------------------------------------------------------------------
(* The messages, and the peer connection *)

(* connection:rejected, of whichever socket *)
Rejected(s) ==
  /\ sockets[s] = "open"
  /\ Taken("rejected", s)
  /\ Disconnect

(* connection:accepted, up to createOffer *)
Accepted(s) ==
  /\ sockets[s] = "open"
  /\ Taken("accepted", s)
  /\ clientPcs' = [clientPcs EXCEPT ![s] = [sig |-> "new", remote |-> NoSession, channel |-> FALSE]]
  /\ clientPcRef' = s
  /\ UNCHANGED <<sessionState, sockets, wsRef, deferred, course>>

OfferCreated(s) ==
  /\ ClientOpen(s) /\ clientPcs[s].sig = "new"
  /\ clientPcs' = [clientPcs EXCEPT ![s].sig = "have-local-offer"]
  /\ IF sockets[s] = "open" THEN Sent("offer", s) ELSE UNCHANGED frames
  /\ UNCHANGED <<sessionState, sockets, wsRef, clientPcRef, deferred, course>>

(* a slip: whatever state the connection is in                               *)
AnswerArrivesAnyTime(s) ==
  /\ sockets[s] = "open"
  /\ Taken("answer", s)
  /\ clientPcs' = [c \in Sessions |->
       IF c = clientPcRef /\ ClientOpen(c)
       THEN [clientPcs[c] EXCEPT !.sig = "stable", !.remote = s]
       ELSE clientPcs[c]]
  /\ UNCHANGED <<sessionState, sockets, wsRef, clientPcRef, deferred, course>>

(* webrtc:sdp:answer is applied to the connection pcRef holds, whichever it  *)
(* answers; the browser refuses it unless that one waits for an answer.      *)
AnswerArrives(s) ==
  /\ sockets[s] = "open"
  /\ Taken("answer", s)
  /\ clientPcs' = [c \in Sessions |->
       IF c = clientPcRef /\ ClientOpen(c) /\ clientPcs[c].sig = "have-local-offer"
       THEN [clientPcs[c] EXCEPT !.sig = "stable", !.remote = s]
       ELSE clientPcs[c]]
  /\ UNCHANGED <<sessionState, sockets, wsRef, clientPcRef, deferred, course>>

(* dc.onopen, of whichever connection *)
ClientChannelOpens(s) ==
  /\ ~clientPcs[s].channel
  /\ clientPcs' = [clientPcs EXCEPT ![s].channel = TRUE]
  /\ sessionState' = "connected"
  /\ UNCHANGED <<sockets, wsRef, clientPcRef, deferred, relayVars>>
=============================================================================
