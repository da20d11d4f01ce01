------------------------------ MODULE HostAgent ------------------------------
(***************************************************************************)
(* The signalling and the peer connections of the host agent:              *)
(* WebRTCHost.tsx, under the device id and the passcode of App.tsx.        *)
(*                                                                         *)
(* The component is one effect, run anew when either of them changes.  Its *)
(* handlers belong to the run, and so to the socket, that installed them,  *)
(* while pcRef is shared by all runs.                                      *)
(***************************************************************************)
EXTENDS Relay, Naturals

CONSTANT
  MaxClosing        \* bound: sockets of earlier runs that are still closing

VARIABLES
  hostWs,           \* the socket of the current run: "connecting", "open" once the
                    \* registration is sent, "registered" once it is acknowledged, "closed"
  closing,          \* close events of sockets of earlier runs, still to come
  status,           \* what App shows, with the count of active sessions: 1, if "connected"
  hostPcs,          \* [Sessions -> HostPc \cup {NoPc}]: those not closed
  hostPcRef

hostVars == <<hostWs, closing, status, hostPcs, hostPcRef>>

HostPc == [step : {"capture", "done"},   \* the handler of its offer awaits the user, or is done
           live : BOOLEAN,               \* what it sends may reach the server
           channel : BOOLEAN]            \* the data channel is open

ASSUME HostAssumption == MaxClosing \in Nat \ {0} /\ NoPc \notin HostPc

HostTypeOK ==
  /\ hostWs \in {"connecting", "open", "registered", "closed"}
  /\ closing \in 0..MaxClosing
  /\ status \in {"disconnected", "connecting", "connected"}   \* never "error"
  /\ hostPcs \in [Sessions -> HostPc \cup {NoPc}]
  /\ hostPcRef \in Sessions \cup {NoSession}

HostInit ==
  /\ hostWs = "connecting" /\ closing = 0
  /\ status = "connecting"
  /\ hostPcs = [s \in Sessions |-> NoPc] /\ hostPcRef = NoSession

HostOpen(s) == hostPcs[s] # NoPc
Controlled == \E s \in Sessions : HostOpen(s) /\ hostPcs[s].channel
Listening == hostWs \in {"open", "registered"}

pcsOfHost == <<hostPcs, hostPcRef>>

-----------------------------------------------------------------------------
(* The socket *)

(* ws.onopen sends the registration; its acknowledgement may come after the *)
(* first request.                                                           *)
HostSocketOpens ==
  /\ hostWs = "connecting" /\ hostWs' = "open"
  /\ UNCHANGED <<closing, status, pcsOfHost, relayVars>>

RegisterAck ==
  /\ hostWs = "open" /\ hostWs' = "registered"
  /\ status' = "disconnected"
  /\ UNCHANGED <<closing, pcsOfHost, relayVars>>

(* a slip: the close is reported as the client reports one                  *)
HostSocketClosesAsError ==
  /\ hostWs # "closed" /\ hostWs' = "closed"
  /\ status' = "error" /\ Disturbed
  /\ UNCHANGED <<closing, pcsOfHost, frames>>

(* Nothing opens another socket, until the effect runs again.               *)
HostSocketCloses ==
  /\ hostWs # "closed" /\ hostWs' = "closed"
  /\ status' = "disconnected" /\ Disturbed
  /\ UNCHANGED <<closing, pcsOfHost, frames>>

(* ws.onclose of a run of the effect that has been cleaned up *)
OldSocketCloses ==
  /\ closing > 0 /\ closing' = closing - 1
  /\ status' = "disconnected"
  /\ UNCHANGED <<hostWs, pcsOfHost, relayVars>>

-----------------------------------------------------------------------------
(* The messages *)

(* connection:request:forward is accepted at once.                          *)
Forward(s) ==
  /\ Listening
  /\ Exchanged("request", "accepted", s)
  /\ status' = "connecting"
  /\ UNCHANGED <<hostWs, closing, pcsOfHost, course>>

NewHostPc == [step |-> "capture", live |-> TRUE, channel |-> FALSE]

(* a slip: the reference is set only when there is none *)
OfferArrivesKeepingFirst(s) ==
  /\ Listening /\ Taken("offer", s)
  /\ hostPcs' = [hostPcs EXCEPT ![s] = NewHostPc]
  /\ hostPcRef' = IF hostPcRef = NoSession THEN s ELSE hostPcRef
  /\ UNCHANGED <<hostWs, closing, status, course>>

(* a slip: one offer is enough *)
OfferArrivesOnce(s) ==
  /\ Listening /\ Taken("offer", s)
  /\ IF hostPcRef # NoSession THEN UNCHANGED pcsOfHost
     ELSE /\ hostPcs' = [hostPcs EXCEPT ![s] = NewHostPc]
          /\ hostPcRef' = s
  /\ UNCHANGED <<hostWs, closing, status, course>>

(* webrtc:sdp:offer, up to the prompt.  The connection of an earlier offer  *)
(* is not closed.                                                           *)
OfferArrives(s) ==
  /\ Listening /\ Taken("offer", s)
  /\ hostPcs' = [hostPcs EXCEPT ![s] = NewHostPc]
  /\ hostPcRef' = s
  /\ UNCHANGED <<hostWs, closing, status, course>>

(* The user picks a screen or refuses: the answer is given all the same.    *)
(* The promises it takes read nothing in between.  What is sent on the      *)
(* closed socket of an earlier run is dropped.                              *)
CaptureEnds(s) ==
  /\ HostOpen(s) /\ hostPcs[s].step = "capture"
  /\ hostPcs' = [hostPcs EXCEPT ![s].step = "done", ![s].live = FALSE]
  /\ IF hostPcs[s].live /\ Listening
     THEN Sent("answer", s)
     ELSE UNCHANGED frames
  /\ UNCHANGED <<hostWs, closing, status, hostPcRef, course>>

-----------------------------------------------------------------------------
(* The data channel, whichever connection and run it is of *)

(* dc.onopen *)
HostChannelOpens(s) ==
  /\ hostPcs[s].step = "done" /\ ~hostPcs[s].channel
  /\ hostPcs' = [hostPcs EXCEPT ![s].channel = TRUE]
  /\ status' = "connected"
  /\ UNCHANGED <<hostWs, closing, hostPcRef, relayVars>>

(* a slip: the close of the channel is left to the count *)
HostChannelClosesKeepingStatus(s) ==
  /\ hostPcs[s].channel
  /\ hostPcs' = [hostPcs EXCEPT ![s].channel = FALSE]
  /\ UNCHANGED <<hostWs, closing, status, hostPcRef, relayVars>>

(* dc.onclose *)
HostChannelCloses(s) ==
  /\ hostPcs[s].channel
  /\ hostPcs' = [hostPcs EXCEPT ![s].channel = FALSE]
  /\ status' = "disconnected"
  /\ UNCHANGED <<hostWs, closing, hostPcRef, relayVars>>

-----------------------------------------------------------------------------
(* The effect *)

LeftByCleanup(s) ==
  IF s = hostPcRef \/ ~HostOpen(s) THEN NoPc ELSE [hostPcs[s] EXCEPT !.live = FALSE]

(* a slip: the status is left to the events of the new socket *)
RenderKeepingStatus ==
  /\ closing < MaxClosing
  /\ closing' = IF hostWs = "closed" THEN closing ELSE closing + 1
  /\ hostPcs' = [s \in Sessions |-> LeftByCleanup(s)] /\ hostPcRef' = NoSession
  /\ hostWs' = "connecting"
  /\ Disturbed
  /\ UNCHANGED <<status, frames>>

(* get_device_id answers, or the passcode is rotated: the cleanup closes the *)
(* socket and the connection pcRef holds, which raises no event, and the     *)
(* effect runs anew.  A reference to a closed connection counts as none.     *)
Render ==
  /\ closing < MaxClosing
  /\ closing' = IF hostWs = "closed" THEN closing ELSE closing + 1
  /\ hostPcs' = [s \in Sessions |-> LeftByCleanup(s)] /\ hostPcRef' = NoSession
  /\ hostWs' = "connecting"
  /\ status' = "connecting"
  /\ Disturbed
  /\ UNCHANGED frames
=============================================================================
