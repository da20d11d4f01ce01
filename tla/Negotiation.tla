----------------------------- MODULE Negotiation -----------------------------
(***************************************************************************)
(* A client application and a host agent over a relay: how their peer      *)
(* connections are paired, and what each end then says of the session.     *)
(*                                                                         *)
(* The two ends meet in the frames and in the data channel, which opens    *)
(* between connections that applied each other's description.  A closed    *)
(* end is noticed by the other as a channel that closes.                   *)
(***************************************************************************)
EXTENDS HostAgent, ClientApp

vars == <<hostVars, clientVars, relayVars>>

Init == RelayInit /\ HostInit /\ ClientInit

NegotiationTypeOK == RelayTypeOK /\ HostTypeOK /\ ClientTypeOK

Linked(s) ==
  ClientOpen(s) /\ HostOpen(s) /\ clientPcs[s].remote = s /\ hostPcs[s].step = "done"

Abandoned(s) == HostOpen(s) /\ hostPcs[s].channel /\ ~ClientOpen(s)

(* A name is used again once nothing is left of what had it, but for the    *)
(* connections that the host agent never closes.                            *)
Unused(s) ==
  /\ sockets[s] = "closed" /\ ~ClientOpen(s)
  /\ \A type \in Types : <<type, s>> \notin frames
  /\ \A c \in Sessions : ClientOpen(c) => clientPcs[c].remote # s
  /\ HostOpen(s) => hostPcs[s].step = "done" /\ ~hostPcs[s].channel

(* A deferred connection has a name of its own in store.                    *)
Spare(s) == Unused(s) /\ (deferred # "none" => \E x \in Sessions \ {s} : Unused(x))

-----------------------------------------------------------------------------
HostNext ==
  /\ \/ HostSocketOpens \/ RegisterAck \/ HostSocketCloses \/ OldSocketCloses \/ Render
     \/ \E s \in Sessions :
          \/ Forward(s) \/ OfferArrives(s) \/ CaptureEnds(s)
          \/ Linked(s) /\ HostChannelOpens(s)
          \/ Abandoned(s) /\ HostChannelCloses(s)
  /\ UNCHANGED clientVars

ClientNext ==
  /\ \/ \E s \in Sessions :
          \/ Spare(s) /\ (Connect(s) \/ LinkPasted \/ HandlePasscodeConnect)
          \/ Unused(s) /\ (LinkTimerFires(s) \/ PasscodeResolved(s))
          \/ ClientSocketOpens(s) \/ SocketFails(s) \/ ServerClosesSocket(s)
          \/ Accepted(s) \/ Rejected(s) \/ OfferCreated(s) \/ AnswerArrives(s)
          \/ Linked(s) /\ ClientChannelOpens(s)
     \/ PasscodeRefused \/ DisconnectPressed
  /\ UNCHANGED hostVars

RelayNext ==
  /\ \E s \in Sessions : Refuse(s) \/ \E type \in Types : Lose(type, s)
  /\ UNCHANGED <<hostVars, clientVars>>

Next == HostNext \/ ClientNext \/ RelayNext

(* The relay delivers what it does not lose, the browsers settle their       *)
(* promises, and a host learns that the other end of a channel is gone.      *)
(* Nothing is assumed of the users or of what opens and closes sockets.      *)
OfferDelivered(s) == OfferArrives(s) /\ UNCHANGED clientVars
AnswerDelivered(s) == AnswerArrives(s) /\ UNCHANGED hostVars
CloseNoticed(s) == Abandoned(s) /\ HostChannelCloses(s) /\ UNCHANGED clientVars

Fairness == \A s \in Sessions :
  /\ WF_vars(OfferDelivered(s)) /\ WF_vars(AnswerDelivered(s))
  /\ WF_vars(CloseNoticed(s))

Spec == Init /\ [][Next]_vars
FairSpec == Spec /\ Fairness

-----------------------------------------------------------------------------
(* Properties *)

(* A host that says it is under control is: a status set by one connection,  *)
(* socket or run of the effect does not outlive the channel of all others    *)
(* (WebRTCHost.tsx:161-169, 217, 32).                                        *)
ConnectedIsTrue == status = "connected" => Controlled

(* The channel of a host leads to the connection that applied its answer, or *)
(* to one the client has closed: late answers and names that come again do   *)
(* not leave it open to nobody (WebRTCHost.tsx:157-169).                     *)
ChannelHasItsEnd ==
  \A s \in Sessions :
    HostOpen(s) /\ hostPcs[s].channel => Linked(s) \/ Abandoned(s)

(* What the host shows is so at both ends, unless the client has just left.  *)
ControlHasItsEnds == ConnectedIsTrue /\ ChannelHasItsEnd

(* While connections do not overlap, the channel that is open is between the *)
(* connections that the references of both ends hold, so that the next       *)
(* cleanup or disconnect ends it (WebRTCHost.tsx:131, 223; App.tsx:188, 236).*)
ControlIsCurrent ==
  course # "overlapped" =>
    \A s \in Sessions : Linked(s) => s = clientPcRef /\ s = hostPcRef

(* ... and disconnect leaves nothing of the session open at the client,      *)
(* whichever handler was between two awaits (client-app App.tsx:266-271).    *)
NothingIsLeft == course # "overlapped" /\ sessionState = "disconnected" => AllClosed

(* The two ends of an offer that is not answered yet.                        *)
Offered(s) == ClientOpen(s) /\ clientPcs[s].sig = "have-local-offer"
Prompted(s) == HostOpen(s) /\ hostPcs[s].step = "capture"

(* While nothing is lost and connections do not overlap, an offer the client *)
(* waits on is on its way, at the prompt of a host that can still send, or   *)
(* its answer is on the way to the connection that made it                   *)
(* (WebRTCHost.tsx:126-202, client-app App.tsx:232-240).                     *)
OfferIsUnderWay ==
  course = "plain" =>
    \A s \in Sessions : Offered(s) =>
      /\ sockets[s] = "open" /\ s = clientPcRef
      /\ \/ <<"offer", s>> \in frames
         \/ Listening /\ Prompted(s) /\ hostPcs[s].live
         \/ <<"answer", s>> \in frames

(* An offer is answered, although the host keeps the connection of the one   *)
(* before and its user may still be at the prompt of that; unless something  *)
(* was lost on the way (WebRTCHost.tsx:126-202).                             *)
EachOfferIsAnswered ==
  \A s \in Sessions :
    Offered(s) ~> ~Offered(s) \/ course # "plain" \/ ~Listening \/ Prompted(s)

(* When the client has closed its connections the host does not go on saying *)
(* that it is controlled, although no message tells it (App.tsx:266-271,     *)
(* WebRTCHost.tsx:166-169).                                                  *)
ControlEnds ==
  (\A s \in Sessions : ~ClientOpen(s))
    ~> status # "connected" \/ \E s \in Sessions : ClientOpen(s)
=============================================================================
