-------------------------- MODULE NegotiationProofs --------------------------
(***************************************************************************)
(* Theorems about Negotiation, for any set of sessions.                    *)
(***************************************************************************)
EXTENDS Negotiation, TLAPS

InFlight(type, s) == <<type, s>> \in frames

(* The host has nothing of a session before its offer, but for the           *)
(* connection of an earlier session of that name.                            *)
Fresh(s) ==
  /\ ~InFlight("answer", s)
  /\ HostOpen(s) => hostPcs[s].step = "done" /\ ~hostPcs[s].channel

(* The socket, the request, the acceptance, the connection and the offer of  *)
(* a session come one after the other.                                       *)
Turn(s) ==
  /\ sockets[s] = "connecting" =>
       /\ \A type \in Types : ~InFlight(type, s)
       /\ ~ClientOpen(s) /\ Fresh(s)
  /\ InFlight("request", s) =>
       /\ ~InFlight("accepted", s) /\ ~InFlight("offer", s)
       /\ ~ClientOpen(s) /\ Fresh(s)
  /\ InFlight("accepted", s) => ~InFlight("offer", s) /\ ~ClientOpen(s) /\ Fresh(s)
  /\ ClientOpen(s) /\ clientPcs[s].sig = "new" =>
       clientPcs[s].remote = NoSession /\ ~InFlight("offer", s) /\ Fresh(s)
  /\ InFlight("offer", s) => Fresh(s)
  /\ ClientOpen(s) /\ clientPcs[s].remote = s => ~InFlight("offer", s)
  /\ ClientOpen(s) /\ clientPcs[s].sig # "stable" => clientPcs[s].remote = NoSession
  /\ HostOpen(s) /\ hostPcs[s].channel =>
       hostPcs[s].step = "done" /\ (ClientOpen(s) => clientPcs[s].remote = s)

InTurn == \A s \in Sessions : Turn(s)

(* What is open at the client, or still to come to either end before the     *)
(* host answers, is of one session.                                          *)
InPlay(s) ==
  \/ sockets[s] # "closed" \/ ClientOpen(s)
  \/ \E type \in Types \ {"answer"} : InFlight(type, s)

Paired(s) ==
  /\ ClientOpen(s) /\ HostOpen(s)
  /\ Prompted(s) \/ InFlight("answer", s) \/ clientPcs[s].remote = s

Alone ==
  /\ \A s, t \in Sessions : InPlay(s) /\ InPlay(t) => s = t
  /\ \A s \in Sessions : sockets[s] # "closed" => s = wsRef /\ sockets[s] # "failing"
  /\ \A s \in Sessions : ClientOpen(s) => s = clientPcRef
  /\ \A s \in Sessions : Paired(s) => s = hostPcRef
  /\ sessionState = "connected" => \A s \in Sessions : sockets[s] # "connecting"
  /\ sessionState = "disconnected" => AllClosed

AloneUnlessOverlapped == course # "overlapped" => Alone

(* Nothing was lost: the socket a connection was made by is still open, and  *)
(* its offer, the prompt or the answer is there.                             *)
UnderWay(s) ==
  ClientOpen(s) =>
    /\ sockets[s] = "open"
    /\ Offered(s) => \/ InFlight("offer", s)
                     \/ Listening /\ Prompted(s) /\ hostPcs[s].live
                     \/ InFlight("answer", s)

UnderWayIfPlain == course = "plain" => \A s \in Sessions : UnderWay(s)

Inv ==
  /\ NegotiationTypeOK /\ ConnectedIsTrue
  /\ InTurn /\ AloneUnlessOverlapped /\ UnderWayIfPlain

USE DEF vars, hostVars, clientVars, relayVars, pcsOfHost

-----------------------------------------------------------------------------
(* Types *)

LEMMA HostTypes == ASSUME NegotiationTypeOK, HostNext PROVE NegotiationTypeOK'
<1> USE HostAssumption, RelayAssumption DEF NegotiationTypeOK, RelayTypeOK, HostTypeOK, ClientTypeOK
<1>0. UNCHANGED clientVars
  BY DEF HostNext
<1>1. CASE HostSocketOpens \/ RegisterAck \/ HostSocketCloses \/ OldSocketCloses
  BY <1>0, <1>1 DEF HostSocketOpens, RegisterAck, HostSocketCloses, OldSocketCloses, Disturbed
<1>2. CASE Render
  <2>1. \A s \in Sessions : LeftByCleanup(s) \in HostPc \cup {NoPc}
    BY DEF LeftByCleanup, HostOpen, HostPc
  <2> QED BY <1>0, <1>2, <2>1 DEF Render, Disturbed
<1>3. ASSUME NEW s \in Sessions, Forward(s) PROVE NegotiationTypeOK'
  BY <1>0, <1>3 DEF Forward, Exchanged, Types
<1>4. ASSUME NEW s \in Sessions, OfferArrives(s) PROVE NegotiationTypeOK'
  BY <1>0, <1>4 DEF OfferArrives, Taken, NewHostPc, HostPc
<1>5. ASSUME NEW s \in Sessions, CaptureEnds(s) PROVE NegotiationTypeOK'
  <2>1. [hostPcs[s] EXCEPT !.step = "done", !.live = FALSE] \in HostPc
    BY <1>5 DEF CaptureEnds, HostOpen, HostPc
  <2> QED BY <1>0, <1>5, <2>1 DEF CaptureEnds, Sent, Types
<1>6. ASSUME NEW s \in Sessions, HostOpen(s), HostChannelOpens(s) PROVE NegotiationTypeOK'
  <2>1. [hostPcs[s] EXCEPT !.channel = TRUE] \in HostPc
    BY <1>6 DEF HostOpen, HostPc
  <2> QED BY <1>0, <1>6, <2>1 DEF HostChannelOpens
<1>7. ASSUME NEW s \in Sessions, HostOpen(s), HostChannelCloses(s) PROVE NegotiationTypeOK'
  <2>1. [hostPcs[s] EXCEPT !.channel = FALSE] \in HostPc
    BY <1>7 DEF HostOpen, HostPc
  <2> QED BY <1>0, <1>7, <2>1 DEF HostChannelCloses
<1> QED BY <1>1, <1>2, <1>3, <1>4, <1>5, <1>6, <1>7 DEF HostNext, Linked, Abandoned

LEMMA ClientTypes == ASSUME NegotiationTypeOK, ClientNext PROVE NegotiationTypeOK'
<1> USE ClientAssumption, RelayAssumption
    DEF NegotiationTypeOK, RelayTypeOK, HostTypeOK, ClientTypeOK, SocketState
<1>0. UNCHANGED hostVars
  BY DEF ClientNext
<1>1. ASSUME NEW s \in Sessions, Connect(s) \/ LinkTimerFires(s) \/ PasscodeResolved(s)
      PROVE NegotiationTypeOK'
  BY <1>0, <1>1 DEF Connect, LinkTimerFires, PasscodeResolved, StartConnection
<1>2. CASE LinkPasted \/ HandlePasscodeConnect \/ PasscodeRefused
  BY <1>0, <1>2 DEF LinkPasted, HandlePasscodeConnect, PasscodeRefused
<1>3. ASSUME NEW s \in Sessions, ClientSocketOpens(s) PROVE NegotiationTypeOK'
  BY <1>0, <1>3 DEF ClientSocketOpens, Sent, Types
<1>4. ASSUME NEW s \in Sessions, SocketFails(s) \/ ServerClosesSocket(s)
      PROVE NegotiationTypeOK'
  BY <1>0, <1>4 DEF SocketFails, ServerClosesSocket, Disturbed
<1>5. ASSUME Disconnect, frames' \subseteq frames PROVE NegotiationTypeOK'
  BY <1>0, <1>5 DEF Disconnect, WhenClosed
<1>6. ASSUME NEW s \in Sessions, Accepted(s) PROVE NegotiationTypeOK'
  BY <1>0, <1>6 DEF Accepted, Taken, ClientPc
<1>7. ASSUME NEW s \in Sessions, OfferCreated(s) PROVE NegotiationTypeOK'
  BY <1>0, <1>7 DEF OfferCreated, ClientOpen, Sent, ClientPc, Types
<1>8. ASSUME NEW s \in Sessions, AnswerArrives(s) PROVE NegotiationTypeOK'
  <2>1. \A c \in Sessions : ClientOpen(c) =>
          [clientPcs[c] EXCEPT !.sig = "stable", !.remote = s] \in ClientPc
    BY DEF ClientOpen, ClientPc
  <2> QED BY <1>0, <1>8, <2>1, ZenonT(40) DEF AnswerArrives, Taken
<1>9. ASSUME NEW s \in Sessions, ClientOpen(s), ClientChannelOpens(s) PROVE NegotiationTypeOK'
  BY <1>0, <1>9, ZenonT(40) DEF ClientChannelOpens, ClientOpen, ClientPc
<1> QED BY <1>1, <1>2, <1>3, <1>4, <1>5, <1>6, <1>7, <1>8, <1>9
           DEF ClientNext, Linked, Rejected, DisconnectPressed, Taken

LEMMA RelayTypes == ASSUME NegotiationTypeOK, RelayNext PROVE NegotiationTypeOK'
  BY DEF NegotiationTypeOK, RelayTypeOK, HostTypeOK, ClientTypeOK, RelayNext, Refuse, Lose,
         Exchanged, Taken, Disturbed, Types

LEMMA TypeStep == ASSUME NegotiationTypeOK, [Next]_vars PROVE NegotiationTypeOK'
<1>1. CASE Next
  BY <1>1, HostTypes, ClientTypes, RelayTypes DEF Next
<1>2. CASE UNCHANGED vars
  BY <1>2 DEF NegotiationTypeOK, RelayTypeOK, HostTypeOK, ClientTypeOK
<1> QED BY <1>1, <1>2

LEMMA TypeInit == Init => NegotiationTypeOK
  BY HostAssumption DEF Init, RelayInit, HostInit, ClientInit, NegotiationTypeOK, RelayTypeOK,
     HostTypeOK, ClientTypeOK, SocketState

-----------------------------------------------------------------------------
(* The order of a session *)

LEMMA TurnKept ==
  ASSUME NEW t \in Sessions, Turn(t),
         sockets'[t] = "connecting" => sockets[t] = "connecting",
         ClientOpen(t)' => ClientOpen(t) /\ clientPcs'[t] = clientPcs[t],
         HostOpen(t)' => /\ HostOpen(t)
                         /\ hostPcs'[t].step = hostPcs[t].step
                         /\ hostPcs'[t].channel = hostPcs[t].channel,
         \A type \in Types : InFlight(type, t)' => InFlight(type, t)
  PROVE  Turn(t)'
  BY DEF Turn, Fresh, InFlight, Types

LEMMA TurnHost ==
  ASSUME NegotiationTypeOK, InTurn, HostNext, NEW t \in Sessions PROVE Turn(t)'
<1> USE DEF ClientOpen, HostOpen, InFlight
<1>0. Turn(t) /\ UNCHANGED clientVars
  BY DEF InTurn, HostNext
<1>t. hostPcs \in [Sessions -> HostPc \cup {NoPc}]
  BY DEF NegotiationTypeOK, HostTypeOK
<1>1. CASE HostSocketOpens \/ RegisterAck \/ HostSocketCloses \/ OldSocketCloses
  BY <1>0, <1>1, TurnKept
     DEF HostSocketOpens, RegisterAck, HostSocketCloses, OldSocketCloses
<1>2. CASE Render
  <2>1. HostOpen(t)' => HostOpen(t) /\ hostPcs'[t] = [hostPcs[t] EXCEPT !.live = FALSE]
    BY <1>2 DEF Render, LeftByCleanup
  <2>2. HostOpen(t) => hostPcs[t] \in HostPc
    BY <1>t
  <2>3. HostOpen(t)' => /\ HostOpen(t)
                        /\ hostPcs'[t].step = hostPcs[t].step
                        /\ hostPcs'[t].channel = hostPcs[t].channel
    BY <2>1, <2>2 DEF HostPc
  <2> QED BY <1>0, <1>2, <2>3, TurnKept DEF Render
<1>3. ASSUME NEW s \in Sessions, Forward(s) PROVE Turn(t)'
  <2>1. CASE t = s
    BY <1>0, <1>3, <2>1 DEF Forward, Exchanged, Turn, Fresh, Types
  <2>2. CASE t # s
    BY <1>0, <1>3, <2>2, TurnKept DEF Forward, Exchanged
  <2> QED BY <2>1, <2>2
<1>4. ASSUME NEW s \in Sessions, OfferArrives(s) PROVE Turn(t)'
  <2>1. CASE t = s
    BY <1>0, <1>4, <1>t, <2>1 DEF OfferArrives, NewHostPc, Taken, Turn, Fresh, Types
  <2>2. CASE t # s
    BY <1>0, <1>4, <1>t, <2>2, TurnKept DEF OfferArrives, Taken
  <2> QED BY <2>1, <2>2
<1>5. ASSUME NEW s \in Sessions, CaptureEnds(s) PROVE Turn(t)'
  <2>1. CASE t = s
    BY <1>0, <1>5, <1>t, <2>1 DEF CaptureEnds, Sent, Turn, Fresh, Types
  <2>2. CASE t # s
    BY <1>0, <1>5, <1>t, <2>2, TurnKept DEF CaptureEnds, Sent
  <2> QED BY <2>1, <2>2
<1>6. ASSUME NEW s \in Sessions, Linked(s), HostChannelOpens(s) PROVE Turn(t)'
  <2>1. CASE t = s
    BY <1>0, <1>6, <1>t, <2>1, RelayAssumption DEF HostChannelOpens, Linked, Turn, Fresh, Types
  <2>2. CASE t # s
    BY <1>0, <1>6, <1>t, <2>2, TurnKept DEF HostChannelOpens
  <2> QED BY <2>1, <2>2
<1>7. ASSUME NEW s \in Sessions, HostChannelCloses(s), HostOpen(s) PROVE Turn(t)'
  <2>1. CASE t = s
    BY <1>0, <1>7, <1>t, <2>1 DEF HostChannelCloses, Turn, Fresh, Types
  <2>2. CASE t # s
    BY <1>0, <1>7, <1>t, <2>2, TurnKept DEF HostChannelCloses
  <2> QED BY <2>1, <2>2
<1> QED BY <1>1, <1>2, <1>3, <1>4, <1>5, <1>6, <1>7 DEF HostNext, Abandoned

LEMMA TurnClient ==
  ASSUME NegotiationTypeOK, InTurn, ClientNext, NEW t \in Sessions PROVE Turn(t)'
<1> USE DEF ClientOpen, HostOpen, InFlight
<1>0. Turn(t) /\ UNCHANGED hostVars
  BY DEF InTurn, ClientNext
<1>t. /\ clientPcs \in [Sessions -> ClientPc \cup {NoPc}]
      /\ sockets \in [Sessions -> SocketState]
  BY DEF NegotiationTypeOK, ClientTypeOK
<1>1. ASSUME NEW s \in Sessions, Unused(s), StartConnection(s) PROVE Turn(t)'
  <2>1. CASE t = s
    BY <1>0, <1>1, <1>t, <2>1 DEF StartConnection, Unused, Turn, Fresh, Types
  <2>2. CASE t # s
    BY <1>0, <1>1, <1>t, <2>2, TurnKept DEF StartConnection
  <2> QED BY <2>1, <2>2
<1>2. CASE UNCHANGED <<sockets, clientPcs, frames>>
  BY <1>0, <1>2, TurnKept
<1>3. ASSUME NEW s \in Sessions, ClientSocketOpens(s) PROVE Turn(t)'
  <2>1. CASE t = s
    BY <1>0, <1>3, <1>t, <2>1 DEF ClientSocketOpens, Sent, Turn, Fresh, Types
  <2>2. CASE t # s
    BY <1>0, <1>3, <1>t, <2>2, TurnKept DEF ClientSocketOpens, Sent
  <2> QED BY <2>1, <2>2
<1>4. ASSUME NEW s \in Sessions, SocketFails(s) \/ ServerClosesSocket(s) PROVE Turn(t)'
  BY <1>0, <1>4, <1>t, TurnKept DEF SocketFails, ServerClosesSocket
<1>5. ASSUME Disconnect, frames' \subseteq frames PROVE Turn(t)'
  BY <1>0, <1>5, <1>t, TurnKept DEF Disconnect, WhenClosed
<1>6. ASSUME NEW s \in Sessions, Accepted(s) PROVE Turn(t)'
  <2>1. CASE t = s
    BY <1>0, <1>6, <1>t, <2>1, ClientAssumption DEF Accepted, Taken, Turn, Fresh, Types
  <2>2. CASE t # s
    BY <1>0, <1>6, <1>t, <2>2, TurnKept DEF Accepted, Taken
  <2> QED BY <2>1, <2>2
<1>7. ASSUME NEW s \in Sessions, OfferCreated(s) PROVE Turn(t)'
  <2>1. CASE t = s
    BY <1>0, <1>7, <1>t, <2>1, RelayAssumption DEF OfferCreated, Sent, Turn, Fresh, Types
  <2>2. CASE t # s
    BY <1>0, <1>7, <1>t, <2>2, TurnKept DEF OfferCreated, Sent
  <2> QED BY <2>1, <2>2
<1>8. ASSUME NEW s \in Sessions, AnswerArrives(s) PROVE Turn(t)'
  <2> DEFINE applied == t = clientPcRef /\ ClientOpen(t) /\ clientPcs[t].sig = "have-local-offer"
  <2>1. CASE applied
    <3>1. /\ ClientOpen(t)' /\ clientPcs'[t].sig = "stable" /\ clientPcs'[t].remote = s
          /\ clientPcs[t].remote = NoSession
      BY <1>0, <1>8, <1>t, <2>1, ClientAssumption DEF AnswerArrives, ClientPc, Turn
    <3>2. HostOpen(t) => ~hostPcs[t].channel
      BY <1>0, <2>1, <3>1, RelayAssumption DEF Turn
    <3> QED BY <1>0, <1>8, <2>1, <3>1, <3>2 DEF AnswerArrives, Taken, Turn, Fresh, Types
  <2>2. CASE ~applied
    <3>1. clientPcs'[t] = clientPcs[t]
      BY <1>8, <2>2 DEF AnswerArrives
    <3> QED BY <1>0, <1>8, <3>1, TurnKept DEF AnswerArrives, Taken
  <2> QED BY <2>1, <2>2
<1>9. ASSUME NEW s \in Sessions, Linked(s), ClientChannelOpens(s) PROVE Turn(t)'
  <2>1. CASE t = s
    BY <1>0, <1>9, <1>t, <2>1 DEF ClientChannelOpens, Linked, Turn, Fresh, Types
  <2>2. CASE t # s
    BY <1>0, <1>9, <1>t, <2>2, TurnKept DEF ClientChannelOpens
  <2> QED BY <2>1, <2>2
<1> QED BY <1>1, <1>2, <1>3, <1>4, <1>5, <1>6, <1>7, <1>8, <1>9
       DEF ClientNext, Spare, Connect, LinkTimerFires, PasscodeResolved, LinkPasted,
           HandlePasscodeConnect, PasscodeRefused, Rejected, DisconnectPressed, Taken

LEMMA TurnStep == ASSUME NegotiationTypeOK, InTurn, [Next]_vars PROVE InTurn'
<1>1. ASSUME HostNext PROVE InTurn'
  BY <1>1, TurnHost DEF InTurn
<1>2. ASSUME ClientNext PROVE InTurn'
  BY <1>2, TurnClient DEF InTurn
<1>3. ASSUME RelayNext, NEW t \in Sessions PROVE Turn(t)'
  BY <1>3 DEF RelayNext, Refuse, Lose, Exchanged, Taken, InTurn, Turn, Fresh, InFlight, Types,
              ClientOpen, HostOpen
<1>4. ASSUME UNCHANGED vars, NEW t \in Sessions PROVE Turn(t)'
  BY <1>4, TurnKept DEF InTurn, ClientOpen, HostOpen, InFlight
<1> QED BY <1>1, <1>2, <1>3, <1>4 DEF Next, InTurn

-----------------------------------------------------------------------------
(* What the host says *)

LEMMA ConnectedStep ==
  ASSUME NegotiationTypeOK, InTurn, ConnectedIsTrue, [Next]_vars PROVE ConnectedIsTrue'
<1> USE DEF ConnectedIsTrue, Controlled, HostOpen
<1>t. hostPcs \in [Sessions -> HostPc \cup {NoPc}]
  BY DEF NegotiationTypeOK, HostTypeOK
<1>1. CASE UNCHANGED <<status, hostPcs>>
  BY <1>1
<1>2. CASE status' # "connected"
  BY <1>2
<1>3. ASSUME NEW s \in Sessions, OfferArrives(s) PROVE ConnectedIsTrue'
  <2>1. Fresh(s)
    BY <1>3 DEF InTurn, Turn, OfferArrives, Taken, InFlight
  <2>2. \A x \in Sessions \ {s} : hostPcs'[x] = hostPcs[x]
    BY <1>3, <1>t DEF OfferArrives
  <2> QED BY <1>3, <2>1, <2>2 DEF OfferArrives, Fresh
<1>4. ASSUME NEW s \in Sessions, CaptureEnds(s) PROVE ConnectedIsTrue'
  <2>1. \A x \in Sessions : HostOpen(x) => /\ hostPcs'[x] # NoPc
                                           /\ hostPcs'[x].channel = hostPcs[x].channel
    BY <1>4, <1>t, HostAssumption DEF CaptureEnds, HostPc
  <2> QED BY <1>4, <2>1 DEF CaptureEnds
<1>5. ASSUME NEW s \in Sessions, HostOpen(s), HostChannelOpens(s) PROVE ConnectedIsTrue'
  <2>1. hostPcs'[s] # NoPc /\ hostPcs'[s].channel
    BY <1>5, <1>t, HostAssumption DEF HostChannelOpens, HostPc
  <2> QED BY <2>1
<1> QED BY <1>1, <1>2, <1>3, <1>4, <1>5
       DEF Next, HostNext, ClientNext, RelayNext, HostSocketOpens, RegisterAck, HostSocketCloses,
           OldSocketCloses, Render, Forward, HostChannelCloses, Linked

-----------------------------------------------------------------------------
(* Connections that do not overlap *)

LEMMA AloneHost ==
  ASSUME NegotiationTypeOK, Alone, HostNext PROVE Alone'
<1> USE DEF Alone, Paired, Prompted, ClientOpen, HostOpen, AllClosed
<1>0. UNCHANGED <<sockets, wsRef, clientPcs, clientPcRef, sessionState>>
  BY DEF HostNext
<1>t. hostPcs \in [Sessions -> HostPc \cup {NoPc}]
  BY DEF NegotiationTypeOK, HostTypeOK
<1>1. ASSUME \A s \in Sessions : InPlay(s)' => InPlay(s),
             \A s \in Sessions : Paired(s)' => s = hostPcRef'
      PROVE  Alone'
  BY <1>0, <1>1
<1>2. ASSUME frames' = frames PROVE \A s \in Sessions : InPlay(s)' => InPlay(s)
  BY <1>0, <1>2 DEF InPlay, InFlight
<1>3. CASE HostSocketOpens \/ RegisterAck \/ HostSocketCloses \/ OldSocketCloses
  BY <1>0, <1>1, <1>2, <1>3
     DEF HostSocketOpens, RegisterAck, HostSocketCloses, OldSocketCloses, InFlight
<1>4. CASE Render
  <2>1. ASSUME NEW s \in Sessions, Paired(s)' PROVE FALSE
    <3>1. HostOpen(s) /\ s # hostPcRef /\ hostPcs'[s] = [hostPcs[s] EXCEPT !.live = FALSE]
      BY <1>4, <2>1 DEF Render, LeftByCleanup
    <3>2. hostPcs'[s].step = hostPcs[s].step
      BY <1>t, <3>1 DEF HostPc
    <3> QED BY <1>0, <1>4, <2>1, <3>1, <3>2 DEF Render, InFlight
  <2> QED BY <1>1, <1>2, <1>4, <2>1 DEF Render
<1>5. ASSUME NEW s \in Sessions, Forward(s) PROVE Alone'
  <2>1. \A x \in Sessions : InPlay(x)' => InPlay(x)
    BY <1>0, <1>5 DEF Forward, Exchanged, InPlay, InFlight, Types
  <2>2. \A x \in Sessions : Paired(x)' => x = hostPcRef'
    BY <1>0, <1>5 DEF Forward, Exchanged, InFlight
  <2> QED BY <1>1, <2>1, <2>2
<1>6. ASSUME NEW s \in Sessions, OfferArrives(s) PROVE Alone'
  <2>1. \A x \in Sessions : InPlay(x)' => InPlay(x)
    BY <1>0, <1>6 DEF OfferArrives, Taken, InPlay, InFlight
  <2>2. InPlay(s)
    BY <1>6 DEF OfferArrives, Taken, InPlay, InFlight, Types
  <2>3. \A x \in Sessions : Paired(x)' => InPlay(x)
    BY <1>0 DEF InPlay
  <2>4. hostPcRef' = s
    BY <1>6 DEF OfferArrives
  <2> QED BY <1>1, <2>1, <2>2, <2>3, <2>4
<1>7. ASSUME NEW s \in Sessions, CaptureEnds(s) PROVE Alone'
  <2>1. \A x \in Sessions : InPlay(x)' => InPlay(x)
    BY <1>0, <1>7 DEF CaptureEnds, Sent, InPlay, InFlight
  <2>2. \A x \in Sessions : Paired(x)' => Paired(x)
    BY <1>0, <1>7, <1>t DEF CaptureEnds, Sent, InFlight
  <2> QED BY <1>1, <1>7, <2>1, <2>2 DEF CaptureEnds
<1>8. ASSUME NEW s \in Sessions, HostOpen(s), HostChannelOpens(s) \/ HostChannelCloses(s)
      PROVE  Alone'
  <2>1. frames' = frames /\ hostPcRef' = hostPcRef
    BY <1>8 DEF HostChannelOpens, HostChannelCloses
  <2>2. \A x \in Sessions : HostOpen(x)' => HostOpen(x) /\ hostPcs'[x].step = hostPcs[x].step
    BY <1>8, <1>t DEF HostChannelOpens, HostChannelCloses, HostPc
  <2>3. \A x \in Sessions : Paired(x)' => Paired(x)
    BY <1>0, <2>1, <2>2 DEF InFlight
  <2> QED BY <1>1, <1>2, <2>1, <2>3
<1> QED BY <1>3, <1>4, <1>5, <1>6, <1>7, <1>8 DEF HostNext, Linked, Abandoned

LEMMA AloneStart ==
  ASSUME NegotiationTypeOK, NEW s \in Sessions, Unused(s), StartConnection(s),
         course' # "overlapped", UNCHANGED hostVars
  PROVE  Alone'
<1> USE DEF ClientOpen, HostOpen, InFlight
<1>1. AllClosed /\ frames = {} /\ UNCHANGED <<clientPcs, clientPcRef, frames>>
  BY DEF StartConnection
<1>2. sockets' = [sockets EXCEPT ![s] = "connecting"] /\ wsRef' = s /\ sessionState' = "connecting"
  BY DEF StartConnection
<1>3. sockets \in [Sessions -> SocketState]
  BY DEF NegotiationTypeOK, ClientTypeOK
<1>4. \A x \in Sessions : sockets'[x] # "closed" => x = s /\ sockets'[x] # "failing"
  BY <1>1, <1>2, <1>3 DEF AllClosed
<1>5. \A x \in Sessions : ~ClientOpen(x)'
  BY <1>1 DEF AllClosed
<1> QED BY <1>1, <1>2, <1>4, <1>5 DEF Alone, InPlay, Paired

LEMMA AloneClient ==
  ASSUME NegotiationTypeOK, InTurn, Alone, ClientNext, course' # "overlapped"
  PROVE  Alone'
<1> USE DEF Alone, Paired, Prompted, ClientOpen, HostOpen, AllClosed
<1>0. UNCHANGED hostVars
  BY DEF ClientNext
<1>t. /\ clientPcs \in [Sessions -> ClientPc \cup {NoPc}]
      /\ sockets \in [Sessions -> SocketState]
  BY DEF NegotiationTypeOK, ClientTypeOK
<1>1. ASSUME NEW s \in Sessions, Unused(s), StartConnection(s) PROVE Alone'
  BY <1>0, <1>1, AloneStart
<1>2. ASSUME UNCHANGED <<sockets, wsRef, clientPcs, clientPcRef, frames>>,
             sessionState' = sessionState \/ sessionState' \notin {"connected", "disconnected"}
      PROVE  Alone'
  BY <1>0, <1>2 DEF InPlay, InFlight
<1>3. ASSUME NEW s \in Sessions, ClientSocketOpens(s) PROVE Alone'
  <2>1. \A x \in Sessions : InPlay(x)' => InPlay(x)
    BY <1>3, <1>t DEF ClientSocketOpens, Sent, InPlay, InFlight
  <2>2. \A x \in Sessions : Paired(x)' => Paired(x)
    BY <1>0, <1>3 DEF ClientSocketOpens, Sent, InFlight
  <2> QED BY <1>0, <1>3, <1>t, <2>1, <2>2 DEF ClientSocketOpens
<1>4. ASSUME NEW s \in Sessions, SocketFails(s) \/ ServerClosesSocket(s) PROVE Alone'
  <2>1. /\ sockets' = [sockets EXCEPT ![s] = "closed"]
        /\ wsRef' = IF s = wsRef THEN NoSession ELSE wsRef
        /\ sessionState' = "error" \/ sessionState' = sessionState
        /\ UNCHANGED <<clientPcs, clientPcRef, frames>>
    BY <1>4 DEF SocketFails, ServerClosesSocket
  <2>2. \A x \in Sessions : sockets'[x] # "closed" => x # s /\ sockets'[x] = sockets[x]
    BY <1>t, <2>1
  <2>3. \A x \in Sessions : InPlay(x)' => InPlay(x)
    BY <2>1, <2>2 DEF InPlay, InFlight
  <2>4. \A x \in Sessions : Paired(x)' => Paired(x)
    BY <1>0, <2>1 DEF InFlight
  <2>5. sockets[s] # "closed"
    BY <1>4 DEF SocketFails, ServerClosesSocket
  <2> QED BY <1>0, <2>1, <2>2, <2>3, <2>4, <2>5
<1>5. ASSUME Disconnect, frames' \subseteq frames, \A s \in Sessions : sockets[s] # "connecting"
      PROVE  Alone'
  <2>1. \A x \in Sessions : sockets'[x] = "closed"
    BY <1>5, <1>t DEF Disconnect, WhenClosed, SocketState
  <2>2. \A x \in Sessions : ~ClientOpen(x)'
    BY <1>5, <1>t DEF Disconnect
  <2>3. \A x \in Sessions : InPlay(x)' => InPlay(x)
    BY <1>5, <2>1, <2>2 DEF InPlay, InFlight
  <2> QED BY <1>5, <2>1, <2>2, <2>3 DEF Disconnect
<1>6. ASSUME NEW s \in Sessions, Accepted(s) PROVE Alone'
  <2>1. /\ ~ClientOpen(s) /\ Fresh(s)
        /\ InPlay(s)
    BY <1>6 DEF Accepted, Taken, InTurn, Turn, InPlay, InFlight, Types
  <2>2. \A x \in Sessions : InPlay(x)' => InPlay(x)
    BY <1>6, <1>t, <2>1 DEF Accepted, Taken, InPlay, InFlight
  <2>3. clientPcs'[s].remote = NoSession /\ clientPcRef' = s
    BY <1>6, <1>t DEF Accepted
  <2>4. ~Paired(s)'
    BY <1>0, <1>6, <2>1, <2>3, RelayAssumption DEF Accepted, Taken, Fresh, InFlight
  <2>5. \A x \in Sessions : ClientOpen(x)' => x = s
    BY <2>1, <2>2 DEF InPlay
  <2> QED BY <1>0, <1>6, <2>2, <2>3, <2>4, <2>5 DEF Accepted
<1>7. ASSUME NEW s \in Sessions, OfferCreated(s) PROVE Alone'
  <2>1. \A x \in Sessions : ClientOpen(x)' => ClientOpen(x) /\ clientPcs'[x].remote = clientPcs[x].remote
    BY <1>7, <1>t DEF OfferCreated, ClientPc
  <2>2. \A x \in Sessions : InPlay(x)' => InPlay(x)
    <3>1. InPlay(s)
      BY <1>7 DEF OfferCreated, InPlay
    <3>2. \A x \in Sessions \ {s}, type \in Types : InFlight(type, x)' => InFlight(type, x)
      BY <1>7 DEF OfferCreated, Sent, InFlight
    <3>3. sockets' = sockets
      BY <1>7 DEF OfferCreated
    <3> QED BY <2>1, <3>1, <3>2, <3>3 DEF InPlay
  <2>3. \A x \in Sessions : Paired(x)' => Paired(x)
    BY <1>0, <1>7, <2>1 DEF OfferCreated, Sent, InFlight
  <2> QED BY <1>0, <1>7, <2>1, <2>2, <2>3 DEF OfferCreated
<1>8. ASSUME NEW s \in Sessions, AnswerArrives(s) PROVE Alone'
  <2>1. \A x \in Sessions : ClientOpen(x)' =>
          /\ ClientOpen(x)
          /\ clientPcs'[x].remote = s \/ clientPcs'[x].remote = clientPcs[x].remote
    BY <1>8, <1>t DEF AnswerArrives, ClientPc
  <2>2. \A x \in Sessions : InPlay(x)' => InPlay(x)
    BY <1>8, <2>1 DEF AnswerArrives, Taken, InPlay, InFlight
  <2>3. \A x \in Sessions : Paired(x)' => Paired(x)
    BY <1>0, <1>8, <2>1 DEF AnswerArrives, Taken, InFlight
  <2> QED BY <1>0, <1>8, <2>1, <2>2, <2>3 DEF AnswerArrives
<1>9. ASSUME NEW s \in Sessions, Linked(s), ClientChannelOpens(s) PROVE Alone'
  <2>1. \A x \in Sessions : ClientOpen(x)' => ClientOpen(x) /\ clientPcs'[x].remote = clientPcs[x].remote
    BY <1>9, <1>t DEF ClientChannelOpens, ClientPc, Linked
  <2>2. \A x \in Sessions : InPlay(x)' => InPlay(x)
    BY <1>9, <2>1 DEF ClientChannelOpens, InPlay, InFlight
  <2>3. \A x \in Sessions : Paired(x)' => Paired(x)
    BY <1>0, <1>9, <2>1 DEF ClientChannelOpens, InFlight
  <2>4. \A x \in Sessions : sockets[x] = "connecting" => x = s
    BY <1>9 DEF Linked, InPlay
  <2>5. sockets[s] # "connecting"
    BY <1>9 DEF Linked, InTurn, Turn
  <2> QED BY <1>0, <1>9, <2>1, <2>2, <2>3, <2>4, <2>5 DEF ClientChannelOpens
<1>10. CASE LinkPasted \/ HandlePasscodeConnect \/ PasscodeRefused
  BY <1>2, <1>10 DEF LinkPasted, HandlePasscodeConnect, PasscodeRefused
<1>11. ASSUME NEW s \in Sessions, Rejected(s) PROVE Alone'
  <2>1. \A x \in Sessions : sockets[x] # "closed" => x = s
    BY <1>11 DEF Rejected, InPlay
  <2> QED BY <1>5, <1>11, <2>1 DEF Rejected, Taken
<1>12. CASE DisconnectPressed
  BY <1>5, <1>12 DEF DisconnectPressed
<1> QED BY <1>1, <1>2, <1>3, <1>4, <1>6, <1>7, <1>8, <1>9, <1>10, <1>11, <1>12
       DEF ClientNext, Spare, Connect, LinkTimerFires, PasscodeResolved

LEMMA AloneRelay ==
  ASSUME Alone, RelayNext PROVE Alone'
<1> USE DEF Alone, Paired, Prompted, ClientOpen, HostOpen, AllClosed
<1>0. UNCHANGED <<hostVars, clientVars>>
  BY DEF RelayNext
<1>1. \A x \in Sessions : InPlay(x)' => InPlay(x)
  BY <1>0 DEF RelayNext, Refuse, Lose, Exchanged, Taken, InPlay, InFlight, Types
<1>2. \A x \in Sessions : Paired(x)' => Paired(x)
  BY <1>0 DEF RelayNext, Refuse, Lose, Exchanged, Taken, InFlight, Types
<1> QED BY <1>0, <1>1, <1>2

(* Only a new connection ends an overlap.                                    *)
LEMMA AloneStep ==
  ASSUME NegotiationTypeOK, InTurn, AloneUnlessOverlapped, [Next]_vars
  PROVE  AloneUnlessOverlapped'
<1> SUFFICES ASSUME course' # "overlapped" PROVE Alone'
  BY DEF AloneUnlessOverlapped
<1>1. CASE course # "overlapped"
  <2>1. Alone
    BY <1>1 DEF AloneUnlessOverlapped
  <2>2. CASE UNCHANGED vars
    BY <2>1, <2>2 DEF Alone, InPlay, InFlight, Paired, Prompted, ClientOpen, HostOpen, AllClosed
  <2> QED BY <2>1, <2>2, AloneHost, AloneClient, AloneRelay DEF Next
<1>2. CASE course = "overlapped"
  <2>1. ASSUME course' = course PROVE FALSE
    BY <1>2, <2>1
  <2>2. Disturbed => course' = course
    BY <1>2 DEF Disturbed
  <2>3. ~HostNext
    BY <2>1, <2>2 DEF HostNext, HostSocketOpens, RegisterAck, HostSocketCloses, OldSocketCloses,
       Render, Forward, OfferArrives, CaptureEnds, HostChannelOpens, HostChannelCloses
  <2>4. ~RelayNext
    BY <2>1, <2>2 DEF RelayNext, Refuse, Lose
  <2>5. PICK s \in Sessions : Unused(s) /\ StartConnection(s) /\ UNCHANGED hostVars
    BY <2>1, <2>2, <2>3, <2>4 DEF Next, ClientNext, Spare, Connect, LinkPasted, LinkTimerFires,
       HandlePasscodeConnect, PasscodeResolved, PasscodeRefused, ClientSocketOpens, SocketFails,
       ServerClosesSocket, Accepted, Rejected, Disconnect, DisconnectPressed, OfferCreated,
       AnswerArrives, ClientChannelOpens
  <2> QED BY <2>5, AloneStart
<1> QED BY <1>1, <1>2

-----------------------------------------------------------------------------
(* An offer under way *)

LEMMA UnderWayKept ==
  ASSUME NEW s \in Sessions, UnderWay(s), sockets'[s] = sockets[s],
         ClientOpen(s)' => ClientOpen(s) /\ clientPcs'[s].sig = clientPcs[s].sig,
         InFlight("offer", s) => InFlight("offer", s)',
         InFlight("answer", s) => InFlight("answer", s)',
         Listening => Listening',
         Prompted(s) /\ hostPcs[s].live => Prompted(s)' /\ hostPcs'[s].live
  PROVE  UnderWay(s)'
  BY DEF UnderWay, Offered

LEMMA UnderWayHost ==
  ASSUME NegotiationTypeOK, HostNext, course' = "plain", NEW s \in Sessions, UnderWay(s)
  PROVE  UnderWay(s)'
<1> USE DEF ClientOpen, HostOpen, Prompted, InFlight, Listening
<1>0. UNCHANGED clientVars
  BY DEF HostNext
<1>t. hostPcs \in [Sessions -> HostPc \cup {NoPc}]
  BY DEF NegotiationTypeOK, HostTypeOK
<1>1. CASE HostSocketOpens \/ RegisterAck \/ OldSocketCloses
  BY <1>0, <1>1, UnderWayKept DEF HostSocketOpens, RegisterAck, OldSocketCloses
<1>2. ~HostSocketCloses /\ ~Render
  BY DEF HostSocketCloses, Render, Disturbed
<1>3. ASSUME NEW x \in Sessions, Forward(x) PROVE UnderWay(s)'
  BY <1>0, <1>3, UnderWayKept DEF Forward, Exchanged
<1>4. ASSUME NEW x \in Sessions, OfferArrives(x) PROVE UnderWay(s)'
  <2>1. CASE x = s
    <3>1. NewHostPc \in HostPc /\ NewHostPc.step = "capture" /\ NewHostPc.live
      BY DEF NewHostPc, HostPc
    <3>2. hostPcs'[s] = NewHostPc /\ Listening'
      BY <1>t, <1>4, <2>1 DEF OfferArrives
    <3>3. Prompted(s)' /\ hostPcs'[s].live
      BY <3>1, <3>2, HostAssumption
    <3> QED BY <1>0, <3>2, <3>3 DEF UnderWay, Offered
  <2>2. CASE x # s
    BY <1>0, <1>4, <1>t, <2>2, UnderWayKept DEF OfferArrives, Taken
  <2> QED BY <2>1, <2>2
(* A host that is prompted can send: what made it unable to was a loss.      *)
<1>5. ASSUME NEW x \in Sessions, CaptureEnds(x) PROVE UnderWay(s)'
  <2>1. CASE x = s /\ hostPcs[s].live /\ Listening
    <3>1. InFlight("answer", s)'
      BY <1>5, <2>1 DEF CaptureEnds, Sent
    <3> QED BY <1>0, <3>1 DEF UnderWay, Offered
  <2>2. CASE x = s /\ ~(hostPcs[s].live /\ Listening)
    BY <1>0, <1>5, <2>2 DEF CaptureEnds, UnderWay, Offered
  <2>3. CASE x # s
    BY <1>0, <1>5, <1>t, <2>3, UnderWayKept DEF CaptureEnds, Sent
  <2> QED BY <2>1, <2>2, <2>3
<1>6. ASSUME NEW x \in Sessions, HostOpen(x), HostChannelOpens(x) \/ HostChannelCloses(x)
      PROVE  UnderWay(s)'
  <2>1. Prompted(s) /\ hostPcs[s].live => Prompted(s)' /\ hostPcs'[s].live
    <3>1. x = s /\ Prompted(s) => hostPcs'[s] = [hostPcs[s] EXCEPT !.channel = FALSE]
      BY <1>6, <1>t DEF HostChannelOpens, HostChannelCloses
    <3>2. HostOpen(s) => [hostPcs[s] EXCEPT !.channel = FALSE] \in HostPc
      BY <1>t DEF HostPc
    <3>3. HostOpen(s) => /\ [hostPcs[s] EXCEPT !.channel = FALSE].step = hostPcs[s].step
                         /\ [hostPcs[s] EXCEPT !.channel = FALSE].live = hostPcs[s].live
      BY <1>t DEF HostPc
    <3>4. x # s => hostPcs'[s] = hostPcs[s]
      BY <1>6, <1>t DEF HostChannelOpens, HostChannelCloses
    <3> QED BY <3>1, <3>2, <3>3, <3>4, HostAssumption
  <2>2. frames' = frames /\ hostWs' = hostWs
    BY <1>6 DEF HostChannelOpens, HostChannelCloses
  <2> QED BY <1>0, <2>1, <2>2, UnderWayKept
<1> QED BY <1>1, <1>2, <1>3, <1>4, <1>5, <1>6 DEF HostNext, Linked, Abandoned

LEMMA UnderWayClient ==
  ASSUME NegotiationTypeOK, Alone, ClientNext, course' = "plain", NEW s \in Sessions, UnderWay(s)
  PROVE  UnderWay(s)'
<1> USE DEF ClientOpen, HostOpen, Prompted, InFlight, Listening
<1>0. UNCHANGED hostVars
  BY DEF ClientNext
<1>t. /\ clientPcs \in [Sessions -> ClientPc \cup {NoPc}]
      /\ sockets \in [Sessions -> SocketState]
  BY DEF NegotiationTypeOK, ClientTypeOK
<1>1. ASSUME NEW x \in Sessions, StartConnection(x) PROVE UnderWay(s)'
  BY <1>1 DEF StartConnection, AllClosed, UnderWay
<1>2. CASE UNCHANGED <<sockets, clientPcs, frames>>
  BY <1>0, <1>2, UnderWayKept
<1>3. ASSUME NEW x \in Sessions, ClientSocketOpens(x) PROVE UnderWay(s)'
  <2>1. CASE x = s
    BY <1>0, <1>3, <2>1 DEF ClientSocketOpens, Sent, UnderWay
  <2>2. CASE x # s
    BY <1>0, <1>3, <1>t, <2>2, UnderWayKept DEF ClientSocketOpens, Sent
  <2> QED BY <2>1, <2>2
<1>4. ASSUME NEW x \in Sessions PROVE ~SocketFails(x) /\ ~ServerClosesSocket(x)
  BY DEF SocketFails, ServerClosesSocket, Disturbed
<1>5. ASSUME Disconnect PROVE UnderWay(s)'
  BY <1>5 DEF Disconnect, Alone, UnderWay
<1>6. ASSUME NEW x \in Sessions, Accepted(x) PROVE UnderWay(s)'
  <2>1. CASE x = s
    BY <1>0, <1>6, <1>t, <2>1 DEF Accepted, UnderWay, Offered
  <2>2. CASE x # s
    BY <1>0, <1>6, <1>t, <2>2, UnderWayKept DEF Accepted, Taken
  <2> QED BY <2>1, <2>2
<1>7. ASSUME NEW x \in Sessions, OfferCreated(x) PROVE UnderWay(s)'
  <2>1. CASE x = s
    BY <1>0, <1>7, <2>1 DEF OfferCreated, Sent, UnderWay
  <2>2. CASE x # s
    BY <1>0, <1>7, <1>t, <2>2, UnderWayKept DEF OfferCreated, Sent
  <2> QED BY <2>1, <2>2
(* The socket an answer comes by is open, and so that of this connection.    *)
<1>8. ASSUME NEW x \in Sessions, AnswerArrives(x) PROVE UnderWay(s)'
  <2> SUFFICES ASSUME ClientOpen(s)' PROVE UnderWay(s)'
    BY DEF UnderWay
  <2>1. ClientOpen(s) /\ s = clientPcRef /\ sockets'[s] = "open"
    BY <1>8, ClientAssumption DEF AnswerArrives, Alone, UnderWay
  <2>2. ~Offered(s)'
    BY <1>8, <1>t, <2>1 DEF AnswerArrives, Offered, ClientPc
  <2> QED BY <2>1, <2>2 DEF UnderWay
<1>9. ASSUME NEW x \in Sessions, ClientOpen(x), ClientChannelOpens(x) PROVE UnderWay(s)'
  <2>1. ClientOpen(s)' => ClientOpen(s) /\ clientPcs'[s].sig = clientPcs[s].sig
    BY <1>9, <1>t DEF ClientChannelOpens, ClientPc
  <2> QED BY <1>0, <1>9, <2>1, UnderWayKept DEF ClientChannelOpens
<1> QED BY <1>1, <1>2, <1>3, <1>4, <1>5, <1>6, <1>7, <1>8, <1>9
       DEF ClientNext, Spare, Connect, LinkTimerFires, PasscodeResolved, LinkPasted,
           HandlePasscodeConnect, PasscodeRefused, Rejected, DisconnectPressed, Linked

LEMMA UnderWayStep ==
  ASSUME NegotiationTypeOK, InTurn, AloneUnlessOverlapped, UnderWayIfPlain, [Next]_vars
  PROVE  UnderWayIfPlain'
<1> SUFFICES ASSUME course' = "plain", NEW s \in Sessions PROVE UnderWay(s)'
  BY DEF UnderWayIfPlain
<1>1. CASE course = "plain"
  <2>1. UnderWay(s) /\ Alone
    BY <1>1 DEF UnderWayIfPlain, AloneUnlessOverlapped
  <2>2. CASE RelayNext
    BY <2>1, <2>2, UnderWayKept
       DEF RelayNext, Refuse, Lose, Exchanged, Disturbed, InFlight, ClientOpen, HostOpen, Prompted,
           Listening
  <2>3. CASE UNCHANGED vars
    BY <2>1, <2>3, UnderWayKept DEF InFlight, ClientOpen, HostOpen, Prompted, Listening
  <2> QED BY <2>1, <2>2, <2>3, UnderWayHost, UnderWayClient DEF Next
(* Only a connection that finds nothing left of the one before is plain.     *)
<1>2. CASE course # "plain"
  <2>1. ~Disturbed /\ course' # course
    BY <1>2 DEF Disturbed
  <2>2. PICK x \in Sessions : StartConnection(x)
    BY <2>1 DEF Next, HostNext, ClientNext, RelayNext, HostSocketOpens, RegisterAck,
       HostSocketCloses, OldSocketCloses, Render, Forward, OfferArrives, CaptureEnds,
       HostChannelOpens, HostChannelCloses, Refuse, Lose, Spare, Connect, LinkPasted,
       LinkTimerFires, HandlePasscodeConnect, PasscodeResolved, PasscodeRefused,
       ClientSocketOpens, SocketFails, ServerClosesSocket, Accepted, Rejected, Disconnect,
       DisconnectPressed, OfferCreated, AnswerArrives, ClientChannelOpens
  <2> QED BY <2>2 DEF StartConnection, AllClosed, ClientOpen, UnderWay
<1> QED BY <1>1, <1>2

-----------------------------------------------------------------------------
(* Theorems *)

(* Every session goes through its steps in turn at both ends, and while      *)
(* connections do not overlap all that is open is of one session: what the   *)
(* handlers of App.tsx and WebRTCHost.tsx rely on when they read a ref that  *)
(* another handler may have set.                                             *)
THEOREM NegotiationInvariance == Spec => []Inv
<1>1. Init => Inv
  <2>1. Init => ConnectedIsTrue /\ InTurn /\ AloneUnlessOverlapped /\ UnderWayIfPlain
    BY DEF Init, RelayInit, HostInit, ClientInit, ConnectedIsTrue, InTurn, Turn, Fresh, InFlight,
       AloneUnlessOverlapped, Alone, InPlay, Paired, UnderWayIfPlain, UnderWay, ClientOpen,
       HostOpen, AllClosed
  <2> QED BY <2>1, TypeInit DEF Inv
<1>2. Inv /\ [Next]_vars => Inv'
  BY TypeStep, TurnStep, ConnectedStep, AloneStep, UnderWayStep DEF Inv
<1> QED BY <1>1, <1>2, PTL DEF Spec

(* Every variable of both ends and of the relay keeps its type.              *)
THEOREM NegotiationTyping == Spec => []NegotiationTypeOK
<1>1. Inv => NegotiationTypeOK
  BY DEF Inv
<1> QED BY <1>1, NegotiationInvariance, PTL

(* Unless connections overlap, the two connections that can share a channel  *)
(* are the ones that pcRef holds at either end (WebRTCHost.tsx:131, 223;     *)
(* client-app App.tsx:188, 236).                                             *)
THEOREM ControlIsOfCurrent == Spec => []ControlIsCurrent
<1>1. Inv => ControlIsCurrent
  BY DEF Inv, AloneUnlessOverlapped, Alone, Paired, Linked, ControlIsCurrent
<1> QED BY <1>1, NegotiationInvariance, PTL

(* Unless connections overlap, disconnect leaves the client no open socket   *)
(* and no open connection (client-app App.tsx:266-271).                      *)
THEOREM NothingIsLeftOpen == Spec => []NothingIsLeft
<1>1. Inv => NothingIsLeft
  BY DEF Inv, AloneUnlessOverlapped, Alone, NothingIsLeft
<1> QED BY <1>1, NegotiationInvariance, PTL

(* What EachOfferIsAnswered rests on: while nothing is lost and connections  *)
(* do not overlap, an offer, its prompt or its answer is there, and the      *)
(* socket it comes back by is open (WebRTCHost.tsx:126-202, client-app       *)
(* App.tsx:232-240).                                                         *)
THEOREM OffersAreUnderWay == Spec => []OfferIsUnderWay
<1>1. Inv => OfferIsUnderWay
  BY DEF Inv, UnderWayIfPlain, UnderWay, AloneUnlessOverlapped, Alone, OfferIsUnderWay, Offered,
         InFlight
<1> QED BY <1>1, NegotiationInvariance, PTL

(* A host that says "Connected", while passcodes rotate, sockets of earlier  *)
(* runs close and offers replace its connection, has an open channel; and    *)
(* every open one leads to the connection that applied its answer, or to one *)
(* the client closed, overlaps included (WebRTCHost.tsx:157-169, 217, 32).   *)
THEOREM HostStatusIsTrue == Spec => []ControlHasItsEnds
<1>1. Inv => ChannelHasItsEnd
  BY DEF Inv, InTurn, Turn, ChannelHasItsEnd, Linked, Abandoned
<1>2. Inv => ControlHasItsEnds
  BY <1>1 DEF Inv, ControlHasItsEnds
<1> QED BY <1>2, NegotiationInvariance, PTL
=============================================================================
