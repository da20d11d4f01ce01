-------------------------------- MODULE Relay --------------------------------
(***************************************************************************)
(* What lies between the client application and the host agent: a server   *)
(* that forwards the frames of a session.  It is left open: it may lose,   *)
(* refuse, delay and reorder what it is given, so that what holds here     *)
(* holds whichever of the two servers is in between.                       *)
(*                                                                         *)
(* A session has one socket of the client, which asked for it and where    *)
(* its frames for the client arrive; one acceptance, and so at most one    *)
(* peer connection at either end: all of them go by its name.              *)
(***************************************************************************)

CONSTANTS
  Sessions,         \* bound: those in use at a time
  NoSession, NoPc

VARIABLES
  frames,           \* the frames on their way, as pairs of a type and a session
  course            \* how the latest connection goes: "overlapped" if an earlier one
                    \* was not over, "lossy" once something is lost, or "plain"

relayVars == <<frames, course>>

Types == {"request", "accepted", "rejected", "offer", "answer"}

RelayTypeOK ==
  /\ frames \subseteq Types \X Sessions
  /\ course \in {"plain", "lossy", "overlapped"}

ASSUME RelayAssumption == NoSession \notin Sessions

RelayInit == frames = {} /\ course = "plain"

Sent(type, s) == frames' = frames \cup {<<type, s>>}
Taken(type, s) == <<type, s>> \in frames /\ frames' = frames \ {<<type, s>>}
Exchanged(type, other, s) ==
  <<type, s>> \in frames /\ frames' = (frames \ {<<type, s>>}) \cup {<<other, s>>}

Disturbed == course' = IF course = "plain" THEN "lossy" ELSE course

(* The server is gone, has no such session, or throws.                      *)
Lose(type, s) == Taken(type, s) /\ Disturbed

(* The server has no such host: it is the server that rejects, as the host  *)
(* agent would only answer so to a passcode, and none is ever submitted.    *)
Refuse(s) ==
  /\ Exchanged("request", "rejected", s)
  /\ UNCHANGED course
=============================================================================
