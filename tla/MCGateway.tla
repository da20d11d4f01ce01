----------------------------- MODULE MCGateway -----------------------------
(* Two devices on three sockets, so that one of them can reconnect, and two  *)
(* handlers in flight.  One device is the host: the other one asks for it,   *)
(* or it for itself.                                                         *)
EXTENDS Gateway, TLC

Symmetry == Permutations(Sockets) \cup Permutations(Tasks)
=============================================================================
