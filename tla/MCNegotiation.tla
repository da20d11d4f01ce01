---------------------------- MODULE MCNegotiation ----------------------------
(* The latest session, and one that overlaps it or is left from before.     *)
EXTENDS Negotiation

CONSTANTS s1, s2

MCSessions == {s1, s2}
=============================================================================
