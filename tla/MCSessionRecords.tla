-------------------------- MODULE MCSessionRecords --------------------------
(* One session, for sessions do not touch each other, and three updates of   *)
(* it at a time: one may replace what a second is about to write back while  *)
(* a third reads it.                                                         *)
EXTENDS SessionRecords, TLC

Symmetry == Permutations(Tasks)
=============================================================================
