---------------------------- MODULE MCSignaling ----------------------------
(* Two devices, one address, and three sockets: enough for a device to       *)
(* reconnect while its older socket lingers.  Two sessions: the second       *)
(* request of a pair finds the lock of the first held.                       *)
EXTENDS Signaling, TLC

CONSTANTS s1, s2, s3, d1, d2, x1, x2, ip1

MCIpOf == [s \in Sockets |-> ip1]

(* All sockets have the same address, and no device or session is special.   *)
MCSymmetry == Permutations(Sockets) \cup Permutations(Devices) \cup Permutations(SessionIds)
=============================================================================
