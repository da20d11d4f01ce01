-------------------------- MODULE MCPeerConnection --------------------------
(* Two sessions, and two peer connections: the current one, and the next    *)
(* one or a closed one whose prompt is still open.                          *)
EXTENDS PeerConnection

CONSTANTS s1, s2, p1, p2

MCSessions == {s1, s2}
MCPcs == {p1, p2}
=============================================================================
