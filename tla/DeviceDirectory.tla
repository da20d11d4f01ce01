-------------------------- MODULE DeviceDirectory --------------------------
(***************************************************************************)
(* What the connection manager of the signaling server promises, without   *)
(* its maps: a directory that names, for a device, the one socket messages *)
(* for it go to.                                                           *)
(*                                                                         *)
(*   - the latest claim wins, and the socket it supersedes is expelled:    *)
(*     it loses everything it owned and can never claim again;             *)
(*   - a claim is lost in no other way than by its socket leaving;         *)
(*   - a socket that left never comes back.                                *)
(***************************************************************************)

CONSTANTS Sockets, Devices, NoSocket

VARIABLES
  owner,    \* [Devices -> Sockets \cup {NoSocket}]: where a device is reached
  status    \* [Sockets -> {"fresh", "live", "gone"}]

dirVars == <<owner, status>>

DirInit ==
  /\ owner = [d \in Devices |-> NoSocket]
  /\ status = [s \in Sockets |-> "fresh"]

Join(s) ==
  /\ status[s] = "fresh"
  /\ status' = [status EXCEPT ![s] = "live"]
  /\ UNCHANGED owner

(* Socket s now owns device d; the previous owner of d is expelled. *)
Claim(d, s) ==
  LET expelled == {owner[d]} \ {s, NoSocket}
  IN  /\ status[s] = "live"
      /\ owner' = [e \in Devices |-> IF e = d THEN s
                                     ELSE IF owner[e] \in expelled THEN NoSocket
                                     ELSE owner[e]]
      /\ status' = [t \in Sockets |-> IF t \in expelled THEN "gone" ELSE status[t]]

Leave(leaving) ==
  /\ \A s \in leaving : status[s] = "live"
  /\ owner' = [d \in Devices |-> IF owner[d] \in leaving THEN NoSocket ELSE owner[d]]
  /\ status' = [s \in Sockets |-> IF s \in leaving THEN "gone" ELSE status[s]]

DirNext ==
  \/ \E s \in Sockets : Join(s)
  \/ \E s \in Sockets, d \in Devices : Claim(d, s)
  \/ \E leaving \in SUBSET Sockets : Leave(leaving)

DirSpec == DirInit /\ [][DirNext]_dirVars
=============================================================================
