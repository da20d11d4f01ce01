---------------------------- MODULE MCPasscodes ----------------------------
(* Two devices, two codes and two requests at a time: requests about one     *)
(* device and about different devices meet, and two devices may happen to    *)
(* have the same code.  Two keys: a passcode and the one that replaces it,   *)
(* or one for each device.                                                   *)
EXTENDS Passcodes, TLC

Symmetry == Permutations(Devices) \cup Permutations(Codes)
            \cup Permutations(Ids) \cup Permutations(Requests)
=============================================================================
