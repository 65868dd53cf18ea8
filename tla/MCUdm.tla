-------------------------------- MODULE MCUdm -------------------------------
(* Instances of Udm for TLC.                                               *)
EXTENDS Udm, TLC

Symmetry == Permutations(Requests) \cup Permutations(Amfs) \cup Permutations(Supis)
=============================================================================
