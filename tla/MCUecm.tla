------------------------------- MODULE MCUecm -------------------------------
(* Instances of Uecm for TLC.                                              *)
EXTENDS Uecm, TLC

Symmetry == Permutations(Requests) \cup Permutations(Amfs) \cup Permutations(Supis)
=============================================================================
