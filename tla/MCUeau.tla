------------------------------- MODULE MCUeau -------------------------------
(* Instances of Ueau for TLC.                                              *)
EXTENDS Ueau, TLC

Symmetry == Permutations(Requests) \cup Permutations(Supis)
=============================================================================
