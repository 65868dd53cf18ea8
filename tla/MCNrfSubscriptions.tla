------------------------ MODULE MCNrfSubscriptions -------------------------
(* Instances of NrfSubscriptions for TLC.                                  *)
EXTENDS NrfSubscriptions, TLC

Symmetry ==
  Permutations(Instances) \cup Permutations(Discoveries) \cup Permutations(Notifications)
=============================================================================
