-------------------------- MODULE MCEventExposure ---------------------------
(* Instances of EventExposure for TLC.                                     *)
EXTENDS EventExposure, TLC

Symmetry ==
  Permutations(EeRequests) \cup Permutations(Requests \ EeRequests)
    \cup Permutations(Supis) \cup Permutations(EeIds)
=============================================================================
