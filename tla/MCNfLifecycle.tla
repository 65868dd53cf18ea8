--------------------------- MODULE MCNfLifecycle ---------------------------
(* Instances of NfLifecycle for TLC.                                       *)
EXTENDS NfLifecycle
=============================================================================
