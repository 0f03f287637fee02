--------------------------- MODULE MCClientCache ---------------------------
(* The instance of ClientCache for TLC; its run checks liveness, so there  *)
(* is no symmetry.                                                         *)
EXTENDS ClientCache, TLC
=============================================================================
