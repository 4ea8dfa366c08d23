--------------------------- MODULE MCPlayerCalls ----------------------------
(* PlayerCalls on small instances; listeners and bounds are in the cfg.    *)
EXTENDS PlayerCalls
=============================================================================
