--------------------------- MODULE MCCoreShutdown ---------------------------
(* CoreShutdown on small instances; threads and bounds are in the cfg.     *)
EXTENDS CoreShutdown
=============================================================================
