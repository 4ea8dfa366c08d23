--------------------------- MODULE MCSettingsSync ---------------------------
(* SettingsSync on small instances; pages and bounds are in the cfg.       *)
EXTENDS SettingsSync
=============================================================================
