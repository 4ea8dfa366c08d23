---------------------------- MODULE MCPaintLoop ----------------------------
(* PaintLoop on small instances; the bounds are in the PaintLoop*.cfg.     *)
EXTENDS PaintLoop
=============================================================================
