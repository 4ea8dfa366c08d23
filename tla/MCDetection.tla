----------------------------- MODULE MCDetection -----------------------------
(* DetectionService on small instances: every value is a constant, given in *)
(* the Detection*.cfg files.                                                *)
EXTENDS DetectionInvariant, TLC

(* Clients of one kind are alike: safety runs without threads may permute   *)
(* the decoders.                                                            *)
DecoderSymmetry == Permutations(Decoders)
=============================================================================
