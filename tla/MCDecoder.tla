----------------------------- MODULE MCDecoder -----------------------------
(***************************************************************************)
(* Small instances of Decoder for TLC.                                     *)
(***************************************************************************)
EXTENDS DecoderOrder, TLC

Symmetry == Permutations(Surfaces)
=============================================================================
