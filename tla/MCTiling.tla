------------------------------ MODULE MCTiling ------------------------------
(***************************************************************************)
(* Small instances of Tiling for TLC.                                      *)
(***************************************************************************)
EXTENDS Tiling
=============================================================================
