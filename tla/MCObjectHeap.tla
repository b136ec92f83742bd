---------------------------- MODULE MCObjectHeap ----------------------------
(***************************************************************************)
(* Small instances of ObjectHeap for TLC.                                  *)
(***************************************************************************)
EXTENDS ObjectHeap
=============================================================================
