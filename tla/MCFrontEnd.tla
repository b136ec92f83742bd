----------------------------- MODULE MCFrontEnd -----------------------------
(***************************************************************************)
(* Small instances of FrontEnd for TLC.                                    *)
(***************************************************************************)
EXTENDS FrontEnd
=============================================================================
