----------------------------- MODULE MCPipeline -----------------------------
(***************************************************************************)
(* Small instances of Pipeline for TLC.                                    *)
(***************************************************************************)
EXTENDS PipelineOrder

(* What the theorems on the pipeline (PipelineProofs) suppose of the       *)
(* client and of the front-end.                                            *)
ASSUME FilmIsPlayed == PlaysInOrder /\ Prompt
=============================================================================
