---------------------------- MODULE MCLifecycle -----------------------------
(***************************************************************************)
(* Small instances of Lifecycle for TLC.                                   *)
(***************************************************************************)
EXTENDS Lifecycle, TLC

(* Ids of one heap are interchangeable.                                    *)
Symmetry ==
  Permutations(SurfaceIds) \cup Permutations(BufferIds) \cup Permutations(ImageIds)
    \cup Permutations(ConfigIds) \cup Permutations(ContextIds)
=============================================================================
