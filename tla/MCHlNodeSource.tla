--------------------------- MODULE MCHlNodeSource ---------------------------
EXTENDS HlNodeSource

(* The callers of collect_block are interchangeable. *)
CallerSymmetry == Permutations(Callers)
=============================================================================
