-------------------------- MODULE MCBlockHashCache --------------------------
EXTENDS BlockHashCache

(* Hashes 1 and 2 are two versions of block 11. *)
TwoVersions == [k \in Hashes |-> IF k = 2 THEN 11 ELSE 10 + k]
=============================================================================
