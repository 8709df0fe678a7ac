--------------------------- MODULE MCBlockImport ---------------------------
EXTENDS BlockImport

(* Blocks 1 and 2 compete on top of block 0, block 3 extends block 1. *)
ForkNumber == [b \in Blocks |-> IF b = 3 THEN 2 ELSE IF b = 0 THEN 0 ELSE 1]
ForkParent == [b \in Blocks \ {Genesis} |-> IF b = 3 THEN 1 ELSE 0]
=============================================================================
