----------------------------- MODULE HlConsensus -----------------------------
(***************************************************************************)
(* The head selection of src/src/consensus.rs.  Hashes are naturals, so    *)
(* that they are ordered like the 256-bit values of the code.              *)
(***************************************************************************)
EXTENDS Integers

(* The smaller of two hashes. *)
MinHash(a, b) == IF a < b THEN a ELSE b

(***************************************************************************)
(* canonical_head(hash, number), given what the provider answered for the  *)
(* best block number and its hash: the first component of the result, the  *)
(* one the import service uses.                                            *)
(***************************************************************************)
canonical_head(hash, number, current_hash, current_head) ==
  IF number > current_head THEN hash
  ELSE IF number = current_head THEN MinHash(hash, current_hash)
  ELSE current_hash

(***************************************************************************)
(* The two documented rules as one order on blocks: a higher number comes  *)
(* first, and at the same height the lower hash.                           *)
(***************************************************************************)
Precedes(hash, number, other_hash, other_number) ==
  \/ number > other_number
  \/ number = other_number /\ hash < other_hash
=============================================================================
