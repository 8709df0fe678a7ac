------------------------------ MODULE BodyStore ------------------------------
(***************************************************************************)
(* What the storage of the node promises: a list of block bodies that      *)
(* grows at its end and is cut at its end.  A body is kept as it was given *)
(* apart from its sidecars; for a block given without a body, the empty    *)
(* body is kept.                                                           *)
(***************************************************************************)
EXTENDS Integers, Sequences

CONSTANTS None,
          Batches  \* the lists of optional bodies that may be given

VARIABLE store

EmptyBody == [transactions |-> <<>>, withdrawals |-> None, sidecars |-> None,
              read_precompile_calls |-> None, highest_precompile_address |-> None]

(* What is kept of an optional body. *)
Kept(body) == IF body = None THEN EmptyBody ELSE [body EXCEPT !.sidecars = None]

Init == store = <<>>

Write(batch) ==
  store' = [n \in 1..Len(store) + Len(batch) |->
              IF n <= Len(store) THEN store[n] ELSE Kept(batch[n - Len(store)])]

RemoveAbove(n) == store' = [i \in 1..n |-> store[i]]

Next == \/ \E n \in 0..Len(store) : RemoveAbove(n)
        \/ \E batch \in Batches : Write(batch)

Spec == Init /\ [][Next]_store
=============================================================================
