------------------------------ MODULE BlockFeed ------------------------------
(***************************************************************************)
(* What the block poller promises to the node it feeds: a run of blocks    *)
(* without a gap, from some block the source had on, none of which the     *)
(* source does not have.  How long a block takes, and whether one comes at *)
(* all, is left open.                                                      *)
(***************************************************************************)
EXTENDS Naturals, Sequences

VARIABLES tip,  \* the source holds the blocks 1..tip
          fed   \* the numbers of the blocks fed, in order

Init == tip \in Nat \ {0} /\ fed = <<>>

Grow == tip' = tip + 1 /\ UNCHANGED fed

Feed(n) ==
  /\ fed # <<>> => n = fed[Len(fed)] + 1
  /\ fed' = Append(fed, n)
  /\ UNCHANGED tip

Next == Grow \/ \E n \in 1..tip : Feed(n)

Spec == Init /\ [][Next]_<<tip, fed>>
=============================================================================
