--------------------------- MODULE HlStorageProofs ---------------------------
(***************************************************************************)
(* The storage keeps its two parts together and is a body store, for every *)
(* sequence of writes and unwinds.  The rows are appended, which needs a   *)
(* key above all others, so that one follows from the other: the table has *)
(* rows for exactly the blocks stored, hence the next block's row can be   *)
(* appended, hence it still has.                                           *)
(***************************************************************************)
EXTENDS HlStorage, TLAPS

(* The inductive invariant: the bodies are a list, and the tables agree. *)
StorageInv ==
  /\ Len(bodies) \in Nat /\ DOMAIN bodies = 1..Len(bodies)
  /\ TablesAgree

(***************************************************************************)
(* A batch is always written: its first row can be appended                *)
(* (write_block_bodies, DbCursorRW::append).                               *)
(***************************************************************************)
LEMMA WritesSucceed ==
  ASSUME StorageInv, NEW batch \in Batches, WriteBlockBodies(batch)
  PROVE  /\ bodies' = [n \in 1..Len(bodies) + Len(batch) |->
                         IF n < Len(bodies) + 1 THEN bodies[n]
                         ELSE EthBody(batch[n - (Len(bodies) + 1) + 1])]
         /\ calls' = [n \in 1..Len(bodies) + Len(batch) |->
                        IF n < Len(bodies) + 1 THEN calls[n]
                        ELSE Row(ExtrasOf(batch[n - (Len(bodies) + 1) + 1]))]
         /\ write_failed' = write_failed
         /\ Len(batch) \in Nat
<1> DEFINE first == Len(bodies) + 1
<1>1. Len(batch) \in Nat
  BY BatchesAssumption
<1>2. Appendable(calls, first)
  BY DEF Appendable, StorageInv, TablesAgree
<1>3. DOMAIN calls \cup first..first + Len(batch) - 1 = 1..Len(bodies) + Len(batch)
  BY <1>1 DEF StorageInv, TablesAgree
<1> QED  BY <1>1, <1>2, <1>3 DEF WriteBlockBodies, write_precompile_calls

(***************************************************************************)
(* Every operation of the storage keeps the inductive invariant            *)
(* (write_block_bodies, remove_block_bodies_above).                        *)
(***************************************************************************)
LEMMA StorageInvPreserved ==
  ASSUME StorageInv, [StorageNext]_storage
  PROVE  StorageInv'
<1>1. ASSUME NEW batch \in Batches, WriteBlockBodies(batch)
      PROVE  StorageInv'
  BY <1>1, WritesSucceed DEF StorageInv, TablesAgree
<1>2. ASSUME NEW block \in 0..Len(bodies), RemoveBlockBodiesAbove(block)
      PROVE  StorageInv'
  <2>1. block \in Nat /\ 1..block \subseteq 1..Len(bodies)
    BY <1>2 DEF StorageInv
  <2>2. Len(bodies') = block /\ DOMAIN bodies' = 1..block
    BY <1>2, <2>1 DEF RemoveBlockBodiesAbove
  <2>3. DOMAIN calls' = 1..block
    <3>1. DOMAIN calls' = {n \in 1..Len(bodies) : n <= block}
      BY <1>2 DEF RemoveBlockBodiesAbove, StorageInv, TablesAgree
    <3> QED  BY <1>2, <2>1, <3>1 DEF StorageInv
  <2> QED  BY <1>2, <2>1, <2>2, <2>3 DEF RemoveBlockBodiesAbove, StorageInv, TablesAgree
<1>3. CASE UNCHANGED storage
  BY <1>3 DEF storage, StorageInv, TablesAgree
<1> QED  BY <1>1, <1>2, <1>3 DEF StorageNext

(***************************************************************************)
(* The bodies and the rows of extras never come apart, and no write ever   *)
(* fails at a row that is already there: for every sequence of batches and *)
(* unwinds (write_block_bodies, remove_block_bodies_above).                *)
(***************************************************************************)
THEOREM StorageKeepsTablesTogether == StorageSpec => []TablesAgree
<1>1. StorageInit => StorageInv
  BY DEF StorageInit, StorageInv, TablesAgree
<1>2. StorageInv /\ [StorageNext]_storage => StorageInv'
  BY StorageInvPreserved
<1>3. StorageInv => TablesAgree
  BY DEF StorageInv
<1> QED  BY <1>1, <1>2, <1>3, PTL DEF StorageSpec

-----------------------------------------------------------------------------
(* The body read of a block, from what the two parts keep of it. *)
Combined(eth, row) ==
  [transactions |-> eth.transactions, withdrawals |-> eth.withdrawals, sidecars |-> None,
   read_precompile_calls |-> unpack(row[1]), highest_precompile_address |-> unpack(row[2])]

(***************************************************************************)
(* Unpacking an option that was packed gives it back (MessagePack of an    *)
(* Option, write_precompile_calls and read_precompile_calls).              *)
(***************************************************************************)
LEMMA UnpackPack ==
  ASSUME NEW option, IsOption(option)
  PROVE  unpack(pack(option)) = option
<1>1. CASE option = None
  BY <1>1 DEF pack, unpack
<1>2. CASE option # None
  <2>1. pack(option) = <<"value", option.some>>
    BY <1>2 DEF pack
  <2>2. option = Some(option.some)
    BY <1>2 DEF IsOption
  <2> QED  BY <2>1, <2>2 DEF unpack
<1> QED  BY <1>1, <1>2

(***************************************************************************)
(* What is read of a block is what was written, without the sidecars; of a *)
(* block without a body, the empty body (read_block_bodies).               *)
(***************************************************************************)
LEMMA ReadBack ==
  ASSUME NEW body, body # None => IsBody(body)
  PROVE  Combined(EthBody(body), Row(ExtrasOf(body))) = Store!Kept(body)
<1>1. CASE body = None
  <2>1. unpack(pack(None)) = None
    BY UnpackPack DEF IsOption
  <2> QED  BY <1>1, <2>1 DEF Combined, EthBody, Row, ExtrasOf, DefaultExtras, Store!Kept,
              Store!EmptyBody
<1>2. CASE body # None
  <2>1. /\ unpack(pack(body.read_precompile_calls)) = body.read_precompile_calls
        /\ unpack(pack(body.highest_precompile_address)) = body.highest_precompile_address
    BY <1>2, UnpackPack DEF IsBody
  <2>2. Combined(EthBody(body), Row(ExtrasOf(body))) =
          [transactions |-> body.transactions, withdrawals |-> body.withdrawals,
           sidecars |-> None, read_precompile_calls |-> body.read_precompile_calls,
           highest_precompile_address |-> body.highest_precompile_address]
    BY <1>2, <2>1 DEF Combined, EthBody, Row, ExtrasOf
  <2>3. Store!Kept(body) = [body EXCEPT !.sidecars = None]
    BY <1>2 DEF Store!Kept
  <2>4. [body EXCEPT !.sidecars = None] =
          [transactions |-> body.transactions, withdrawals |-> body.withdrawals,
           sidecars |-> None, read_precompile_calls |-> body.read_precompile_calls,
           highest_precompile_address |-> body.highest_precompile_address]
    BY <1>2 DEF IsBody
  <2> QED  BY <2>2, <2>3, <2>4
<1> QED  BY <1>1, <1>2

(* The store of the refinement. *)
Stored == [n \in 1..Len(bodies) |-> read_block_body(n)]

(***************************************************************************)
(* As long as the tables agree, what is read of a block comes from its own *)
(* row, never from the default (read_precompile_calls).                    *)
(***************************************************************************)
LEMMA StoredCombines ==
  ASSUME StorageInv
  PROVE  /\ Stored = [n \in 1..Len(bodies) |-> Combined(bodies[n], calls[n])]
         /\ Len(Stored) = Len(bodies)
<1>1. ASSUME NEW n \in 1..Len(bodies)
      PROVE  read_block_body(n) = Combined(bodies[n], calls[n])
  BY DEF StorageInv, TablesAgree, read_block_body, read_precompile_calls, Combined
<1> QED  BY <1>1 DEF Stored, StorageInv

(***************************************************************************)
(* In the next state, too, what is read of a block comes from its own row  *)
(* (read_precompile_calls).                                                *)
(***************************************************************************)
LEMMA StoredCombinesNext ==
  ASSUME StorageInv'
  PROVE  Stored' = [n \in 1..Len(bodies') |-> Combined(bodies'[n], calls'[n])]
<1>1. ASSUME NEW n \in 1..Len(bodies')
      PROVE  read_block_body(n)' = Combined(bodies'[n], calls'[n])
  BY DEF StorageInv, TablesAgree, read_block_body, read_precompile_calls, Combined
<1> QED  BY <1>1 DEF Stored, StorageInv

(***************************************************************************)
(* A batch written is a batch given to the body store                      *)
(* (write_block_bodies).                                                   *)
(***************************************************************************)
LEMMA WriteRefines ==
  ASSUME StorageInv, StorageInv', NEW batch \in Batches, WriteBlockBodies(batch)
  PROVE  Stored' = [n \in 1..Len(Stored) + Len(batch) |->
                      IF n <= Len(Stored) THEN Stored[n]
                      ELSE Store!Kept(batch[n - Len(Stored)])]
<1> DEFINE k == Len(bodies)
           m == Len(batch)
<1>1. /\ k \in Nat /\ m \in Nat /\ Len(Stored) = k
      /\ Stored = [n \in 1..k |-> Combined(bodies[n], calls[n])]
  BY WritesSucceed, StoredCombines DEF StorageInv
<1>2. Len(bodies') = k + m
  BY <1>1, WritesSucceed
<1>3. Stored' = [n \in 1..k + m |-> Combined(bodies'[n], calls'[n])]
  BY <1>2, StoredCombinesNext
<1>4. ASSUME NEW n \in 1..k + m
      PROVE  Combined(bodies'[n], calls'[n]) =
               IF n <= k THEN Stored[n] ELSE Store!Kept(batch[n - k])
  <2>1. CASE n <= k
    <3>1. bodies'[n] = bodies[n] /\ calls'[n] = calls[n]
      BY <1>1, <2>1, WritesSucceed
    <3>2. Stored[n] = Combined(bodies[n], calls[n])
      BY <1>1, <2>1
    <3> QED  BY <2>1, <3>1, <3>2
  <2>2. CASE ~(n <= k)
    <3>1. n - (k + 1) + 1 = n - k /\ n - k \in 1..m /\ ~(n < k + 1)
      BY <1>1, <2>2
    <3>2. bodies'[n] = EthBody(batch[n - k]) /\ calls'[n] = Row(ExtrasOf(batch[n - k]))
      BY <1>1, <3>1, WritesSucceed
    <3>3. batch[n - k] # None => IsBody(batch[n - k])
      BY <3>1, BatchesAssumption
    <3> QED  BY <2>2, <3>2, <3>3, ReadBack
  <2> QED  BY <2>1, <2>2
<1> HIDE DEF k, m
<1>5. Stored' = [n \in 1..k + m |-> IF n <= k THEN Stored[n] ELSE Store!Kept(batch[n - k])]
  BY <1>3, <1>4
<1> QED  BY <1>1, <1>5 DEF m

(***************************************************************************)
(* Blocks removed are blocks removed from the body store                   *)
(* (remove_block_bodies_above).                                            *)
(***************************************************************************)
LEMMA RemoveRefines ==
  ASSUME StorageInv, StorageInv', NEW block \in 0..Len(bodies), RemoveBlockBodiesAbove(block)
  PROVE  Stored' = [i \in 1..block |-> Stored[i]]
<1>1. Len(bodies) \in Nat /\ block \in Nat /\ DOMAIN calls = 1..Len(bodies)
  BY DEF StorageInv, TablesAgree
<1>2. Len(bodies') = block
  BY <1>1 DEF RemoveBlockBodiesAbove
<1>3. ASSUME NEW n \in 1..block
      PROVE  Combined(bodies'[n], calls'[n]) = Stored[n]
  <2>1. bodies'[n] = bodies[n] /\ calls'[n] = calls[n] /\ n \in 1..Len(bodies)
    BY <1>1 DEF RemoveBlockBodiesAbove
  <2>2. Stored[n] = Combined(bodies[n], calls[n])
    BY <2>1, StoredCombines
  <2> QED  BY <2>1, <2>2
<1>4. Stored' = [n \in 1..block |-> Combined(bodies'[n], calls'[n])]
  BY <1>2, StoredCombinesNext
<1> QED  BY <1>3, <1>4

(***************************************************************************)
(* The storage implements the body store, for every sequence of batches    *)
(* and unwinds: what read_block_bodies returns is what write_block_bodies  *)
(* was given, until it is removed.                                         *)
(***************************************************************************)
THEOREM StorageImplementsBodyStore == StorageSpec => StoreRefined
<1>1. ASSUME StorageInit
      PROVE  StorageInv /\ Store!Init
  BY <1>1 DEF StorageInit, StorageInv, TablesAgree, Store!Init
<1>2. StorageInv /\ [StorageNext]_storage => StorageInv'
  BY StorageInvPreserved
<1>3. ASSUME StorageInv, [StorageNext]_storage
      PROVE  [Store!Next]_([n \in 1..Len(bodies) |-> read_block_body(n)])
  <2>1. StorageInv'
    BY <1>3, StorageInvPreserved
  <2>2. ASSUME NEW batch \in Batches, WriteBlockBodies(batch)
        PROVE  Store!Next
    <3>1. Store!Write(batch)
      BY <1>3, <2>1, <2>2, WriteRefines DEF Store!Write, Stored
    <3> QED  BY <3>1 DEF Store!Next
  <2>3. ASSUME NEW block \in 0..Len(bodies), RemoveBlockBodiesAbove(block)
        PROVE  Store!Next
    <3>1. Store!RemoveAbove(block)
      BY <1>3, <2>1, <2>3, RemoveRefines DEF Store!RemoveAbove, Stored
    <3>2. block \in 0..Len([n \in 1..Len(bodies) |-> read_block_body(n)])
      BY <1>3, StoredCombines DEF Stored
    <3> QED  BY <3>1, <3>2 DEF Store!Next
  <2>4. CASE UNCHANGED storage
    BY <2>4 DEF storage, read_block_body, read_precompile_calls
  <2> QED  BY <1>3, <2>2, <2>3, <2>4 DEF StorageNext
<1> QED  BY <1>1, <1>2, <1>3, PTL DEF StorageSpec, StoreRefined, Store!Spec
=============================================================================
