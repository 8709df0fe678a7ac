------------------------------ MODULE HlStorage ------------------------------
(***************************************************************************)
(* The chain storage of src/src/node/storage: the bodies of reth's own     *)
(* storage and, beside them, the table BlockReadPrecompileCalls with one   *)
(* row of packed extras per block.                                         *)
(*                                                                         *)
(* reth's part is external: the transactions and withdrawals of the blocks *)
(* 1..Len(bodies), taken to be read as they were written.  Both parts are  *)
(* written in one database transaction; an error drops it.                 *)
(***************************************************************************)
EXTENDS Options, Integers, Sequences

CONSTANT Batches  \* the lists of optional bodies that may be written

IsOption(option) == option = None \/ option = Some(option.some)

(* HlBlockBody: a value of the struct. *)
IsBody(body) ==
  /\ body = [transactions |-> body.transactions, withdrawals |-> body.withdrawals,
             sidecars |-> body.sidecars, read_precompile_calls |-> body.read_precompile_calls,
             highest_precompile_address |-> body.highest_precompile_address]
  /\ IsOption(body.read_precompile_calls) /\ IsOption(body.highest_precompile_address)

ASSUME BatchesAssumption ==
  \A batch \in Batches :
    /\ Len(batch) \in Nat /\ DOMAIN batch = 1..Len(batch)
    /\ \A i \in DOMAIN batch : batch[i] # None => IsBody(batch[i])

VARIABLES bodies,       \* what EthStorage and the provider keep of each block
          calls,        \* BlockReadPrecompileCalls, a function from numbers
          write_failed  \* history: an append has failed

storage == <<bodies, calls, write_failed>>

StorageInit == bodies = <<>> /\ calls = <<>> /\ write_failed = FALSE

(* MessagePack of an Option: nil, or the value. *)
pack(option) == IF option = None THEN <<"nil">> ELSE <<"value", option.some>>

unpack(bytes) == IF bytes[1] = "nil" THEN None ELSE Some(bytes[2])

(* A row: HlExtras packed as an array of its two fields. *)
Row(extras) == <<pack(extras.read_precompile_calls), pack(extras.highest_precompile_address)>>

DefaultExtras == [read_precompile_calls |-> None, highest_precompile_address |-> None]

(* The extras of an optional body. *)
ExtrasOf(body) ==
  IF body = None THEN DefaultExtras
  ELSE [read_precompile_calls |-> body.read_precompile_calls,
        highest_precompile_address |-> body.highest_precompile_address]

(* What EthStorage::write_block_bodies and the provider keep of one. *)
EthBody(body) ==
  IF body = None THEN [transactions |-> <<>>, withdrawals |-> None]
  ELSE [transactions |-> body.transactions, withdrawals |-> body.withdrawals]

(* DbCursorRW::append succeeds for a key above every key of the table. *)
Appendable(table, key) == \A k \in DOMAIN table : k < key

(* write_precompile_calls: the rows of the batch are appended. *)
write_precompile_calls(first, batch) ==
  calls' = [n \in DOMAIN calls \cup first..first + Len(batch) - 1 |->
              IF n < first THEN calls[n] ELSE Row(ExtrasOf(batch[n - first + 1]))]

(* write_block_bodies of the blocks that follow the ones stored. *)
WriteBlockBodies(batch) ==
  LET first == Len(bodies) + 1
  IN  IF Appendable(calls, first)
      THEN /\ bodies' = [n \in 1..Len(bodies) + Len(batch) |->
                          IF n < first THEN bodies[n] ELSE EthBody(batch[n - first + 1])]
           /\ write_precompile_calls(first, batch)
           /\ UNCHANGED write_failed
      ELSE /\ write_failed' = TRUE
           /\ UNCHANGED <<bodies, calls>>

(* Mutation: the rows are kept. *)
RemoveBlockBodiesOnly(block) ==
  /\ bodies' = [n \in 1..block |-> bodies[n]]
  /\ UNCHANGED <<calls, write_failed>>

(* Mutation: the block itself is removed as well. *)
RemoveBlockBodiesFrom(block) ==
  /\ bodies' = [n \in 1..block - 1 |-> bodies[n]]
  /\ calls' = [n \in {n \in DOMAIN calls : n < block} |-> calls[n]]
  /\ UNCHANGED write_failed

(* remove_block_bodies_above: both parts are cut at the block. *)
RemoveBlockBodiesAbove(block) ==
  /\ bodies' = [n \in 1..block |-> bodies[n]]
  /\ calls' = [n \in {n \in DOMAIN calls : n <= block} |-> calls[n]]
  /\ UNCHANGED write_failed

(* read_precompile_calls: the default for a block without a row. *)
read_precompile_calls(number) ==
  IF number \in DOMAIN calls
  THEN [read_precompile_calls |-> unpack(calls[number][1]),
        highest_precompile_address |-> unpack(calls[number][2])]
  ELSE DefaultExtras

(* Mutation: the highest address is left out. *)
read_block_body_without_highest(number) ==
  [transactions |-> bodies[number].transactions,
   withdrawals |-> bodies[number].withdrawals,
   sidecars |-> None,
   read_precompile_calls |-> read_precompile_calls(number).read_precompile_calls,
   highest_precompile_address |-> None]

(* read_block_bodies, for one block. *)
read_block_body(number) ==
  [transactions |-> bodies[number].transactions,
   withdrawals |-> bodies[number].withdrawals,
   sidecars |-> None,
   read_precompile_calls |-> read_precompile_calls(number).read_precompile_calls,
   highest_precompile_address |-> read_precompile_calls(number).highest_precompile_address]

StorageNext == \/ \E batch \in Batches : WriteBlockBodies(batch)
               \/ \E block \in 0..Len(bodies) : RemoveBlockBodiesAbove(block)

StorageSpec == StorageInit /\ [][StorageNext]_storage

-----------------------------------------------------------------------------
(***************************************************************************)
(* The two parts never come apart: the table has a row for exactly the     *)
(* blocks that have a body, after any sequence of writes, failed writes    *)
(* and unwinds, and so no append of a row ever finds its place taken.      *)
(***************************************************************************)
TablesAgree == DOMAIN calls = 1..Len(bodies) /\ ~write_failed

(***************************************************************************)
(* What read_block_bodies returns for the blocks stored is a body store: a *)
(* body is read back as it was written, without its sidecars, until it is  *)
(* removed, whatever happens to the blocks above it.                       *)
(***************************************************************************)
Store == INSTANCE BodyStore WITH store <- [n \in 1..Len(bodies) |-> read_block_body(n)]
StoreRefined == Store!Spec
=============================================================================
