--------------------------- MODULE HlTransactions ---------------------------
(***************************************************************************)
(* Transactions and blocks: system transactions, the signers read from     *)
(* their signatures, and the conversion of a block of the source into a    *)
(* block of the node (src/src/node/types, src/src/node/spot_meta.rs,       *)
(* src/src/node/primitives/tx_wrapper.rs, src/src/evm/transaction.rs).     *)
(*                                                                         *)
(* A transaction is a record: id stands for its hash, type and price       *)
(* decide whether it is a system transaction, to and input decide the      *)
(* signature of a system transaction, signer is what ECDSA recovers for a  *)
(* user transaction; refused, gas, logs, writes and call are what the EVM  *)
(* makes of it.  Addresses and signature values are numbers: a 20-byte address is   *)
(* one byte and an index of IndexSpan values.                              *)
(***************************************************************************)
EXTENDS Options, Integers, Sequences, SequencesExt

IndexSpan == 256                    \* the values of a token index, 2^64 in the code
NativeAddress == 34 * IndexSpan + 34  \* 0x2222...

(* The price of a transaction: only the old types have a gas price. *)
gas_price(tx) == IF tx.type \in {"Legacy", "Eip2930"} THEN tx.price ELSE None

(* is_system_transaction. *)
is_system_transaction(tx) == gas_price(tx) = 0

(* SpotId::to_s: the byte 0x20 followed by the index, in an address's width. *)
to_s(index) == 32 * IndexSpan + index

(* s_to_address: 1 stands for the native token, else the low 20 bytes. *)
s_to_address(s) == IF s = 1 THEN NativeAddress ELSE s % (256 * IndexSpan)

(* SignerRecoverable: a system transaction carries its sender in s. *)
recover_signer(tx) ==
  IF is_system_transaction(tx) THEN s_to_address(tx.s) ELSE tx.signer

(* from_recovered_tx: the sender the pipeline executes a transaction with. *)
from_recovered_tx(tx, sender) ==
  IF is_system_transaction(tx) THEN recover_signer(tx) ELSE sender

(* from_encoded_tx: the sender a payload of the engine is executed with. *)
from_encoded_tx(tx, sender) == sender

-----------------------------------------------------------------------------
(* The conversion of a block of the source. *)

(* The conversion of this system transaction needs the token of its contract. *)
NeedsSpot(tx) == tx.input # None

(* The transaction types and kinds system_tx_to_reth_transaction panics on. *)
Convertible(tx) == tx.type = "Legacy" /\ tx.to # None

(***************************************************************************)
(* The result of system_tx_to_reth_transaction once the token is known: r  *)
(* is 1 and s tells the sender.                                            *)
(***************************************************************************)
system_tx_to_reth_transaction(tx, spot) ==
  [tx EXCEPT !.s = IF NeedsSpot(tx) THEN to_s(spot) ELSE 1]

(* Mutation: the system transactions come last. *)
to_reth_block_system_last(raw, system_txs) ==
  [header |-> raw.header,
   body |-> [transactions |-> raw.txs \o system_txs,
             withdrawals |-> raw.withdrawals, sidecars |-> None,
             read_precompile_calls |-> Some(raw.read_precompile_calls),
             highest_precompile_address |-> raw.highest_precompile_address]]

(***************************************************************************)
(* SealedBlock::to_reth_block, given the converted system transactions.    *)
(* The read precompile calls are wrapped in Some, whatever they are.       *)
(***************************************************************************)
to_reth_block(raw, system_txs) ==
  [header |-> raw.header,
   body |-> [transactions |-> system_txs \o raw.txs,
             withdrawals |-> raw.withdrawals, sidecars |-> None,
             read_precompile_calls |-> Some(raw.read_precompile_calls),
             highest_precompile_address |-> raw.highest_precompile_address]]

(* BlockBody::calculate_tx_root: the root covers the user transactions only. *)
calculate_tx_root(body) ==
  SelectSeq(body.transactions, LAMBDA tx : ~is_system_transaction(tx))
=============================================================================
