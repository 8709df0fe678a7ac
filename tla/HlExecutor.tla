----------------------------- MODULE HlExecutor -----------------------------
(***************************************************************************)
(* The block executor (src/src/node/evm): the precompiles a block sees,    *)
(* the execution of its transactions one by one, their receipts, and the   *)
(* header assembled from them.                                             *)
(*                                                                         *)
(* The EVM is external: what a transaction does to the accounts depends on *)
(* its sender, on what its one call returns and on what the accounts were. *)
(* The world is a function from accounts to [code, data].  The chain is    *)
(* mainnet, whose patches and placeholder hashes these are.                *)
(***************************************************************************)
EXTENDS HlTransactions, FiniteSets, FiniteSetsExt

CONSTANTS
  Blocks,            \* the blocks (of the node) that may be executed
  Accounts,          \* the accounts transactions write
  CoreWriter,        \* COREWRITER_CONTRACT_ADDRESS, one of them
  Precompiles,       \* the addresses that may hold a precompile, numbers
  EthPrecompiles,    \* those of Ethereum among them
  LowestRead,        \* 0x800, the lowest address of a read precompile
  DefaultHighest,    \* 0x80D
  WarmBlock,         \* WARM_PRECOMPILES_BLOCK_NUMBER
  CoreWriterBlock,   \* COREWRITER_ENABLED_BLOCK_NUMBER
  PlaceholderBlocks, \* NON_PLACEHOLDER_BLOCK_HASH_HEIGHT
  HashHistory,       \* BLOCK_HASH_HISTORY
  Patches            \* MAINNET_PATCHES_AFTER_TX, a sequence of <<block, index, is_system, account>>

(* A block of the network: system transactions first, and every transaction *)
(* costs gas.                                                               *)
WellFormed(block) ==
  LET txs == block.body.transactions
  IN  /\ Len(txs) \in Nat /\ DOMAIN txs = 1..Len(txs)
      /\ \A i, j \in DOMAIN txs :
           /\ txs[i].gas \in Nat \ {0}
           /\ i < j /\ is_system_transaction(txs[j]) => is_system_transaction(txs[i])

ASSUME BlocksAssumption == \A block \in Blocks : WellFormed(block)

ReadPrecompiles == {a \in Precompiles : a >= LowestRead}

-----------------------------------------------------------------------------
(* The precompiles of a block: None, "native", or a table of recorded calls. *)

(* hl_precompiles: a new EVM has Ethereum's. *)
hl_precompiles == [a \in Precompiles |-> IF a \in EthPrecompiles THEN "native" ELSE None]

(* The highest address that is filled: an Option in the extras. *)
highest(extras) == unwrap_or(extras.highest_precompile_address, DefaultHighest)

(* fill_all_precompiles: an address without a table fails every call. *)
fill_all_precompiles(extras, precompiles) ==
  [a \in Precompiles |-> IF a \in LowestRead..highest(extras) /\ precompiles[a] = None
                         THEN [calls |-> <<>>] ELSE precompiles[a]]

(* apply_precompiles: clear the read precompiles, install the block's, fill. *)
apply_precompiles(number, extras, precompiles) ==
  LET calls == unwrap_or(extras.read_precompile_calls, <<>>)
      applied == [a \in Precompiles |-> IF a \in DOMAIN calls THEN [calls |-> calls[a]]
                                        ELSE IF a \in ReadPrecompiles THEN None
                                        ELSE precompiles[a]]
  IN  IF number >= WarmBlock THEN fill_all_precompiles(extras, applied) ELSE applied

(* run_precompile: a call that was not recorded runs out of gas. *)
run_precompile(table, input) ==
  IF input \notin DOMAIN table THEN <<"OutOfGas">>
  ELSE IF table[input][1] = "Error" THEN <<"OutOfGas">>
  ELSE IF table[input][1] = "UnexpectedError" THEN <<"panic">>
  ELSE table[input]

(* blockhash_returning_placeholder, and what BLOCKHASH does otherwise. *)
blockhash(number, requested) ==
  IF requested >= number \/ number - requested > HashHistory THEN <<"zero">>
  ELSE IF number < PlaceholderBlocks THEN <<"placeholder", requested>>
  ELSE <<"hash", requested>>

-----------------------------------------------------------------------------
(* Transactions. *)

(* What the one call of a transaction returns. *)
answer(tx, number, precompiles, world) ==
  CASE tx.call.op = "none" -> <<"nothing">>
    [] tx.call.op = "blockhash" -> blockhash(number, tx.call.arg)
    [] tx.call.op = "corewriter" -> <<world[CoreWriter].code>>
    [] tx.call.op = "read" ->
         IF precompiles[tx.call.arg[1]] = None THEN <<"empty">>
         ELSE run_precompile(precompiles[tx.call.arg[1]].calls, tx.call.arg[2])

(* Evm::transact: the accounts the transaction changes, not yet committed. *)
transact(tx, sender, number, precompiles, world) ==
  [a \in tx.writes |->
     [world[a] EXCEPT !.data = Append(@, <<tx.id, sender, answer(tx, number, precompiles, world)>>)]]

(* DatabaseCommit::commit. *)
commit(world, changes) ==
  [a \in Accounts |-> IF a \in DOMAIN changes THEN changes[a] ELSE world[a]]

(* Mutation: the index of the table is taken to count from 1. *)
patched_off_by_one(number, index, is_system) ==
  {p[4] : p \in {p \in ToSet(Patches) : p[1] = number /\ p[2] = index + 1 /\ p[3] = is_system}}

(* The accounts patch_mainnet_after_tx removes from the changes. *)
patched(number, index, is_system) ==
  IF Patches = <<>> \/ number \notin Head(Patches)[1]..Last(Patches)[1] THEN {}
  ELSE {p[4] : p \in {p \in ToSet(Patches) : /\ p[1] = number
                                             /\ p[2] = index
                                             /\ p[3] = is_system}}

(* deploy_corewriter_contract. *)
deploy_corewriter_contract(number, world) ==
  IF number # CoreWriterBlock THEN world ELSE [world EXCEPT ![CoreWriter].code = "deployed"]

(* build_receipt. *)
build_receipt(tx, cumulative_gas_used) ==
  [type |-> tx.type, success |-> tx.success,
   cumulative_gas_used |-> cumulative_gas_used, logs |-> tx.logs]

-----------------------------------------------------------------------------
(* The executor. *)

VARIABLE exec  \* the executor of the block being executed, or Idle

Idle == [block |-> None, status |-> "idle"]

ExecInit == exec = Idle

(* context_for_block and context_for_payload: the extras of the body. *)
extras_of(body) ==
  [read_precompile_calls |-> body.read_precompile_calls,
   highest_precompile_address |-> body.highest_precompile_address]

(***************************************************************************)
(* create_executor and apply_pre_execution_changes.  path tells whether    *)
(* the block comes from the tables or from the engine.                     *)
(***************************************************************************)
BeginBlock(block, path, world) ==
  LET number == block.header.number
      extras == extras_of(block.body)
      created == apply_precompiles(number, extras, hl_precompiles)
  IN  /\ exec = Idle
      /\ exec' = [block |-> block, path |-> path, status |-> "running",
                  precompiles |-> apply_precompiles(number, extras, created),
                  world |-> deploy_corewriter_contract(number, world),
                  gas_used |-> 0, receipts |-> <<>>]

(* The transaction to be executed next. *)
NextTx == exec.block.body.transactions[Len(exec.receipts) + 1]

(* The sender it is executed with: recovered first, then put into its environment. *)
Sender(tx, path) ==
  IF path = "engine" THEN from_encoded_tx(tx, recover_signer(tx))
  ELSE from_recovered_tx(tx, recover_signer(tx))

Executing == /\ exec.status = "running"
             /\ Len(exec.receipts) < Len(exec.block.body.transactions)

(* Mutation: system transactions count as well. *)
GasAfterAll(tx, used) == used + tx.gas

(* The gas used by the block after a transaction. *)
GasAfter(tx, used) == IF is_system_transaction(tx) THEN used ELSE used + tx.gas

(***************************************************************************)
(* execute_transaction_with_commit_condition, committing always: the gas   *)
(* check, the EVM, which refuses a transaction with a wrong nonce, balance *)
(* or fee, the gas counted, the patch, the receipt, the commit.            *)
(***************************************************************************)
ExecuteTransaction ==
  LET tx == NextTx
      number == exec.block.header.number
      changes == transact(tx, Sender(tx, exec.path), number, exec.precompiles, exec.world)
      removed == patched(number, Len(exec.receipts), is_system_transaction(tx))
  IN  /\ Executing
      /\ IF tx.gas_limit > exec.block.header.gas_limit - exec.gas_used \/ tx.refused
         THEN exec' = [exec EXCEPT !.status = "failed"]
         ELSE IF answer(tx, number, exec.precompiles, exec.world) = <<"panic">>
         THEN exec' = [exec EXCEPT !.status = "panicked"]
         ELSE exec' = [exec EXCEPT
                         !.gas_used = GasAfter(tx, exec.gas_used),
                         !.receipts = Append(@, build_receipt(tx, GasAfter(tx, exec.gas_used))),
                         !.world = commit(@, [a \in DOMAIN changes \ removed |-> changes[a]])]

(* The executor has finished or given up and is dropped; a panic ends the process. *)
EndBlock ==
  /\ exec # Idle
  /\ ~Executing /\ exec.status # "panicked"
  /\ exec' = Idle

-----------------------------------------------------------------------------
(* The receipts and the header. *)

(* The receipts that count for the header. *)
receipts_for_root(receipts) ==
  SelectSeq(receipts, LAMBDA r : r.cumulative_gas_used # 0)

(* The bloom filter: the set of the logs it was made from. *)
logs_bloom(receipts) == UNION {ToSet(receipts[i].logs) : i \in DOMAIN receipts}

(* Mutation: the receipts of system transactions go into the root. *)
assemble_block_unfiltered(block, receipts, gas_used) ==
  [transactions_root |-> calculate_tx_root(block.body),
   receipts_root |-> receipts,
   logs_bloom |-> logs_bloom(receipts),
   gas_used |-> gas_used]

(***************************************************************************)
(* assemble_block: the fields computed from the execution.  The bloom      *)
(* filter is made from all receipts, the roots from the filtered lists.    *)
(***************************************************************************)
assemble_block(block, receipts, gas_used) ==
  [transactions_root |-> calculate_tx_root(block.body),
   receipts_root |-> receipts_for_root(receipts),
   logs_bloom |-> logs_bloom(receipts),
   gas_used |-> gas_used]

(* verify_receipts. *)
verify_receipts(header, receipts) ==
  receipts = header.receipts_root /\ logs_bloom(receipts) = header.logs_bloom

(* Mutation: the receipts of system transactions are verified as well. *)
validate_block_post_execution_all(header, receipts) ==
  /\ header.gas_used = IF receipts = <<>> THEN 0 ELSE Last(receipts).cumulative_gas_used
  /\ verify_receipts(header, receipts)

(* validate_block_post_execution. *)
validate_block_post_execution(header, receipts) ==
  /\ header.gas_used = IF receipts = <<>> THEN 0 ELSE Last(receipts).cumulative_gas_used
  /\ verify_receipts(header, receipts_for_root(receipts))

ExecNext ==
  \/ \E b \in Blocks, path \in {"tables", "engine"} : \E w : BeginBlock(b, path, w)
  \/ ExecuteTransaction
  \/ EndBlock

ExecSpec == ExecInit /\ [][ExecNext]_exec

-----------------------------------------------------------------------------
(***************************************************************************)
(* Receipts, validation and the RPC layer take a receipt whose cumulative  *)
(* gas is zero for that of a system transaction, and the transactions are  *)
(* told by their price: the two agree, receipt for transaction, at every   *)
(* point of an execution.                                                  *)
(***************************************************************************)
RecognisedByGas ==
  exec # Idle =>
    \A i \in DOMAIN exec.receipts :
      exec.receipts[i].cumulative_gas_used = 0
        <=> is_system_transaction(exec.block.body.transactions[i])
=============================================================================
