------------------------------ MODULE NodeChain ------------------------------
(***************************************************************************)
(* The chain of the node: blocks are validated, executed and stored, on    *)
(* two paths.  The pipeline writes a batch of bodies and then executes     *)
(* what it reads back from the tables.  The engine executes a payload in   *)
(* memory and has it written later.  A crash loses what is in memory, and  *)
(* an unwind cuts the tables.                                              *)
(*                                                                         *)
(* The stages and the engine are reth's (external); the operations they    *)
(* call, the executor, the validation and the storage, are this node's.    *)
(***************************************************************************)
EXTENDS HlExecutor, HlStorage

CONSTANTS GenesisHeader,  \* the header of block 0
          GenesisWorld,
          MaxBatch,       \* bound on the bodies written by one run of a stage
          MaxUnwinds      \* bound on the unwinds asked for from outside

VARIABLES headers,   \* the headers of the blocks stored
          results,   \* the receipts and the world after each block executed and stored
          memory,    \* blocks executed by the engine and not stored yet, with results
          unwinds    \* the unwinds so far

chain == <<storage, headers, results, memory, unwinds, exec>>

ChainInit ==
  /\ StorageInit /\ ExecInit
  /\ headers = <<>> /\ results = <<>> /\ memory = <<>>
  /\ unwinds = 0

(* The first n elements. *)
Cut(seq, n) == [i \in 1..n |-> seq[i]]

(* The block n as the tables have it. *)
StoredBlock(n) == [header |-> headers[n], body |-> read_block_body(n)]

(* The blocks the node has executed: the canonical chain. *)
Height == Len(results) + Len(memory)
Block(n) == IF n <= Len(results) THEN StoredBlock(n) ELSE memory[n - Len(results)].block
Result(n) == IF n <= Len(results) THEN results[n] ELSE memory[n - Len(results)].result
HeaderOf(n) == IF n = 0 THEN GenesisHeader ELSE Block(n).header
World == IF Height = 0 THEN GenesisWorld ELSE Result(Height).world

(* validate_header_against_parent; equal timestamps are allowed.  The blob gas *)
(* fields, which only reth computes with, are left out.                        *)
validate_header_against_parent(header, parent) ==
  /\ header.number = parent.number + 1 /\ header.parent_hash = parent.hash
  /\ header.timestamp >= parent.timestamp

(* validate_body_against_header, of which the transactions root is kept: a *)
(* block here has no ommers, and the root of its withdrawals is reth's.    *)
validate_body_against_header(body, header) ==
  header.transactions_root = calculate_tx_root(body)

(* validate_block_pre_execution: the checks, that of the transactions root *)
(* among them, are commented out.                                          *)
validate_block_pre_execution(block) == TRUE

(* The body handed to the storage: none for a block with nothing in it.  How *)
(* the downloader tells is reth's.                                           *)
Downloaded(block) ==
  IF /\ block.body.transactions = <<>>
     /\ block.body.read_precompile_calls = Some(<<>>)
     /\ block.body.highest_precompile_address = None
  THEN None ELSE block.body

(* The bodies stage: a batch of validated blocks on top of the ones stored. *)
BodiesStage(batch) ==
  LET parent(i) == IF i > 1 THEN batch[i - 1].header
                   ELSE IF headers = <<>> THEN GenesisHeader ELSE Last(headers)
  IN  /\ exec = Idle /\ memory = <<>>
      /\ \A i \in DOMAIN batch :
           /\ validate_header_against_parent(batch[i].header, parent(i))
           /\ validate_body_against_header(batch[i].body, batch[i].header)
      /\ WriteBlockBodies([i \in DOMAIN batch |-> Downloaded(batch[i])])
      /\ headers' = Cut(headers \o [i \in DOMAIN batch |-> batch[i].header], Len(bodies'))
      /\ UNCHANGED <<results, memory, unwinds, exec>>

(* The execution stage takes the next block that is stored. *)
ExecutionStage ==
  /\ memory = <<>> /\ Len(results) < Len(bodies)
  /\ BeginBlock(StoredBlock(Len(results) + 1), "tables", World)
  /\ UNCHANGED <<storage, headers, results, memory, unwinds>>

(***************************************************************************)
(* The engine executes a payload on top of the head.                       *)
(* ensure_well_formed_payload seals the block again, with the hash of its  *)
(* header, and refuses none.                                               *)
(***************************************************************************)
NewPayload(block) ==
  /\ Len(results) = Len(bodies)
  /\ validate_header_against_parent(block.header, HeaderOf(Height))
  /\ validate_block_pre_execution(block)
  /\ BeginBlock(block, "engine", World)
  /\ UNCHANGED <<storage, headers, results, memory, unwinds>>

ExecuteStep ==
  /\ ExecuteTransaction
  /\ UNCHANGED <<storage, headers, results, memory, unwinds>>

(* The block being executed is valid. *)
Valid == /\ exec.status = "running"
         /\ validate_block_post_execution(exec.block.header, exec.receipts)

Executed == [receipts |-> exec.receipts, world |-> exec.world]

(* The execution stage keeps the results, or unwinds the bad block. *)
FinishStored ==
  /\ exec # Idle /\ exec.path = "tables"
  /\ EndBlock
  /\ \/ /\ Valid
        /\ results' = Append(results, Executed)
        /\ UNCHANGED <<storage, headers>>
     \/ /\ ~Valid
        /\ RemoveBlockBodiesAbove(exec.block.header.number - 1)
        /\ headers' = Cut(headers, exec.block.header.number - 1)
        /\ UNCHANGED results
  /\ UNCHANGED <<memory, unwinds>>

(* The engine keeps the block in memory, or answers that it is invalid. *)
FinishPayload ==
  /\ exec # Idle /\ exec.path = "engine"
  /\ EndBlock
  /\ \/ /\ Valid
        /\ memory' = Append(memory, [block |-> exec.block, result |-> Executed])
     \/ /\ ~Valid
        /\ UNCHANGED memory
  /\ UNCHANGED <<storage, headers, results, unwinds>>

(* The persistence service writes the oldest blocks in memory. *)
Persist(n) ==
  /\ WriteBlockBodies([i \in 1..n |-> memory[i].block.body])
  /\ LET written == Len(bodies') - Len(bodies)
     IN  /\ headers' = headers \o [i \in 1..written |-> memory[i].block.header]
         /\ results' = results \o [i \in 1..written |-> memory[i].result]
         /\ memory' = SubSeq(memory, written + 1, Len(memory))
  /\ UNCHANGED <<unwinds, exec>>

(* The tables are unwound to a lower block. *)
Unwind(n) ==
  /\ exec = Idle /\ memory = <<>>
  /\ unwinds < MaxUnwinds
  /\ RemoveBlockBodiesAbove(n)
  /\ headers' = Cut(headers, n)
  /\ results' = Cut(results, IF n < Len(results) THEN n ELSE Len(results))
  /\ unwinds' = unwinds + 1
  /\ UNCHANGED <<memory, exec>>

(* The process ends and starts again. *)
Crash ==
  /\ exec # Idle \/ memory # <<>>
  /\ exec' = Idle
  /\ memory' = <<>>
  /\ UNCHANGED <<storage, headers, results, unwinds>>

(* The batches of blocks. *)
BlockBatches == UNION {[1..n -> Blocks] : n \in 1..MaxBatch}

ChainStep ==
  \/ \E batch \in BlockBatches : BodiesStage(batch)
  \/ ExecutionStage
  \/ \E block \in Blocks : NewPayload(block)
  \/ ExecuteStep
  \/ FinishStored
  \/ FinishPayload
  \/ \E n \in 1..Len(memory) : Persist(n)
  \/ \E n \in 0..Len(bodies) - 1 : Unwind(n)

ChainNext == ChainStep \/ Crash

ChainSpec == ChainInit /\ [][ChainNext]_chain

-----------------------------------------------------------------------------
(* What the network means by a block, apart from how this node computes it. *)

(* The user transactions of a block. *)
UserTxs(block) == SelectSeq(block.body.transactions, LAMBDA tx : tx.kind = "user")

(* The gas they use, up to the k-th. *)
UserGas(block, k) == FoldLeft(LAMBDA sum, tx : sum + tx.gas, 0, SubSeq(UserTxs(block), 1, k))

(* The header fields the network computes: those of the user transactions. *)
UserSummary(block) ==
  LET user == UserTxs(block)
  IN  [transactions_root |-> user,
       receipts_root |-> [k \in DOMAIN user |->
                            [type |-> user[k].type, success |-> user[k].success,
                             cumulative_gas_used |-> UserGas(block, k), logs |-> user[k].logs]],
       logs_bloom |-> UNION {ToSet(user[k].logs) : k \in DOMAIN user},
       gas_used |-> UserGas(block, Len(user))]

(* The header says what executing the user transactions gives; the EVM     *)
(* executes every transaction, and each fits into the block.               *)
Honest(block) ==
  /\ \A field \in {"gas_used", "receipts_root", "logs_bloom"} :
       block.header[field] = UserSummary(block)[field]
  /\ \A tx \in ToSet(block.body.transactions) :
       ~tx.refused /\ tx.gas_limit <= block.header.gas_limit
  /\ \A k \in DOMAIN UserTxs(block) :
       UserGas(block, k - 1) + UserTxs(block)[k].gas_limit <= block.header.gas_limit

(* The header names the user transactions. *)
RootRight(block) == block.header.transactions_root = UserSummary(block).transactions_root

(* The block a header belongs to, as the network has it. *)
Original(header) == CHOOSE b \in Blocks : b.header = header

(* What a read precompile answers in a block. *)
RecordedTable(block) ==
  LET recorded == unwrap_or(block.body.read_precompile_calls, <<>>)
      top == unwrap_or(block.body.highest_precompile_address, DefaultHighest)
  IN  [a \in Precompiles |->
         IF a \in DOMAIN recorded THEN [calls |-> recorded[a]]
         ELSE IF a \in EthPrecompiles THEN "native"
         ELSE IF block.header.number >= WarmBlock /\ a <= top THEN [calls |-> <<>>] ELSE None]

(* Who sends a transaction: the system address of the token, or the signer. *)
TrueSender(tx) ==
  IF tx.kind = "user" THEN tx.signer
  ELSE IF tx.input = None THEN NativeAddress ELSE 32 * IndexSpan + tx.token

(* The world before transaction k + 1 of a block, given the one before the block. *)
WorldBefore(block, k, world) ==
  LET number == block.header.number
      txs == block.body.transactions
      deployed == IF number = CoreWriterBlock
                  THEN [world EXCEPT ![CoreWriter].code = "deployed"] ELSE world
      step(w, i) ==
        LET changes == transact(txs[i], TrueSender(txs[i]), number, RecordedTable(block), w)
            kept == {a \in DOMAIN changes :
                       <<number, i - 1, txs[i].kind = "system", a>> \notin ToSet(Patches)}
        IN  commit(w, [a \in kept |-> changes[a]])
  IN  FoldLeft(step, deployed, [i \in 1..k |-> i])

-----------------------------------------------------------------------------
(* The execution has come to an end, and not by a panic. *)
Complete == exec # Idle /\ ~Executing /\ exec.status # "panicked"

(***************************************************************************)
(* The node takes a block for valid if and only if the gas, the receipts   *)
(* root and the bloom filter of its header are those of its user           *)
(* transactions and all can be executed, although the receipts of          *)
(* system transactions are told by their cumulative gas: the verdict at    *)
(* the end of an execution is that, and every block of the chain passed    *)
(* it.  The transactions root is another matter: the pipeline executes no  *)
(* block with a wrong one, while the engine, whose check of it is          *)
(* commented out, takes such a block (validate_block_post_execution,       *)
(* validate_body_against_header, validate_block_pre_execution).            *)
(***************************************************************************)
VerdictsRight ==
  /\ \A n \in 1..Height : Honest(Block(n))
  /\ Complete => (Valid <=> Honest(Original(exec.block.header)))
  /\ (exec # Idle /\ exec.path = "tables") => RootRight(Original(exec.block.header))

(***************************************************************************)
(* The world after a block is the one its transactions make, whichever     *)
(* path it was executed on, however often it was unwound, lost in a crash  *)
(* or read back from the tables: every call returns what the block         *)
(* recorded, every sender is right, and each patch hits its transaction.   *)
(***************************************************************************)
WorldsRight ==
  \A n \in 1..Height :
    LET original == Original(HeaderOf(n))
    IN  Result(n).world =
          WorldBefore(original, Len(original.body.transactions),
                      IF n = 1 THEN GenesisWorld ELSE Result(n - 1).world)

(***************************************************************************)
(* assemble_block and validate_block_post_execution compute the fields of  *)
(* a header from the receipts separately.  Assembled from the execution of *)
(* a valid block they are what the network computes for its user           *)
(* transactions, but for the bloom filter, which has the logs of system    *)
(* transactions in it as well.                                             *)
(***************************************************************************)
AssembledAsValidated ==
  Complete /\ Valid =>
    LET block == Original(exec.block.header)
        assembled == assemble_block(exec.block, exec.receipts, exec.gas_used)
        system == SelectSeq(block.body.transactions, LAMBDA tx : tx.kind = "system")
    IN  /\ \A field \in DOMAIN assembled \ {"logs_bloom"} :
             assembled[field] = UserSummary(block)[field]
        /\ assembled.logs_bloom =
             UserSummary(block).logs_bloom \cup UNION {ToSet(tx.logs) : tx \in ToSet(system)}
=============================================================================
