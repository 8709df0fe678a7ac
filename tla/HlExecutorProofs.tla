-------------------------- MODULE HlExecutorProofs --------------------------
(***************************************************************************)
(* System transactions are told by their price where transactions are at   *)
(* hand and by a cumulative gas of zero where only receipts are.  That the *)
(* two agree is proved for every block of the network.  It rests on their  *)
(* order: once a user transaction has used gas no system transaction       *)
(* follows, and as long as none has, the sum is zero.                      *)
(***************************************************************************)
EXTENDS HlExecutor, TLAPS

Txs == exec.block.body.transactions
Done == Len(exec.receipts)

IsSeq(s) == \E S : s \in Seq(S)

(* An executor at work has the fields of HlBlockExecutor. *)
IsExecutor ==
  /\ exec = [block |-> exec.block, path |-> exec.path, status |-> exec.status,
             precompiles |-> exec.precompiles, world |-> exec.world,
             gas_used |-> exec.gas_used, receipts |-> exec.receipts]
  /\ exec.status \in {"running", "failed", "panicked"}

(***************************************************************************)
(* The inductive invariant.  Besides the property it says what the gas     *)
(* used tells of the transactions: with none used, those done were system  *)
(* transactions; with some used, those to come are not.                    *)
(***************************************************************************)
GasInv ==
  /\ exec.block \in Blocks
  /\ IsSeq(exec.receipts) /\ Done <= Len(Txs)
  /\ exec.gas_used \in Nat
  /\ exec.gas_used # 0 => \A j \in Done + 1..Len(Txs) : ~is_system_transaction(Txs[j])
  /\ \A i \in 1..Done :
       exec.receipts[i].cumulative_gas_used = 0 <=> is_system_transaction(Txs[i])

ExecInv == exec = Idle \/ (IsExecutor /\ GasInv)

(***************************************************************************)
(* An executor of a new block has used no gas (create_executor,            *)
(* apply_pre_execution_changes).                                           *)
(***************************************************************************)
LEMMA BeginsRecognised ==
  ASSUME NEW block \in Blocks, NEW path, NEW world, BeginBlock(block, path, world)
  PROVE  (IsExecutor /\ GasInv)'
<1>1. PICK precompiles, w :
        exec' = [block |-> block, path |-> path, status |-> "running",
                 precompiles |-> precompiles, world |-> w, gas_used |-> 0, receipts |-> <<>>]
  BY DEF BeginBlock
<1>2. IsExecutor'
  BY <1>1 DEF IsExecutor
<1>3. exec'.block = block /\ exec'.gas_used = 0 /\ exec'.receipts = <<>>
  BY <1>1
<1>4. Len(block.body.transactions) \in Nat
  BY BlocksAssumption DEF WellFormed
<1> QED  BY <1>2, <1>3, <1>4 DEF GasInv, IsSeq, Done, Txs

(***************************************************************************)
(* A step of an execution gives up, or adds one receipt with the gas used  *)
(* so far (execute_transaction_with_commit_condition).                     *)
(***************************************************************************)
LEMMA ExecutesOne ==
  ASSUME IsExecutor, ExecuteTransaction
  PROVE  /\ IsExecutor' /\ exec'.block = exec.block
         /\ Done < Len(Txs)
         /\ \/ exec'.receipts = exec.receipts /\ exec'.gas_used = exec.gas_used
            \/ /\ exec'.gas_used = GasAfter(NextTx, exec.gas_used)
               /\ exec'.receipts =
                    Append(exec.receipts,
                           build_receipt(NextTx, GasAfter(NextTx, exec.gas_used)))
<1> DEFINE With(status, world, gas_used, receipts) ==
             [block |-> exec.block, path |-> exec.path, status |-> status,
              precompiles |-> exec.precompiles, world |-> world,
              gas_used |-> gas_used, receipts |-> receipts]
           gas == GasAfter(NextTx, exec.gas_used)
           added == Append(exec.receipts, build_receipt(NextTx, gas))
<1>1. Done < Len(Txs) /\ exec.status = "running"
  BY DEF ExecuteTransaction, Executing, Done, Txs
<1>2. \A status : [exec EXCEPT !.status = status] =
                   With(status, exec.world, exec.gas_used, exec.receipts)
  BY DEF IsExecutor
<1>3. \A world : [exec EXCEPT !.gas_used = gas, !.receipts = added, !.world = world] =
                  With("running", world, gas, added)
  <2>1. exec = With("running", exec.world, exec.gas_used, exec.receipts)
    BY <1>1 DEF IsExecutor
  <2>2. [exec EXCEPT !.gas_used = gas] = With("running", exec.world, gas, exec.receipts)
    BY <1>1 DEF IsExecutor
  <2>3. \A more, w, g, all, e : e = With("running", w, g, all) =>
          [e EXCEPT !.receipts = more] = With("running", w, g, more)
    OBVIOUS
  <2>4. \A world, w, g, all, e : e = With("running", w, g, all) =>
          [e EXCEPT !.world = world] = With("running", world, g, all)
    OBVIOUS
  <2> DEFINE spent == [exec EXCEPT !.gas_used = gas]
             counted == [spent EXCEPT !.receipts = added]
  <2> HIDE DEF With, gas, added
  <2>5. spent = With("running", exec.world, gas, exec.receipts)
    BY <2>2
  <2> HIDE DEF spent
  <2>6. counted = With("running", exec.world, gas, added)
    BY <2>3, <2>5
  <2> HIDE DEF counted
  <2>7. \A world : [counted EXCEPT !.world = world] = With("running", world, gas, added)
    BY <2>4, <2>6
  <2> QED  BY <2>7 DEF counted, spent
<1>4. \/ exec' = [exec EXCEPT !.status = "failed"]
      \/ exec' = [exec EXCEPT !.status = "panicked"]
      \/ \E world : exec' = [exec EXCEPT !.gas_used = gas, !.receipts = added, !.world = world]
  BY DEF ExecuteTransaction
<1>5. \/ exec' = With("failed", exec.world, exec.gas_used, exec.receipts)
      \/ exec' = With("panicked", exec.world, exec.gas_used, exec.receipts)
      \/ \E world : exec' = With("running", world, gas, added)
  <2> HIDE DEF With, gas, added
  <2> QED  BY <1>2, <1>3, <1>4
<1>6. PICK status, world :
        /\ status \in {"running", "failed", "panicked"}
        /\ \/ exec' = With(status, world, exec.gas_used, exec.receipts)
           \/ exec' = With(status, world, gas, added)
  <2> HIDE DEF With, gas, added
  <2> QED  BY <1>5
<1>7. IsExecutor' /\ exec'.block = exec.block
  BY <1>6 DEF IsExecutor
<1>8. \/ exec'.receipts = exec.receipts /\ exec'.gas_used = exec.gas_used
      \/ exec'.receipts = added /\ exec'.gas_used = gas
  BY <1>6
<1> QED  BY <1>1, <1>7, <1>8

(***************************************************************************)
(* The gas of a receipt tells whether its transaction is a system          *)
(* transaction, and the invariant on the gas used goes on to hold, when    *)
(* the execution takes a step.                                             *)
(***************************************************************************)
LEMMA ExecutionRecognised ==
  ASSUME IsExecutor, GasInv, ExecuteTransaction
  PROVE  (IsExecutor /\ GasInv)'
<1>1. /\ IsExecutor' /\ exec'.block = exec.block
      /\ Done < Len(Txs)
  BY ExecutesOne
<1>2. Txs' = Txs
  BY <1>1 DEF Txs
<1>3. /\ Len(Txs) \in Nat /\ DOMAIN Txs = 1..Len(Txs)
      /\ \A i \in DOMAIN Txs : Txs[i].gas \in Nat \ {0}
      /\ \A i, j \in DOMAIN Txs :
           i < j /\ is_system_transaction(Txs[j]) => is_system_transaction(Txs[i])
  BY BlocksAssumption DEF GasInv, WellFormed, Txs
<1>4. Done \in Nat /\ DOMAIN exec.receipts = 1..Done
  BY DEF GasInv, IsSeq, Done
<1>5. CASE exec'.receipts = exec.receipts /\ exec'.gas_used = exec.gas_used
  <2>1. Done' = Done
    BY <1>5 DEF Done
  <2> QED  BY <1>1, <1>2, <1>5, <2>1 DEF GasInv
<1>6. CASE /\ exec'.gas_used = GasAfter(NextTx, exec.gas_used)
           /\ exec'.receipts = Append(exec.receipts,
                                      build_receipt(NextTx, GasAfter(NextTx, exec.gas_used)))
  <2> DEFINE n == Done + 1
             gas == GasAfter(NextTx, exec.gas_used)
             receipt == build_receipt(NextTx, gas)
  <2>1. NextTx = Txs[n]
    BY DEF NextTx, Txs, Done
  <2>2. /\ Done \in Nat /\ n \in 1..Len(Txs) /\ n \in Done + 1..Len(Txs)
        /\ exec.gas_used \in Nat /\ Txs[n].gas \in Nat \ {0}
    BY <1>1, <1>3, <1>4 DEF GasInv
  <2>3. receipt.cumulative_gas_used = gas
    BY DEF build_receipt
  <2>4. gas \in Nat /\ (gas = 0 <=> is_system_transaction(Txs[n]))
    BY <2>1, <2>2 DEF GasAfter, GasInv
  <2>5. gas # 0 => \A j \in n + 1..Len(Txs) : ~is_system_transaction(Txs[j])
    <3>1. n + 1..Len(Txs) \subseteq DOMAIN Txs /\ n \in DOMAIN Txs
      BY <1>3, <2>2
    <3>2. \A j \in n + 1..Len(Txs) : n < j
      BY <1>3, <2>2
    <3> QED  BY <1>3, <2>4, <3>1, <3>2
  <2>6. /\ Done' = n /\ DOMAIN exec'.receipts = 1..n
        /\ exec'.receipts[n] = receipt
        /\ \A i \in 1..Done : exec'.receipts[i] = exec.receipts[i]
        /\ IsSeq(exec'.receipts)
    <3>1. PICK S : exec.receipts \in Seq(S)
      BY DEF GasInv, IsSeq
    <3>2. exec.receipts \in Seq(S \cup {receipt}) /\ receipt \in S \cup {receipt}
      BY <3>1
    <3>3. exec'.receipts \in Seq(S \cup {receipt})
      BY <1>6, <3>2
    <3>4. IsSeq(exec'.receipts)
      BY <3>3 DEF IsSeq
    <3>5. exec'.receipts = Append(exec.receipts, receipt)
      BY <1>6
    <3> HIDE DEF receipt
    <3>6. Done' = n /\ DOMAIN exec'.receipts = 1..n
      BY <3>2, <3>5 DEF Done
    <3>7. exec'.receipts[n] = receipt /\ \A i \in 1..Done : exec'.receipts[i] = exec.receipts[i]
      BY <3>2, <3>5 DEF Done
    <3> QED  BY <3>4, <3>6, <3>7
  <2>7. \A i \in 1..n :
          exec'.receipts[i].cumulative_gas_used = 0 <=> is_system_transaction(Txs[i])
    <3>1. \A i \in 1..n : i \in 1..Done \/ i = n
      BY <2>2
    <3> HIDE DEF n, gas, receipt
    <3> QED  BY <2>3, <2>4, <2>6, <3>1 DEF GasInv
  <2>8. exec'.gas_used = gas /\ n \in Nat /\ n <= Len(Txs)
    BY <1>3, <1>6, <2>2
  <2> HIDE DEF n, gas
  <2> QED  BY <1>1, <1>2, <2>4, <2>5, <2>6, <2>7, <2>8 DEF GasInv
<1> QED  BY <1>1, <1>5, <1>6, ExecutesOne

(***************************************************************************)
(* For every block of the network, at every point of its execution, a      *)
(* receipt has a cumulative gas of zero exactly when its transaction is a  *)
(* system transaction: what assemble_block, validate_block_post_execution  *)
(* and the RPC layer take for granted of executor.rs.                      *)
(***************************************************************************)
THEOREM ReceiptsRecognised == ExecSpec => []RecognisedByGas
<1>1. ExecInit => ExecInv
  BY DEF ExecInit, ExecInv
<1>2. ExecInv /\ [ExecNext]_exec => ExecInv'
  <2> SUFFICES ASSUME ExecInv, [ExecNext]_exec  PROVE ExecInv'
    OBVIOUS
  <2>1. CASE UNCHANGED exec
    BY <2>1 DEF ExecInv, IsExecutor, GasInv, Done, Txs
  <2>2. ASSUME NEW b \in Blocks, NEW path, NEW w, BeginBlock(b, path, w)  PROVE ExecInv'
    BY <2>2, BeginsRecognised DEF ExecInv
  <2>3. CASE ExecuteTransaction
    <3>1. exec # Idle
      BY <2>3 DEF ExecuteTransaction, Executing, Idle
    <3> QED  BY <2>3, <3>1, ExecutionRecognised DEF ExecInv
  <2>4. CASE EndBlock
    BY <2>4 DEF EndBlock, ExecInv
  <2> QED  BY <2>1, <2>2, <2>3, <2>4 DEF ExecNext
<1>3. ExecInv => RecognisedByGas
  BY DEF ExecInv, GasInv, IsSeq, Done, RecognisedByGas, Txs
<1> QED  BY <1>1, <1>2, <1>3, PTL DEF ExecSpec
=============================================================================
