------------------------------ MODULE HlNodeRpc ------------------------------
(***************************************************************************)
(* The RPC handlers of the node, served while its chain moves: the methods *)
(* of src/src/addons/hl_node_compliance.rs, which hide system transactions *)
(* the way hl-node does, the forwarders of src/src/addons, the tracing of  *)
(* src/src/node/rpc, and their registration in src/src/main.rs.            *)
(*                                                                         *)
(* A handler reads the chain several times.  Its first read happens in the *)
(* step that takes the request, and between two reads the chain may move.  *)
(* One request is served at a time: requests do not share state.           *)
(***************************************************************************)
EXTENDS NodeChain

CONSTANTS
  ArgSets,   \* the HlNodeArgs the node may be started with
  Upstream,  \* the blocks of hl-node, a sequence
  Requests   \* the requests of clients: [method, id]

VARIABLES
  args,   \* HlNodeArgs
  up,     \* how many blocks hl-node has
  call,   \* the request being served, or NoCall
  reply,  \* the reply just given, until the next step, or NoReply
  synced  \* history: the highest block of a receipt a client was given

rpc == <<args, up, call, reply, synced>>
vars == <<chain, rpc>>

NoCall == [method |-> "none"]
NoReply == [method |-> "none"]

Word == 256  \* the values of a U256, and of the usize of an index

-----------------------------------------------------------------------------
(* What the handlers read (the providers and eth_api of reth). *)

BlockAt(n) == IF n = 0 THEN [header |-> GenesisHeader,
                             body |-> [transactions |-> <<>>, read_precompile_calls |-> None,
                                       highest_precompile_address |-> None]]
              ELSE Block(n)
ReceiptsAt(n) == IF n = 0 THEN <<>> ELSE Result(n).receipts

(* The numbers of the blocks an id stands for: one or none.  A raw transaction *)
(* that is to be sent stands for none.                                         *)
Denoted(id) ==
  CASE id[1] \in {"latest", "default"} -> {Height}
    [] id[1] = "number" -> {n \in 0..Height : n = id[2]}
    [] id[1] = "hash" -> {n \in 0..Height : HeaderOf(n).hash = id[2]}
    [] id[1] = "tx" -> {n \in 1..Height : \E i \in DOMAIN Block(n).body.transactions :
                                            Block(n).body.transactions[i].id = id[2]}
    [] id[1] = "raw" -> {}

TheOne(set) == CHOOSE x \in set : TRUE

(* The position of a transaction in block n, from 0. *)
IndexIn(n, tx) ==
  TheOne({i \in DOMAIN Block(n).body.transactions :
            Block(n).body.transactions[i].id = tx}) - 1

(* The logs before receipt i. *)
LogsBefore(receipts, i) == FoldLeft(LAMBDA sum, r : sum + Len(r.logs), 0, SubSeq(receipts, 1, i - 1))

(* EthFilter and EthPubSub: the logs of block n with their positions. *)
LogsOf(n) ==
  LET receipts == ReceiptsAt(n)
      of(i) == [k \in DOMAIN receipts[i].logs |->
                  [log |-> receipts[i].logs[k], number |-> n, transaction_index |-> i - 1,
                   log_index |-> LogsBefore(receipts, i) + k - 1]]
  IN  FlattenSeq([i \in DOMAIN receipts |-> of(i)])

(* convert_receipts of one input. *)
RpcReceipt(tx, receipt, index, gas_used, next_log_index) ==
  [id |-> tx.id, index |-> index, gas_used |-> gas_used, next_log_index |-> next_log_index,
   cumulative_gas_used |-> receipt.cumulative_gas_used]

-----------------------------------------------------------------------------
(* The operations of hl_node_compliance.rs. *)

(* system_tx_count_for_block, of a block that is there. *)
system_tx_count_for_block(n) ==
  Len(SelectSeq(BlockAt(n).body.transactions, is_system_transaction))

(* adjust_block: the first transactions are drained, the others renumbered. *)
adjust_block(txs, count) ==
  [k \in 1..Len(txs) - count |->
     [txs[k + count] EXCEPT !.index = (@ - count) % Word]]

(***************************************************************************)
(* The loop of adjust_block_receipts over the transactions and receipts of *)
(* block n, with the count of system transactions read before.             *)
(***************************************************************************)
adjust_block_receipts(n, count) ==
  LET receipts == ReceiptsAt(n)
      txs == BlockAt(n).body.transactions
      step(acc, i) ==
        IF receipts[i].cumulative_gas_used = 0 THEN acc
        ELSE [list |-> Append(acc.list, RpcReceipt(txs[i], receipts[i], (i - 1 - count) % Word,
                                          receipts[i].cumulative_gas_used - acc.gas_used,
                                          acc.next_log_index)),
              gas_used |-> receipts[i].cumulative_gas_used,
              next_log_index |-> acc.next_log_index + Len(receipts[i].logs)]
  IN  FoldLeft(step, [list |-> <<>>, gas_used |-> 0, next_log_index |-> 0],
               [i \in DOMAIN receipts |-> i]).list

(* Mutation: the log index is left as it is. *)
adjust_log_index_kept(log) ==
  LET system == SelectSeq(ReceiptsAt(log.number), LAMBDA r : r.cumulative_gas_used = 0)
  IN  IF log.number > Height \/ Len(system) > log.transaction_index THEN <<>>
      ELSE <<[log EXCEPT !.transaction_index = @ - Len(system)]>>

(* adjust_log: nothing for a log of a system transaction. *)
adjust_log(log) ==
  IF log.number > Height THEN <<>>
  ELSE LET system == SelectSeq(ReceiptsAt(log.number), LAMBDA r : r.cumulative_gas_used = 0)
       IN  IF Len(system) > log.transaction_index THEN <<>>
           ELSE <<[log EXCEPT !.transaction_index = @ - Len(system),
                              !.log_index = (@ - LogsBefore(system, Len(system) + 1)) % Word]>>

(* get_system_txs_by_block_id. *)
get_system_txs_by_block_id(n) ==
  LET txs == BlockAt(n).body.transactions
      system == SelectSeq([i \in DOMAIN txs |-> i], LAMBDA i : is_system_transaction(txs[i]))
  IN  [k \in DOMAIN system |-> [id |-> txs[system[k]].id, index |-> system[k] - 1,
                                from |-> recover_signer(txs[system[k]])]]

(* get_system_txs_receipts_by_block_id: up to the first receipt with gas. *)
get_system_txs_receipts_by_block_id(n) ==
  LET receipts == ReceiptsAt(n)
      user == {i \in DOMAIN receipts : receipts[i].cumulative_gas_used # 0}
      last == IF user = {} THEN Len(receipts) ELSE Min(user) - 1
  IN  [i \in 1..last |-> RpcReceipt(BlockAt(n).body.transactions[i], receipts[i], i - 1, 0,
                                    LogsBefore(receipts, i))]

(* get_hl_extras: by number, the default for an unknown block. *)
get_hl_extras(number) ==
  IF number \in 0..Height THEN extras_of(BlockAt(number).body) ELSE DefaultExtras

(* Mutation: the read precompiles of the block are not installed. *)
replay_transactions_until_bare(block, index, world) ==
  LET txs == block.body.transactions
      number == block.header.number
      step(w, i) == commit(w, transact(txs[i], from_recovered_tx(txs[i], recover_signer(txs[i])),
                                       number, hl_precompiles, w))
  IN  FoldLeft(step, world, [i \in 1..index |-> i])

(***************************************************************************)
(* replay_transactions_until: the world before the transaction at index,   *)
(* from the world before the block, with the extras of its number.         *)
(***************************************************************************)
replay_transactions_until(block, index, world) ==
  LET txs == block.body.transactions
      number == block.header.number
      precompiles == apply_precompiles(number, get_hl_extras(number), hl_precompiles)
      step(w, i) == commit(w, transact(txs[i], from_recovered_tx(txs[i], recover_signer(txs[i])),
                                       number, precompiles, w))
  IN  FoldLeft(step, world, [i \in 1..index |-> i])

(* Trace::inspect: what the transaction at index changes, not committed. *)
inspect(block, index, world) ==
  LET tx == block.body.transactions[index + 1]
      number == block.header.number
  IN  transact(tx, from_recovered_tx(tx, recover_signer(tx)), number,
               apply_precompiles(number, get_hl_extras(number), hl_precompiles), world)

-----------------------------------------------------------------------------
(* Which implementation serves a method. *)

BlockMethods == {"eth_getBlockByHash", "eth_getBlockByNumber"}
CountMethods == {"eth_getBlockTransactionCountByHash", "eth_getBlockTransactionCountByNumber"}
SystemTxMethods == {"eth_getEvmSystemTxsByBlockHash", "eth_getEvmSystemTxsByBlockNumber"}
SystemReceiptMethods == {"eth_getEvmSystemTxsReceiptsByBlockHash",
                         "eth_getEvmSystemTxsReceiptsByBlockNumber"}
FilterMethods == {"eth_getLogs", "eth_getFilterLogs", "eth_getFilterChanges"}
CallMethods == {"eth_call", "eth_estimateGas"}

(* The methods of reth the project looks at. *)
RethMethods ==
  BlockMethods \cup CountMethods \cup FilterMethods \cup CallMethods
    \cup {"eth_getBlockReceipts", "eth_getTransactionReceipt", "eth_subscribe", "eth_getProof",
          "eth_sendRawTransaction", "eth_sendTransaction", "eth_sendRawTransactionSync",
          "debug_traceTransaction"}

(* The methods of EthForwarderApi, under the names the namespace gives them. *)
ForwarderMethods == {"eth_sendRawTransaction", "eth_eth_sendTransaction",
                     "eth_eth_sendRawTransactionSync"}

(* install_hl_node_compliance. *)
ComplianceMethods ==
  BlockMethods \cup CountMethods \cup FilterMethods \cup SystemTxMethods \cup SystemReceiptMethods
    \cup {"eth_getBlockReceipts", "eth_getTransactionReceipt", "eth_subscribe"}

(* The RPC modules once the node has been launched; "" for no such method. *)
Server(method) ==
  IF method = "eth_getProof" /\ ~args.experimental_eth_get_proof THEN ""
  ELSE IF args.hl_node_compliant /\ method \in ComplianceMethods THEN "compliance"
  ELSE IF args.forward_call /\ method \in CallMethods THEN "call_forwarder"
  ELSE IF method \in ForwarderMethods THEN "tx_forwarder"
  ELSE IF method \in RethMethods THEN "reth" ELSE ""

-----------------------------------------------------------------------------
(* Requests and replies. *)

Takes(req, methods, server) ==
  /\ call = NoCall /\ reply = NoReply
  /\ req.method \in methods /\ Server(req.method) = server

(* The block the id of a request stands for now. *)
HashesOf(id) == IF Denoted(id) = {} THEN {None} ELSE {HeaderOf(n).hash : n \in Denoted(id)}

ReplyNow(req, value) ==
  /\ call' = NoCall
  /\ reply' = [method |-> req.method, id |-> req.id, answer |-> value,
               hashes |-> HashesOf(req.id), stable |-> TRUE]
  /\ UNCHANGED <<chain, args, up, synced>>

(* The handler has made its first read and waits. *)
Suspend(req, saved) ==
  /\ call' = [method |-> req.method, id |-> req.id, saved |-> saved,
              hashes |-> HashesOf(req.id), unwinds |-> unwinds]
  /\ reply' = NoReply
  /\ UNCHANGED <<chain, args, up, synced>>

(* It goes on to wait for the next read. *)
Continue(saved) ==
  /\ call' = [call EXCEPT !.saved = saved]
  /\ UNCHANGED <<chain, args, up, reply, synced>>

(* It answers.  The chain was stable meanwhile if it was not cut. *)
ReplyLate(value) ==
  /\ call' = NoCall
  /\ reply' = [method |-> call.method, id |-> call.id, answer |-> value,
               hashes |-> call.hashes \cup HashesOf(call.id),
               stable |-> call.unwinds = unwinds]
  /\ UNCHANGED <<chain, args, up>>

Late(method) == call # NoCall /\ call.method \in method

(* block_by_hash and block_by_number: the block is loaded, then adjusted. *)
GetBlock(req) ==
  /\ Takes(req, BlockMethods, "compliance")
  /\ \/ Denoted(req.id) = {} /\ ReplyNow(req, <<"none">>)
     \/ \E n \in Denoted(req.id) :
          LET txs == BlockAt(n).body.transactions
          IN  Suspend(req, [number |-> n, txs |-> [i \in DOMAIN txs |->
                                                   [id |-> txs[i].id, index |-> i - 1]]])

FinishBlock ==
  LET n == call.saved.number
  IN  /\ Late(BlockMethods)
      /\ IF n > Height \/ system_tx_count_for_block(n) > Len(call.saved.txs)
         THEN ReplyLate(<<"panic">>)
         ELSE ReplyLate(<<"block", n, adjust_block(call.saved.txs, system_tx_count_for_block(n))>>)
      /\ UNCHANGED synced

(* block_transaction_count_by_hash and by_number: the id is resolved twice. *)
GetCount(req) ==
  /\ Takes(req, CountMethods, "compliance")
  /\ \/ Denoted(req.id) = {} /\ ReplyNow(req, <<"none">>)
     \/ \E n \in Denoted(req.id) : Suspend(req, Len(BlockAt(n).body.transactions))

FinishCount ==
  LET found == Denoted(call.id)
  IN  /\ Late(CountMethods)
      /\ IF found = {} THEN ReplyLate(<<"panic">>)
         ELSE ReplyLate(<<"count",
                          (call.saved - system_tx_count_for_block(TheOne(found))) % Word>>)
      /\ UNCHANGED synced

(* block_receipts: the system transactions are counted before the block is loaded. *)
GetReceipts(req) ==
  /\ Takes(req, {"eth_getBlockReceipts"}, "compliance")
  /\ \/ Denoted(req.id) = {} /\ ReplyNow(req, <<"panic">>)
     \/ \E n \in Denoted(req.id) : Suspend(req, system_tx_count_for_block(n))

FinishReceipts ==
  LET found == Denoted(call.id)
  IN  /\ Late({"eth_getBlockReceipts"})
      /\ IF found = {} THEN ReplyLate(<<"none">>)
         ELSE ReplyLate(<<"receipts", adjust_block_receipts(TheOne(found), call.saved)>>)
      /\ UNCHANGED synced

(* adjust_transaction_receipt: the transaction is found, then all receipts adjusted. *)
GetReceipt(req) ==
  /\ Takes(req, {"eth_getTransactionReceipt"}, "compliance")
  /\ \/ Denoted(req.id) = {} /\ ReplyNow(req, <<"none">>)
     \/ \E n \in Denoted(req.id) :
          Suspend(req, [step |-> "found", hash |-> HeaderOf(n).hash,
                        index |-> IndexIn(n, req.id[2]), count |-> 0])

CountForReceipt ==
  LET found == Denoted(<<"hash", call.saved.hash>>)
  IN  /\ Late({"eth_getTransactionReceipt"}) /\ call.saved.step = "found"
      /\ IF found = {} THEN ReplyLate(<<"panic">>) /\ UNCHANGED synced
         ELSE Continue([call.saved EXCEPT !.step = "counted",
                                          !.count = system_tx_count_for_block(TheOne(found))])

FinishReceipt ==
  LET found == Denoted(<<"hash", call.saved.hash>>)
      list == adjust_block_receipts(TheOne(found), call.saved.count)
      at == (call.saved.index - call.saved.count) % Word
  IN  /\ Late({"eth_getTransactionReceipt"}) /\ call.saved.step = "counted"
      /\ IF found = {} THEN ReplyLate(<<"panic">>)
         ELSE IF at >= Len(list) THEN ReplyLate(<<"panic">>)
         ELSE ReplyLate(<<"receipt", list[at + 1]>>)
      /\ UNCHANGED synced

(* The logs of a filter, or of a new block for a subscription, are collected *)
(* and adjusted afterwards, one by one.                                      *)
GetLogs(req) ==
  /\ Takes(req, {"eth_getLogs", "eth_subscribe"}, "compliance")
  /\ \/ /\ Denoted(req.id) = {}
        /\ req.method = "eth_getLogs"
        /\ ReplyNow(req, <<"logs", <<>>>>)
     \/ \E n \in Denoted(req.id) :
          /\ req.method = "eth_subscribe" => n = Height
          /\ Suspend(req, LogsOf(n))

FinishLogs ==
  /\ Late({"eth_getLogs", "eth_subscribe"})
  /\ ReplyLate(<<"logs", FlattenSeq([k \in DOMAIN call.saved |-> adjust_log(call.saved[k])])>>)
  /\ UNCHANGED synced

(* filter_logs and filter_changes hand out what the filter of reth has. *)
FilterLogs(req) ==
  /\ Takes(req, {"eth_getFilterLogs", "eth_getFilterChanges"}, "compliance")
  /\ \E n \in Denoted(req.id) : ReplyNow(req, <<"logs", LogsOf(n)>>)

(* The system transactions of a block; without a block, none by hash, an error by number. *)
GetSystemTxs(req) ==
  /\ Takes(req, SystemTxMethods, "compliance")
  /\ \/ /\ Denoted(req.id) = {}
        /\ ReplyNow(req, IF req.id[1] = "hash" THEN <<"none">> ELSE <<"error">>)
     \/ \E n \in Denoted(req.id) : ReplyNow(req, <<"txs", get_system_txs_by_block_id(n)>>)

(* Their receipts. *)
GetSystemReceipts(req) ==
  /\ Takes(req, SystemReceiptMethods, "compliance")
  /\ \/ /\ Denoted(req.id) = {}
        /\ ReplyNow(req, IF req.id[1] = "hash" THEN <<"none">> ELSE <<"error">>)
     \/ \E n \in Denoted(req.id) :
          ReplyNow(req, <<"receipts", get_system_txs_receipts_by_block_id(n)>>)

(* A trace: the block is loaded, then replayed up to the transaction. *)
Trace(req) ==
  /\ Takes(req, {"debug_traceTransaction"}, "reth")
  /\ \E n \in Denoted(req.id) :
       Suspend(req, [block |-> Block(n), index |-> IndexIn(n, req.id[2]),
                     world |-> IF n = 1 THEN GenesisWorld ELSE Result(n - 1).world])

FinishTrace ==
  LET saved == call.saved
  IN  /\ Late({"debug_traceTransaction"})
      /\ ReplyLate(<<"trace", inspect(saved.block, saved.index,
                        replay_transactions_until(saved.block, saved.index, saved.world))>>)
      /\ UNCHANGED synced

-----------------------------------------------------------------------------
(* The forwarders. *)

(* Mutation: a call without a block is not one on the latest block. *)
is_latest_given(id) == id[1] = "latest"

(* Whether call and estimate_gas go upstream. *)
is_latest(id) == id[1] \in {"latest", "default"}

(* hl-node has a block with this transaction. *)
Included(tx) == \E n \in 1..up : \E i \in DOMAIN Upstream[n].body.transactions :
                  Upstream[n].body.transactions[i].id = tx

(* What a call on the node's own state is answered with: the height of that state. *)
LocalState(req) ==
  \/ Denoted(req.id) = {} /\ ReplyNow(req, <<"error">>)
  \/ \E n \in Denoted(req.id) : ReplyNow(req, <<"state", n>>)

(* CallForwarderExt::call and estimate_gas. *)
ForwardCall(req) ==
  /\ Takes(req, CallMethods, "call_forwarder")
  /\ IF is_latest(req.id) THEN Suspend(req, "sent") ELSE LocalState(req)

(* Without the forwarder, reth answers from the node's own state. *)
LocalCall(req) == Takes(req, CallMethods, "reth") /\ LocalState(req)

(* The answer of hl-node, or its error, or a transport error. *)
FinishCall ==
  /\ Late(CallMethods)
  /\ ReplyLate(<<"state", up>>) \/ ReplyLate(<<"error">>)
  /\ UNCHANGED synced

(* send_transaction is not supported. *)
SendTransaction(req) ==
  Takes(req, {"eth_eth_sendTransaction"}, "tx_forwarder") /\ ReplyNow(req, <<"error">>)

(* send_raw_transaction and send_raw_transaction_sync send the transaction. *)
Send(req) ==
  /\ Takes(req, {"eth_sendRawTransaction", "eth_eth_sendRawTransactionSync"}, "tx_forwarder")
  /\ Suspend(req, "sent")

(* hl-node takes it, or the request fails; the sync variant then polls for the receipt. *)
Sent ==
  /\ Late({"eth_sendRawTransaction", "eth_eth_sendRawTransactionSync"}) /\ call.saved = "sent"
  /\ \/ ReplyLate(<<"error">>) /\ UNCHANGED synced
     \/ /\ ~Included(call.id[2])
        /\ IF call.method = "eth_sendRawTransaction"
           THEN ReplyLate(<<"hash", call.id[2]>>) /\ UNCHANGED synced
           ELSE Continue("polling")

(* A poll: without a receipt the handler sleeps and polls again. *)
Poll ==
  /\ Late({"eth_eth_sendRawTransactionSync"}) /\ call.saved = "polling"
  /\ \/ /\ Included(call.id[2])
        /\ \E n \in 1..up :
             /\ \E i \in DOMAIN Upstream[n].body.transactions :
                  Upstream[n].body.transactions[i].id = call.id[2]
             /\ ReplyLate(<<"receipt", n>>)
             /\ synced' = IF n > synced THEN n ELSE synced
     \/ ReplyLate(<<"error">>) /\ UNCHANGED synced

(* TIMEOUT_DURATION has passed, in whatever poll or sleep. *)
SyncTimeout ==
  /\ Late({"eth_eth_sendRawTransactionSync"}) /\ call.saved = "polling"
  /\ ReplyLate(<<"timeout">>)
  /\ UNCHANGED synced

-----------------------------------------------------------------------------
(* The client has the reply. *)
Received ==
  /\ reply # NoReply
  /\ reply' = NoReply
  /\ UNCHANGED <<chain, args, up, call, synced>>

(* hl-node makes a block. *)
UpstreamGrows ==
  /\ up < Len(Upstream)
  /\ up' = up + 1
  /\ reply' = NoReply
  /\ UNCHANGED <<chain, args, call, synced>>

(* The chain of the node moves, never ahead of hl-node, whose blocks it gets. *)
ChainMoves ==
  /\ ChainStep
  /\ Len(bodies') <= up
  /\ exec' # Idle => exec'.block.header.number <= up
  /\ reply' = NoReply
  /\ UNCHANGED <<args, up, call, synced>>

(* The process ends, and the request with it. *)
Restart ==
  /\ Crash
  /\ call' = NoCall /\ reply' = NoReply
  /\ UNCHANGED <<args, up, synced>>

Init ==
  /\ ChainInit
  /\ args \in ArgSets
  /\ up = 0 /\ call = NoCall /\ reply = NoReply /\ synced = 0

Next ==
  \/ \E req \in Requests :
       GetBlock(req) \/ GetCount(req) \/ GetReceipts(req) \/ GetReceipt(req) \/ GetLogs(req)
         \/ FilterLogs(req) \/ GetSystemTxs(req) \/ GetSystemReceipts(req) \/ Trace(req)
         \/ ForwardCall(req) \/ LocalCall(req) \/ SendTransaction(req) \/ Send(req)
  \/ FinishBlock \/ FinishCount \/ FinishReceipts \/ CountForReceipt \/ FinishReceipt
  \/ FinishLogs \/ FinishTrace \/ FinishCall \/ Sent \/ Poll \/ SyncTimeout
  \/ Received \/ UpstreamGrows \/ ChainMoves \/ Restart

Spec == Init /\ [][Next]_vars

-----------------------------------------------------------------------------
(* What hl-node answers, from the blocks as the network has them. *)

NetworkBlock(hash) == IF hash = GenesisHeader.hash THEN BlockAt(0)
                      ELSE CHOOSE b \in Blocks : b.header.hash = hash
SystemTxs(block) == SelectSeq(block.body.transactions, LAMBDA tx : tx.kind = "system")
SumLogs(txs, k) == FoldLeft(LAMBDA sum, tx : sum + Len(tx.logs), 0, SubSeq(txs, 1, k - 1))

ViewReceipts(txs, gas(_), total(_)) ==
  [k \in DOMAIN txs |-> [id |-> txs[k].id, index |-> k - 1, gas_used |-> gas(k),
                         next_log_index |-> SumLogs(txs, k), cumulative_gas_used |-> total(k)]]

UserReceipts(block) ==
  ViewReceipts(UserTxs(block), LAMBDA k : UserTxs(block)[k].gas, LAMBDA k : UserGas(block, k))

ViewLogs(block) ==
  LET txs == UserTxs(block)
  IN  FlattenSeq([i \in DOMAIN txs |->
        [k \in DOMAIN txs[i].logs |->
           [log |-> txs[i].logs[k], number |-> block.header.number,
            transaction_index |-> i - 1, log_index |-> SumLogs(txs, i) + k - 1]]])

(* The answer to a request about the block with this hash, None if there was *)
(* no block.  To hl-node a system transaction has no receipt.                *)
View(method, id, hash) ==
  LET block == NetworkBlock(hash)
  IN  IF hash = None
      THEN CASE method \in {"eth_getEvmSystemTxsByBlockNumber",
                            "eth_getEvmSystemTxsReceiptsByBlockNumber"} -> <<"error">>
             [] method \in FilterMethods -> <<"logs", <<>>>>
             [] OTHER -> <<"none">>
      ELSE CASE method \in BlockMethods ->
                  <<"block", block.header.number,
                    [k \in DOMAIN UserTxs(block) |->
                       [id |-> UserTxs(block)[k].id, index |-> k - 1]]>>
             [] method \in CountMethods -> <<"count", Len(UserTxs(block))>>
             [] method = "eth_getBlockReceipts" -> <<"receipts", UserReceipts(block)>>
             [] method = "eth_getTransactionReceipt" ->
                  IF \E k \in DOMAIN SystemTxs(block) : SystemTxs(block)[k].id = id[2]
                  THEN <<"none">>
                  ELSE <<"receipt", TheOne({r \in ToSet(UserReceipts(block)) : r.id = id[2]})>>
             [] method \in FilterMethods \cup {"eth_subscribe"} -> <<"logs", ViewLogs(block)>>
             [] method \in SystemTxMethods ->
                  <<"txs", [k \in DOMAIN SystemTxs(block) |->
                              [id |-> SystemTxs(block)[k].id, index |-> k - 1,
                               from |-> TrueSender(SystemTxs(block)[k])]]>>
             [] method \in SystemReceiptMethods ->
                  <<"receipts", ViewReceipts(SystemTxs(block), LAMBDA k : 0, LAMBDA k : 0)>>

(* The world of the network after each of its blocks. *)
NetworkWorld[n \in 0..Len(Upstream)] ==
  IF n = 0 THEN GenesisWorld
  ELSE WorldBefore(Upstream[n], Len(Upstream[n].body.transactions), NetworkWorld[n - 1])

(* The blocks the executor treats specially: a patched one, and the one   *)
(* that deploys CoreWriter.                                               *)
Special(n) == n = CoreWriterBlock \/ \E k \in DOMAIN Patches : Patches[k][1] = n

(* What the transaction at position i of the network's block n changes. *)
NetworkChanges(n, i) ==
  LET block == Upstream[n]
      tx == block.body.transactions[i]
  IN  transact(tx, TrueSender(tx), n, RecordedTable(block),
               WorldBefore(block, i - 1, NetworkWorld[n - 1]))

-----------------------------------------------------------------------------
TypeOK ==
  /\ args \in ArgSets
  /\ up \in 0..Len(Upstream) /\ synced \in 0..up
  /\ Len(headers) = Len(bodies) /\ Len(results) <= Len(bodies)
  /\ memory # <<>> => Len(results) = Len(bodies)
  /\ unwinds \in 0..MaxUnwinds
  /\ exec # Idle => exec.status \in {"running", "failed", "panicked"}
  /\ call # NoCall => [method |-> call.method, id |-> call.id] \in Requests
  /\ call # NoCall => reply = NoReply

Answers(methods) == reply # NoReply /\ reply.method \in methods /\ reply.stable

AnswerOfHlNode == \E hash \in reply.hashes : reply.answer = View(reply.method, reply.id, hash)

(* The handlers that resolve the id of the request twice. *)
TwiceResolved == CountMethods \cup {"eth_getBlockReceipts"}

(***************************************************************************)
(* The requests this node has no answer to, where hl-node answers null:    *)
(* the receipts of a block that is not there, whose system transactions    *)
(* are counted before anyone has looked, and the receipt of a system       *)
(* transaction, which is looked up before the first one of the list.       *)
(***************************************************************************)
Unanswerable ==
  \/ reply.method = "eth_getBlockReceipts" /\ reply.hashes = {None}
  \/ /\ reply.method = "eth_getTransactionReceipt"
     /\ \E hash \in reply.hashes \ {None} :
          \E tx \in ToSet(SystemTxs(NetworkBlock(hash))) : tx.id = reply.id[2]

(***************************************************************************)
(* What the compliant handlers answer about blocks, receipts, logs and     *)
(* system transactions is what hl-node says of a block that the id stood   *)
(* for at the first or at the last read of the handler, although blocks    *)
(* were executed, stored and added meanwhile: user transactions only, in   *)
(* their own numbering; and the handlers panic on the requests they cannot *)
(* answer, and on no other.  Not claimed of the filters handed through     *)
(* (LogsFiltered), of handlers that resolve the id twice, to two blocks    *)
(* (OneBlockAnswers), and when the chain is cut under a handler.           *)
(***************************************************************************)
CompliantAnswers ==
  (/\ Answers(ComplianceMethods \ {"eth_getFilterLogs", "eth_getFilterChanges"})
   /\ reply.method \in TwiceResolved => Cardinality(reply.hashes) = 1)
    => IF Unanswerable THEN reply.answer = <<"panic">> ELSE AnswerOfHlNode

(***************************************************************************)
(* The count of transactions and the receipts of the latest block are      *)
(* those of one block that was the latest, without its system              *)
(* transactions, also if the head moves while the handler runs: the        *)
(* promise of the option hl_node_compliant for the methods that count the  *)
(* system transactions of the id again (block_transaction_count_by_number, *)
(* adjust_block_receipts).                                                 *)
(***************************************************************************)
OneBlockAnswers ==
  Answers(TwiceResolved) /\ reply.id[1] = "latest" => AnswerOfHlNode

(***************************************************************************)
(* A trace computes what the executor computed: replaying a block outside  *)
(* the executor, with the extras read again by number, makes the changes   *)
(* the network made, in every block the executor does not treat specially. *)
(***************************************************************************)
TracesAgree ==
  Answers({"debug_traceTransaction"})
    => \A n \in DOMAIN Upstream : \A i \in DOMAIN Upstream[n].body.transactions :
         (Upstream[n].body.transactions[i].id = reply.id[2] /\ ~Special(n))
           => reply.answer = <<"trace", NetworkChanges(n, i)>>

(***************************************************************************)
(* A client that was given a receipt by the forwarder never gets an older  *)
(* state from a call on the latest block, although the node's own chain    *)
(* may be behind hl-node.                                                  *)
(***************************************************************************)
CallsAfterReceipts ==
  (/\ Answers(CallMethods) /\ args.forward_call
   /\ reply.id[1] \in {"latest", "default"} /\ reply.answer[1] = "state")
    => reply.answer[2] >= synced

(***************************************************************************)
(* In compliant mode the logs of the node are those of user transactions,  *)
(* whichever filter method returns them: the promise of the option         *)
(* hl_node_compliant.                                                      *)
(***************************************************************************)
LogsFiltered == Answers(FilterMethods) => AnswerOfHlNode

=============================================================================
