----------------------------- MODULE MCHlNodeRpc -----------------------------
(***************************************************************************)
(* Three heights.  Block 1 has a native system transaction and is executed *)
(* with placeholder hashes; block 2 has a spot transaction with a log, a   *)
(* call that was not recorded and real hashes; block 3 deploys CoreWriter  *)
(* and is patched.  At height 1 there are also blocks with each field of   *)
(* the header wrong, one with a transaction the EVM refuses, one with      *)
(* recorded calls that fail and panic, and one with system transactions    *)
(* only; at height 2 one with the wrong gas and an empty one.              *)
(***************************************************************************)
EXTENDS HlNodeRpc

CONSTANTS MCHeights  \* how many blocks hl-node makes

MCAccounts == {"A", "CW"}
MCGenesisWorld == [a \in MCAccounts |-> [code |-> "none", data |-> <<>>]]
MCPrecompiles == {1, 8, 9, 10}
MCEthPrecompiles == {1}
MCPatches == << <<3, 0, TRUE, "A">>, <<3, 1, FALSE, "A">> >>

User(id, gas, logs, writes, op, arg) ==
  [id |-> id, kind |-> "user", token |-> 0, type |-> "Eip1559", price |-> 1, to |-> "x",
   input |-> "data", signer |-> id, s |-> 0, refused |-> FALSE, gas |-> gas, gas_limit |-> gas,
   success |-> TRUE, logs |-> logs, writes |-> writes, call |-> [op |-> op, arg |-> arg]]

System(id, input, token, logs, writes) ==
  [User(id, 2, logs, writes, "none", 0) EXCEPT
     !.kind = "system", !.type = "Legacy", !.price = 0, !.input = input, !.token = token]

Converted(txs) == [i \in DOMAIN txs |-> system_tx_to_reth_transaction(txs[i], txs[i].token)]

Raw(txs, recorded, top) ==
  [header |-> None, txs |-> txs, withdrawals |-> None,
   read_precompile_calls |-> recorded, highest_precompile_address |-> top]

(* The block with an honest header. *)
Sealed(number, hash, parent, timestamp, raw, system) ==
  LET block == to_reth_block(raw, Converted(system))
      sum == UserSummary(block)
  IN  [block EXCEPT !.header =
         [number |-> number, hash |-> hash, parent_hash |-> parent, timestamp |-> timestamp,
          gas_limit |-> 10, gas_used |-> sum.gas_used, logs_bloom |-> sum.logs_bloom,
          transactions_root |-> sum.transactions_root, receipts_root |-> sum.receipts_root]]

MCGenesis == [number |-> 0, hash |-> "h0", parent_hash |-> "none", timestamp |-> 0]

Calls1 == [a \in {8} |-> [i \in {"x"} |-> <<"ok">>]]

B1 == Sealed(1, "h1", "h0", 1,
        Raw(<<User("u1", 3, <<"l1">>, {"A"}, "read", <<8, "x">>),
              User("u2", 1, <<>>, {"CW"}, "blockhash", 0)>>, Calls1, None),
        <<System("s1", None, 0, <<>>, {"A"})>>)
B1Low == [B1 EXCEPT !.header.hash = "h1low", !.header.gas_limit = 2]
B1Root == [B1 EXCEPT !.header.hash = "h1root", !.header.transactions_root = <<>>]
B1Receipts == [B1 EXCEPT !.header.hash = "h1receipts", !.header.receipts_root = <<>>]
B1Bloom == [B1 EXCEPT !.header.hash = "h1bloom", !.header.logs_bloom = {}]
B1Refused == Sealed(1, "h1refused", "h0", 1,
               Raw(<<[User("u6", 1, <<>>, {"A"}, "none", 0) EXCEPT !.refused = TRUE]>>, <<>>, None),
               <<>>)
B1Calls == Sealed(1, "h1calls", "h0", 1,
             Raw(<<User("u7", 1, <<>>, {"A"}, "read", <<8, "e">>),
                   User("u8", 1, <<>>, {"A"}, "read", <<8, "p">>)>>,
                 [a \in {8} |-> [i \in {"e", "p"} |-> IF i = "e" THEN <<"Error">>
                                                     ELSE <<"UnexpectedError">>]], None), <<>>)
B1System == Sealed(1, "h1system", "h0", 1, Raw(<<>>, <<>>, None),
              <<System("s4", None, 0, <<>>, {"A"})>>)
B2 == Sealed(2, "h2", "h1", 1,
        Raw(<<User("u3", 2, <<"l3">>, {"A"}, "read", <<10, "y">>),
              User("u4", 4, <<"l4", "l5">>, {"A"}, "blockhash", 1)>>, <<>>, Some(10)),
        <<System("s2", "transfer", 7, <<"l2">>, {"A"})>>)
B2Gas == [B2 EXCEPT !.header.hash = "h2gas", !.header.gas_used = 8]
B2Empty == Sealed(2, "h2e", "h1", 2, Raw(<<>>, <<>>, None), <<>>)
B3 == Sealed(3, "h3", "h2", 2,
        Raw(<<User("u5", 1, <<>>, {"A", "CW"}, "corewriter", 0)>>, Calls1, None),
        <<System("s3", None, 0, <<>>, {"A", "CW"})>>)

MCBlocks ==
  {b \in {B1, B1Low, B1Root, B1Receipts, B1Bloom, B1Refused, B1Calls, B1System,
          B2, B2Gas, B2Empty, B3} : b.header.number <= MCHeights}
MCUpstream == SubSeq(<<B1, B2, B3>>, 1, MCHeights)

(* Bodies of consecutive blocks, the empty one as downloaded and as executed. *)
MCBatches ==
  {<<B1.body>>, <<B2.body>>, <<B3.body>>, <<None>>, <<B2Empty.body>>,
   <<B1Refused.body>>, <<B1Calls.body>>, <<B1System.body>>,
   <<B1.body, B2.body>>, <<B1.body, None>>, <<B1.body, B2Empty.body>>, <<B2.body, B3.body>>,
   <<B1.body, B2.body, B3.body>>}

MCArgSets ==
  {[forward_call |-> on, hl_node_compliant |-> on, experimental_eth_get_proof |-> FALSE] :
     on \in BOOLEAN}

Request(methods, ids) == {[method |-> m, id |-> id] : m \in methods, id \in ids}
First == <<"number", 1>>
Number == <<"number", 2>>
Hash == <<"hash", "h2">>
Latest == <<"latest">>

(* The requests whose id is a tag that is resolved twice. *)
MCLatestRequests ==
  Request({"eth_getBlockTransactionCountByNumber", "eth_getBlockReceipts"}, {Latest})

MCRequests ==
  Request({"eth_getBlockByNumber"}, {Latest})
    \cup Request({"eth_getBlockTransactionCountByNumber", "eth_getBlockReceipts"},
                 {First, Number, Latest})
    \cup Request({"eth_getBlockByHash", "eth_getBlockTransactionCountByHash"}, {Hash})
    \cup Request({"eth_getTransactionReceipt"}, {<<"tx", "u4">>, <<"tx", "s2">>})
    \cup Request({"eth_getLogs", "eth_subscribe"}, {First})
    \cup Request({"eth_getLogs", "eth_subscribe", "eth_getFilterLogs", "eth_getFilterChanges"},
                 {Number})
    \cup Request({"eth_getEvmSystemTxsByBlockNumber", "eth_getEvmSystemTxsReceiptsByBlockNumber"},
                 {<<"default">>, First})
    \cup Request({"eth_getEvmSystemTxsByBlockHash", "eth_getEvmSystemTxsReceiptsByBlockHash"}, {Hash})
    \cup Request({"debug_traceTransaction"}, {<<"tx", "u3">>, <<"tx", "u4">>})
    \cup Request({"eth_call"}, {<<"default">>, <<"number", 1>>})
    \cup Request({"eth_estimateGas"}, {Latest})
    \cup Request(ForwarderMethods, {<<"raw", "u3">>})
=============================================================================
