--------------------------- MODULE MCBlockDelivery ---------------------------
(***************************************************************************)
(* Three blocks, in the directories 0/0, 0/1 and 2/2.  The first has a     *)
(* native transfer and one of a token, the second no system transaction    *)
(* but withdrawals, the third a transfer of a token listed under another   *)
(* index on each chain.                                                    *)
(***************************************************************************)
EXTENDS BlockDelivery

MCUser(id) ==
  [id |-> id, kind |-> "user", token |-> 0, type |-> "Eip1559", price |-> 1, to |-> "x",
   input |-> "data", signer |-> id, s |-> 0]
MCSystem(id, to, input, token) ==
  [MCUser(id) EXCEPT !.kind = "system", !.type = "Legacy", !.price = 0, !.to = to,
                   !.input = input, !.token = token]
MCRaw(c, number, system, txs, withdrawals, top) ==
  [header |-> [chain |-> c, number |-> number, difficulty |-> 0], system_txs |-> system,
   txs |-> txs, withdrawals |-> withdrawals, read_precompile_calls |-> <<number>>,
   highest_precompile_address |-> top]

MCChain(c, first, second) ==
  <<MCRaw(c, 1, <<MCSystem("s1", "x", None, 0), MCSystem("s2", "c1", "transfer", first)>>,
          <<MCUser("u1")>>, None, None),
    MCRaw(c, 2, <<>>, <<MCUser("u2")>>, Some(<<"w">>), Some("p")),
    MCRaw(c, 3, <<MCSystem("s3", "c2", "transfer", second)>>, <<MCUser("u3")>>, None, Some("p"))>>
MCBlocks ==
  [c \in SupportedChains |->
     IF c = "mainnet" THEN MCChain(c, 1, 2) ELSE MCChain(c, 2, 1)]
MCTokens ==
  [api \in {"api.hyperliquid.xyz", "api.hyperliquid-testnet.xyz"} |->
     IF api = "api.hyperliquid.xyz"
     THEN {[index |-> 1, contract |-> "c1"], [index |-> 2, contract |-> "c2"]}
     ELSE {[index |-> 2, contract |-> "c1"], [index |-> 1, contract |-> "c2"]}]

MCBuckets == [bucket \in {"hl-mainnet-evm-blocks", "hl-testnet-evm-blocks"} |->
                IF bucket = "hl-mainnet-evm-blocks" THEN "mainnet" ELSE "testnet"]

NoArgs == [s3 |-> FALSE, local |-> FALSE, block_source |-> None, local_ingest_dir |-> None]
MCStarts ==
  {<<"mainnet", NoArgs>>,
   <<"testnet", [NoArgs EXCEPT !.s3 = TRUE]>>,
   <<"mainnet", [NoArgs EXCEPT !.local = TRUE]>>,
   <<"mainnet", [NoArgs EXCEPT !.block_source = Some([absolute |-> FALSE, name |-> "blocks"])]>>,
   <<"mainnet", [NoArgs EXCEPT !.block_source = Some([bucket |-> "private"]),
                               !.local_ingest_dir = Some("hl-node")]>>}
MCRequests == {<<"headers", 0>>, <<"headers", 1>>, <<"bodies", 3>>}
=============================================================================
