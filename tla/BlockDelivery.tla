---------------------------- MODULE BlockDelivery ----------------------------
(***************************************************************************)
(* A block on its way from the source to the node: the search for the      *)
(* newest file and the files themselves (sources/local.rs, sources/s3.rs,  *)
(* sources/utils.rs), the cache in front of the source (sources/cached.rs),*)
(* the conversion with the shared table of tokens (node/types,             *)
(* node/spot_meta.rs), and the message (HlRlp).                            *)
(*                                                                         *)
(* Two callers use the source: the poller, which announces block after     *)
(* block from the newest on, and the service, which answers the node's     *)
(* requests.  BlockPoller, PseudoPeer and HlNodeSource model what surrounds*)
(* a delivery: channels, hashes and the files of hl-node.                  *)
(***************************************************************************)
EXTENDS HlTransactions, HlRlp, SourceConfig, FiniteSets, Functions

CONSTANTS Starts,         \* the chains and command lines the node is started with
          Requests,       \* what the node asks for: <<kind, height>>
          Blocks,         \* the blocks of each chain, by height
          Buckets,        \* the chain whose blocks a bucket holds
          Tokens,         \* the tokens of each API: [index, contract]
          FirstSpan,      \* blocks in a directory, 1_000_000 in the code
          SecondSpan,     \* blocks in a directory of it, 1_000 in the code
          CacheLimit,     \* CACHE_LIMIT
          HeightSpan      \* the values of a height, 2^64 in the code

VARIABLES chain, args,    \* what the node was started with
          written,        \* the source holds the blocks 1..written
          tail,           \* the last block in hl-node's newest file, 0 if there is none
          progress,       \* of the next one: 1, 2: its directories, 3: part of its file
          listed,         \* the tokens of the API that have a contract
          EVM_MAP,        \* the table of tokens, one for the process
          cache,          \* <<height, block>>, the most recently used first
          at              \* what each caller does
vars == <<chain, args, written, tail, progress, listed, EVM_MAP, cache, at>>

Callers == {"poller", "service"}
sources == create_cached_block_source(parse(args), chain)
source == Last(sources)
FromNode == \E i \in DOMAIN sources : sources[i].kind = "HlNode"

(* The blocks the source holds: a known bucket those of one chain, another what it should. *)
Held ==
  Blocks[IF source.kind = "S3" /\ source.at \in DOMAIN Buckets THEN Buckets[source.at] ELSE chain]
MaxHeight == Len(Blocks["mainnet"])

Idle == [step |-> "idle"]
Started ==
  [c \in Callers |-> IF c = "service" THEN Idle
                    ELSE [step |-> "search", dir |-> <<>>, since |-> written]]

-----------------------------------------------------------------------------
(* Files. *)

(* Mutation: the blocks of a directory are counted from its own number on. *)
rmp_path_unshifted(height) ==
  [f |-> (height \div FirstSpan) * FirstSpan, s |-> (height \div SecondSpan) * SecondSpan,
   height |-> height]

(* rmp_path: height - 1 wraps around at zero. *)
rmp_path(height) ==
  LET index == (height - 1) % HeightSpan
  IN  [f |-> (index \div FirstSpan) * FirstSpan, s |-> (index \div SecondSpan) * SecondSpan,
       height |-> height]

(* Where the files of the network lie: a directory is named after the block *)
(* before its first one.                                                    *)
Place(height) ==
  LET dir(span) == CHOOSE d \in {span * k : k \in 0..height} : height \in d + 1..d + span
  IN  [f |-> dir(FirstSpan), s |-> dir(SecondSpan), height |-> height]

(* The paths of the blocks, and as far as it is made, that of the next one. *)
Paths(made) ==
  {Place(height) : height \in 1..written + (IF progress >= made THEN 1 ELSE 0)}

(* Names in a directory: Some(number), or None for a name that is no number. *)
Listing(dir) ==
  {None} \cup
  CASE dir = <<>> -> {Some(p.f) : p \in Paths(1)}
    [] Len(dir) = 1 -> {Some(p.s) : p \in {p \in Paths(2) : p.f = dir[1]}}
    [] Len(dir) = 2 -> {Some(p.height) : p \in {p \in Paths(3) : <<p.f, p.s>> = dir}}

(* Of the names that are numbers, the largest. *)
name_with_largest_number(names) ==
  IF names \ {None} = {} THEN None
  ELSE CHOOSE name \in names \ {None} : \A other \in names \ {None} : other.some <= name.some

(* A source of files: directories and the file are made one after the other. *)
WriteFile ==
  /\ source.kind = "Local" /\ written < MaxHeight
  /\ progress' = (progress + 1) % 4
  /\ written' = IF progress = 3 THEN written + 1 ELSE written
  /\ UNCHANGED <<chain, args, tail, listed, EVM_MAP, cache, at>>

(* A bucket has no directories: an object and its prefixes appear at once. *)
PutObject ==
  /\ source.kind = "S3" /\ written < MaxHeight
  /\ written' = written + 1
  /\ UNCHANGED <<chain, args, tail, progress, listed, EVM_MAP, cache, at>>

(* hl-node writes the next block, whatever the source behind it holds. *)
NodeWrites ==
  /\ FromNode /\ tail < MaxHeight
  /\ tail' = tail + 1
  /\ UNCHANGED <<chain, args, written, progress, listed, EVM_MAP, cache, at>>

-----------------------------------------------------------------------------
(* find_latest_block_number, a level at a time. *)

Poll(next) == at' = [at EXCEPT !["poller"] = next]

(* pick_path_with_highest_number; a relative directory is joined to itself. *)
PickPath ==
  LET poller == at["poller"]
      name == name_with_largest_number(Listing(poller.dir))
  IN  /\ poller.step = "search"
      /\ IF poller.dir # <<>> /\ source.kind = "Local" /\ ~source.at.absolute
         THEN Poll([step |-> "panicked"])
         ELSE IF name = None
         THEN Poll([poller EXCEPT !.step = "ended"])
         ELSE IF Len(poller.dir) < 2
         THEN Poll([poller EXCEPT !.dir = Append(@, name.some)])
         ELSE Poll([step |-> "found", by |-> "search", height |-> name.some,
                    since |-> poller.since])
      /\ UNCHANGED <<chain, args, written, tail, progress, listed, EVM_MAP, cache>>

(* A listing of a bucket that fails is a search that finds nothing. *)
ListingFails ==
  /\ at["poller"].step = "search" /\ source.kind = "S3"
  /\ Poll([step |-> "failed"])
  /\ UNCHANGED <<chain, args, written, tail, progress, listed, EVM_MAP, cache>>

(***************************************************************************)
(* With hl-node, the last block of its newest file is the answer, older or *)
(* newer than what the source behind it holds; the search is for the case  *)
(* that there is no file or, as when an hour begins, no block in it.       *)
(***************************************************************************)
LatestOfNode ==
  /\ at["poller"].step = "search" /\ at["poller"].dir = <<>> /\ FromNode /\ tail > 0
  /\ Poll([step |-> "found", by |-> "node", height |-> tail, since |-> at["poller"].since])
  /\ UNCHANGED <<chain, args, written, tail, progress, listed, EVM_MAP, cache>>

(* BlockPoller::task enters its loop. *)
StartLoop ==
  /\ at["poller"].step = "found"
  /\ Poll([step |-> "lookup", kind |-> "new", height |-> at["poller"].height])
  /\ UNCHANGED <<chain, args, written, tail, progress, listed, EVM_MAP, cache>>

(* The service takes a request of the node for headers or bodies. *)
Request ==
  /\ at["service"] = Idle /\ at["poller"].step # "no network"
  /\ \E r \in Requests :
       at' = [at EXCEPT !["service"] = [step |-> "lookup", kind |-> r[1], height |-> r[2]]]
  /\ UNCHANGED <<chain, args, written, tail, progress, listed, EVM_MAP, cache>>

-----------------------------------------------------------------------------
(* CachedBlockSource::collect_block. *)

Entries(height) == {i \in DOMAIN cache : cache[i][1] = height}

(* LruMap: what is used comes first, what is over the limit goes. *)
Used(height, block) ==
  LET others == SelectSeq(cache, LAMBDA entry : entry[1] # height)
  IN  SubSeq(<<<<height, block>>>> \o others, 1,
             IF Len(others) < CacheLimit THEN Len(others) + 1 ELSE CacheLimit)

Collected(c, block) ==
  at' = [at EXCEPT ![c] = [step |-> "convert", kind |-> @.kind, height |-> @.height,
                             block |-> block, done |-> <<>>]]

(* The cache is asked, and left before the source is. *)
Lookup(c) ==
  /\ at[c].step = "lookup"
  /\ IF Entries(at[c].height) # {}
     THEN LET entry == cache[CHOOSE i \in Entries(at[c].height) : TRUE]
          IN  cache' = Used(entry[1], entry[2]) /\ Collected(c, entry[2])
     ELSE cache' = cache /\ at' = [at EXCEPT ![c].step = "fetch"]
  /\ UNCHANGED <<chain, args, written, tail, progress, listed, EVM_MAP>>

(* Mutation: the cache is a map without a limit. *)
FetchUnlimited(c) ==
  /\ at[c].step = "fetch"
  /\ rmp_path(at[c].height) \in Paths(4)
  /\ cache' = <<<<at[c].height, Held[at[c].height]>>>> \o cache
  /\ Collected(c, Held[at[c].height])
  /\ UNCHANGED <<chain, args, written, tail, progress, listed, EVM_MAP>>

(* The source returns what is at the path, and another caller may have been faster. *)
Fetch(c) ==
  /\ at[c].step = "fetch"
  /\ rmp_path(at[c].height) \in Paths(4)
  /\ cache' = Used(at[c].height, Held[at[c].height])
  /\ Collected(c, Held[at[c].height])
  /\ UNCHANGED <<chain, args, written, tail, progress, listed, EVM_MAP>>

(* hl-node has written the block. *)
FetchFromNode(c) ==
  /\ at[c].step = "fetch" /\ FromNode /\ at[c].height \in 1..tail
  /\ cache' = Used(at[c].height, Blocks[chain][at[c].height])
  /\ Collected(c, Blocks[chain][at[c].height])
  /\ UNCHANGED <<chain, args, written, tail, progress, listed, EVM_MAP>>

(* No file, part of one, or no answer: the poller tries again, the request is dropped. *)
FetchFails(c) ==
  /\ at[c].step = "fetch"
  /\ source.kind = "S3" \/ FromNode \/ rmp_path(at[c].height) \notin Paths(4)
  /\ at' = [at EXCEPT ![c] = IF c = "poller" THEN [@ EXCEPT !.step = "lookup"] ELSE Idle]
  /\ UNCHANGED <<chain, args, written, tail, progress, listed, EVM_MAP, cache>>

-----------------------------------------------------------------------------
(* BlockAndReceipts::to_reth_block, a system transaction at a time. *)

(* erc20_contract_to_spot_token: the tokens without a contract are left out. *)
erc20_contract_to_spot_token(tokens) ==
  [contract \in {token.contract : token \in tokens} |->
     (CHOOSE token \in tokens : token.contract = contract).index]

Pending(c) == at[c].block.system_txs[Len(at[c].done) + 1]

(***************************************************************************)
(* A panic of a conversion: the service is a critical task and takes the   *)
(* node with it; announcements are converted by the network task, and with *)
(* it no request comes any more.                                           *)
(***************************************************************************)
Panicked(c) ==
  at' = IF c = "service" THEN [caller \in Callers |-> [step |-> "panicked"]]
        ELSE [at EXCEPT ![c] = [step |-> "no network"]]

(* The table is read; on a miss the listing is fetched. *)
ConvertNext(c) ==
  /\ at[c].step = "convert" /\ Len(at[c].done) < Len(at[c].block.system_txs)
  /\ IF ~Convertible(Pending(c)) THEN Panicked(c)
     ELSE IF NeedsSpot(Pending(c)) /\ Pending(c).to \notin DOMAIN EVM_MAP
     THEN at' = [at EXCEPT ![c] = [step |-> "listing"] @@ @]
     ELSE at' = [at EXCEPT ![c].done = Append(@, system_tx_to_reth_transaction(Pending(c),
                   IF NeedsSpot(Pending(c)) THEN EVM_MAP[Pending(c).to] ELSE None))]
  /\ UNCHANGED <<chain, args, written, tail, progress, listed, EVM_MAP, cache>>

(* fetch_spot_meta answers, with the listing of this moment. *)
FetchListing(c) ==
  /\ at[c].step = "listing"
  /\ at' = [at EXCEPT ![c] =
       [step |-> "store", table |-> erc20_contract_to_spot_token(
          {token \in Tokens[spot_api(chain)] : token.index \in listed})] @@ @]
  /\ UNCHANGED <<chain, args, written, tail, progress, listed, EVM_MAP, cache>>

(* fetch_spot_meta fails: unwrap panics, before the table is locked. *)
FetchListingFails(c) ==
  /\ at[c].step = "listing"
  /\ Panicked(c)
  /\ UNCHANGED <<chain, args, written, tail, progress, listed, EVM_MAP, cache>>

(* Mutation: a table that holds something is not fetched again. *)
StoreTableOnce(c) ==
  /\ at[c].step = "store"
  /\ EVM_MAP' = IF EVM_MAP = <<>> THEN at[c].table ELSE EVM_MAP
  /\ at' = [at EXCEPT ![c] = [step |-> "convert"] @@ Restrict(@, DOMAIN @ \ {"table"})]
  /\ UNCHANGED <<chain, args, written, tail, progress, listed, cache>>

(* The whole table is replaced, by a listing that may be older than it. *)
StoreTable(c) ==
  /\ at[c].step = "store"
  /\ EVM_MAP' = at[c].table
  /\ at' = [at EXCEPT ![c] = [step |-> "convert"] @@ Restrict(@, DOMAIN @ \ {"table"})]
  /\ UNCHANGED <<chain, args, written, tail, progress, listed, cache>>

(* The block is sent, in the message of the caller, and the node reads it. *)
Deliver(c) ==
  LET block == to_reth_block(at[c].block, at[c].done)
  IN  /\ at[c].step = "convert" /\ Len(at[c].done) = Len(at[c].block.system_txs)
      /\ at' = [at EXCEPT ![c] =
           [step |-> "delivered", kind |-> @.kind, height |-> @.height,
            arrived |-> CASE @.kind = "headers" -> block.header
                          [] @.kind = "bodies" -> decode_body(encode_body(block.body))
                          [] @.kind = "new" ->
                               decode_new_block(encode_new_block(block, block.header.difficulty))]]
      /\ UNCHANGED <<chain, args, written, tail, progress, listed, EVM_MAP, cache>>

(* The poller goes on with the next block, the service with the next request. *)
GoOn(c) ==
  /\ at[c].step = "delivered"
  /\ at' = [at EXCEPT ![c] =
       IF c = "poller" THEN [step |-> "lookup", kind |-> "new", height |-> @.height + 1]
       ELSE Idle]
  /\ UNCHANGED <<chain, args, written, tail, progress, listed, EVM_MAP, cache>>

-----------------------------------------------------------------------------
(* A token gets its contract, before the first block that needs it or late. *)
LinkToken ==
  /\ \E token \in Tokens[spot_api(chain)] :
       /\ token.index \notin listed
       /\ listed' = listed \cup {token.index}
  /\ UNCHANGED <<chain, args, written, tail, progress, EVM_MAP, cache, at>>

(* The node is started again: memory is new, the source is not. *)
Restart ==
  /\ at["service"].step = "panicked" \/ at["poller"].step = "no network"
  /\ EVM_MAP' = <<>> /\ cache' = <<>>
  /\ at' = Started
  /\ UNCHANGED <<chain, args, written, tail, progress, listed>>

Init ==
  /\ \E start \in Starts :
       /\ parse(start[2]) # None
       /\ chain = start[1] /\ args = start[2]
  /\ written \in 0..MaxHeight /\ progress = 0
  /\ tail \in IF FromNode THEN 0..MaxHeight ELSE {0}
  /\ listed = {}
  /\ EVM_MAP = <<>> /\ cache = <<>>
  /\ at = Started

Step(c) ==
  \/ Lookup(c) \/ Fetch(c) \/ FetchFromNode(c) \/ FetchFails(c)
  \/ ConvertNext(c) \/ FetchListing(c) \/ FetchListingFails(c) \/ StoreTable(c)
  \/ Deliver(c) \/ GoOn(c)

Next ==
  \/ WriteFile \/ PutObject \/ NodeWrites \/ LinkToken
  \/ PickPath \/ ListingFails \/ LatestOfNode \/ StartLoop \/ Request
  \/ \E c \in Callers : Step(c)
  \/ Restart

(* The threads run, and a token that moves between the chains has a contract. *)
Fairness ==
  /\ \A c \in Callers :
       WF_vars(ConvertNext(c) \/ FetchListing(c) \/ StoreTable(c) \/ Deliver(c))
  /\ WF_vars(LinkToken)

Spec == Init /\ [][Next]_vars /\ Fairness

-----------------------------------------------------------------------------
TypeOK ==
  /\ <<chain, args>> \in Starts
  /\ written \in 0..MaxHeight /\ tail \in 0..MaxHeight /\ progress \in 0..3
  /\ Len(cache) <= CacheLimit
  /\ \A i, j \in DOMAIN cache : cache[i][1] = cache[j][1] => i = j
  /\ \A c \in Callers :
       at[c].step \in {"idle", "search", "ended", "failed", "found", "panicked", "no network",
                      "lookup", "fetch", "convert", "listing", "store", "delivered"}

(* Who sends a transaction of a block of the chain. *)
TrueSender(tx) ==
  IF tx.kind = "user" THEN tx.signer
  ELSE IF tx.input = None THEN NativeAddress ELSE 32 * IndexSpan + tx.token

(* What the node must have received of a block: the header it was sealed with. *)
HeaderArrived(raw, header) == header = raw.header

(* ... and the body: system transactions first, each with its sender, and the extras. *)
BodyArrived(raw, body) ==
  LET txs == raw.system_txs \o raw.txs
  IN  /\ Len(body.transactions) = Len(txs)
      /\ \A i \in DOMAIN txs :
           /\ body.transactions[i].id = txs[i].id
           /\ recover_signer(body.transactions[i]) = TrueSender(txs[i])
      /\ body.withdrawals = raw.withdrawals /\ body.sidecars = None
      /\ body.read_precompile_calls = Some(raw.read_precompile_calls)
      /\ body.highest_precompile_address = raw.highest_precompile_address

(***************************************************************************)
(* What reaches the node is the block of its chain at the height asked for,*)
(* whatever was cached, by whom, and however old the table of tokens was   *)
(* that it was converted with (CachedBlockSource::collect_block,           *)
(* system_tx_to_reth_transaction, to_reth_block, the RLP helpers).         *)
(***************************************************************************)
DeliveredIntact ==
  \A c \in Callers : at[c].step = "delivered" =>
    LET raw == Blocks[chain][at[c].height]
    IN  CASE at[c].kind = "headers" -> HeaderArrived(raw, at[c].arrived)
          [] at[c].kind = "bodies" -> BodyArrived(raw, at[c].arrived)
          [] at[c].kind = "new" -> /\ HeaderArrived(raw, at[c].arrived.header)
                                   /\ BodyArrived(raw, at[c].arrived.body)

(***************************************************************************)
(* A search that finds a block finds one as new as the newest when the     *)
(* search began, and where collect_block will look for it; one that ends   *)
(* with nothing looked into a directory that was made since, or into an    *)
(* empty source (find_latest_block_number, three listings of a tree that   *)
(* grows meanwhile; rmp_path, whose arithmetic has to meet the layout of   *)
(* the files).  When hl-node has answered, the poller begins with a block  *)
(* that hl-node has, which may be older than the newest of the source.     *)
(* Nothing is claimed when a listing fails: the poller then gives up.      *)
(***************************************************************************)
LatestIsCurrent ==
  LET poller == at["poller"]
  IN  /\ (poller.step = "found" /\ poller.by = "search") =>
           /\ poller.height >= poller.since
           /\ rmp_path(poller.height) \in Paths(3)
      /\ (poller.step = "found" /\ poller.by = "node") => poller.height \in 1..tail
      /\ poller.step = "ended" =>
           poller.since = 0 \/ (poller.dir # <<>> /\ Last(poller.dir) >= poller.since)

Converting(c) == at[c].step \in {"convert", "listing", "store"}

(***************************************************************************)
(* A conversion comes to an end: the loop around the table of tokens does  *)
(* not go on for ever, though each caller replaces the table the other has *)
(* just written (system_tx_to_reth_transaction).                           *)
(***************************************************************************)
ConversionEnds ==
  \A c \in Callers : Converting(c) ~> ~Converting(c)
=============================================================================
