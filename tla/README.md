# reth-hl in TLA+

reth-hl is a node for HyperEVM built on reth. It has no block producer of its
own: it reads finished blocks from files (S3, a directory, or the hourly files
of a local hl-node) and pretends, towards its own network layer, to be a peer
that has them. Its blocks differ from those of Ethereum: they begin with system
transactions, which have no price and count no gas, and they record what the
read precompiles answered. This directory models the way of a block from the
file to the answers of the RPC, checks the models with TLC on small instances,
and proves some of the results with TLAPS for all values of the constants.

## The system

```
 hl-node files ─┐            conversion, token table
 local dir, S3 ─┴─► sources ─► cache ─► BlockPoller ─► network ─► HlBlockImport ─► ImportService ─► engine ─┐
                                 ▲          │ block hash cache         │                 │ canonical_head    │
                                 └─ PseudoPeer ◄── headers, bodies ────┴── pipeline ──┐  └─► outcomes        │
                                                                                      ▼                      ▼
 clients ◄─► RPC: compliance layer, traces, forwarders ◄── bodies + extras tables ◄── executor, validation ◄─┘
                                 │
                                 └──► upstream node
```

| part | modules | what is hard about it |
|---|---|---|
| block hash cache (`pseudo_peer/utils.rs`) | LruBiMap, BlockHashCache | three structures must lose the same entry; two hashes may claim one number |
| block poller, pseudo peer (`pseudo_peer/service.rs`, `mod.rs`) | BlockPoller, PseudoPeer, BlockFeed | failing source, back pressure, a cache that changes at every await, retries, panics |
| hl-node source (`pseudo_peer/sources/hl_node`) | HlNodeSource | torn lines, hour change, callers removing blocks from a shared cache |
| other sources, their cache and choice (`pseudo_peer/sources`, `cli.rs`, `config.rs`) | SourceConfig, BlockDelivery | listings of a tree that grows, two callers missing one height, height 0 |
| conversion and token table (`node/types`, `node/spot_meta.rs`) | HlTransactions, BlockDelivery | a table both callers replace, a loop that waits for a listing |
| wire format (`node/primitives`, `node/network/mod.rs`) | HlRlp | optional trailing fields, a body split between two lists |
| block import, head selection (`node/network/block_import`, `consensus.rs`) | BlockImport, HlConsensus | wake-ups, order of payload and fork choice, stale reads |
| execution, patches, validation (`node/evm`, `evm`, `node/consensus`) | HlExecutor, NodeChain | receipts of system transactions told by their gas; blocks executed again |
| storage (`node/storage`) | HlStorage, BodyStore, NodeChain | two tables that must be cut together; append fails on a leftover row |
| RPC (`addons`, `node/rpc`, `main.rs`) | HlNodeRpc | handlers that read a moving chain several times |

PROJECT.json lists every part, every hazard with its line, and the lines each
definition stands for.

## Modules

### Getting blocks

**LruBiMap** holds the map's operations as operators on a record
`[left_to_right, right_to_left, lru_keys]`. Rust maps are total functions with
`None` for a missing entry. reth's `LruCache` is external: inserting a present
key promotes it, inserting a new one into a full list drops the oldest.
**BlockHashCache** is the state machine around it, with one step per insert (the
code holds the write lock) and the history of insertions. PseudoPeer uses the
operators of LruBiMap, too.

**BlockPoller** is the poller task and `BlockPoller::poll`. **PseudoPeer**
extends it with the event loop and the service. A step of the service ends at an
await or where a lock of the cache is released, so announcements interleave with
a request being served: `TryGetCached`, `FindLatest`, `BackfillLookup` (split of
the range into cached and uncached numbers), `BackfillCollected` /
`BackfillFailed`, `OfficialRpc`, `WarmLookup` / `WarmCollect`, and `Respond` or
`Drop`. The source is seen through its trait: it has the blocks `1..tip`, `tip`
grows, each call may fail. A block is its number and `HashOf` its hash. The two
ways the task can end (`unwrap()` of a missing latest block, "Hash not found")
are values of `pc`; what the node does after such a panic is outside the model,
and the poller, a task of its own, goes on. Numbers wrap modulo `U64`, which
matters for a falling header request that reaches below zero. **BlockFeed** is
the abstract specification of all this, as the node sees it: a run of blocks
without a gap, none of which the source does not have.

**HlNodeSource** models hl-node as a writer of increasing heights: a line begins
(torn) and later ends, in the file of the current hour or still in the one
before. The ingest loop reads a file (`IngestScan`) and loads the result in a
later step (`IngestLoad`), because it waits for the lock in between. Each caller
runs `collect_block`: `CollectBlock` samples the clock, `TryCollectLocal` is one
step under the lock, then `Found`, or `Missed` and perhaps `Fallback`. A file is
the sequence of its heights. Contiguous ranges are the set of the heights in
them. `next_height` is capped at `MaxHeight + 1`, above which no line exists.

**SourceConfig** turns the flags into the stack of sources. **BlockDelivery**
runs two callers on that stack, the poller and the service. `PickPath` is one
listing of the search for the newest block, and `WriteFile` makes a directory or
a part of a file in between. A source reads a height from `rmp_path(height)`,
while the files lie where their writers put them (`Place`, external). With an
hl-node the search answers the last block of its newest file (`LatestOfNode`),
which `NodeWrites` moves and which may be older or newer than what the fallback
has, or the fallback's answer if there is no such file. `Lookup` and `Fetch` are the two locked sections of
`CachedBlockSource::collect_block`. `ConvertNext`, `FetchListing` and
`StoreTable` are the steps of `system_tx_to_reth_transaction`, with the token
table shared by the callers and the listing fetched outside its lock. `Deliver`
encodes the block (**HlRlp**) and decodes it on the other side. A path is the
triple of its two directories and its height; names that are not numbers are
`None`. **HlTransactions** has what all modules share about transactions: who
the sender of a system transaction is, how it is hidden in the signature, and
how the transactions of a block are merged.

### Following the chain

**HlConsensus** is `canonical_head`. **BlockImport** is the import service: block
`i` becomes the futures `<<i, "payload">>` and `<<i, "fcu">>`. `ReceiveBlock`
is one iteration of the first loop of `poll`, which `ChannelEmpty` ends; the
`Poll...` actions are one iteration each of the second loop. Blocks and answers
may arrive between any two of them. Whether they wake the task is `Wake`: in the
first loop the waker may be the spent one of the last poll, and then they do not.
FuturesUnordered is external, modelled as its first-in-first-out ready
queue, with the rule that it yields after polling every future once. The engine
is external: it handles its messages in order, finds a block valid only on top
of a valid one, and may answer inconclusively (SYNCING, ACCEPTED, an error).
`canonical_head` makes two reads of the database, so it takes two steps.

**HlExecutor** is the block executor: `BeginBlock` (new precompiles, CoreWriter
deployment), `ExecuteTransaction` (gas check, EVM, gas, patch, receipt, commit),
`EndBlock`. The EVM is external, and may refuse a transaction, which fails the
block. A transaction makes at most one call (a read
precompile, BLOCKHASH, CoreWriter) and writes an entry made of its sender and
the answer to some accounts, so that a wrong precompile, hash, sender or order
shows in the world. `assemble_block` and `validate_block_post_execution` are
operators over the receipts. Roots are the lists they commit to, blooms the sets
of logs.

**HlStorage** has the bodies as reth keeps them and the table of packed extras;
`WriteBlockBodies`, `RemoveBlockBodiesAbove`, `read_block_body`. reth's own part
is external and taken to be read as it was written. **BodyStore** is its abstract
specification, a list of bodies.

**NodeChain** composes the two with what reth does around them: the bodies and
execution stages of the pipeline, the payloads of the engine, kept in memory and
persisted in batches, unwinds, and crashes that lose the memory and the block
being executed. These are external, modelled by when they call this
repository's code.

### Answering

**HlNodeRpc** extends NodeChain with one client request at a time. `Server` says
which implementation answers a method under which flags, as registered in
`main.rs`. A handler's first read of the chain is the step that takes the
request, each later read a step of its own, and the chain moves in between. The
upstream node has the blocks `Upstream` and may be ahead.

The `*Proofs` modules hold theorems. The `MC*` modules give TLC its constants.
A definition whose comment starts with "Mutation" is a deliberately wrong
variant of the definition after it; PROJECT.json pairs it with the property
that notices.

## Runs

| run | states | checks |
|---|---|---|
| `cache` | 21,845 | all insert sequences of length 7 over 4 hashes, capacity 3, two hashes claiming one number |
| `import` | 132,879 | two announcements out of four blocks (two competing, one child), every answer, database errors, shutdown |
| `import_stranded` | | violation, see Findings |
| `import_head` | | violation, see Findings |
| `pseudo_peer` | 3,420,032 | two requests out of five, chain of 4, cache of 2, failures everywhere |
| `pseudo_peer_live` | 31,554 | liveness of the poller and of a request, and the refinement of the block feed, chain of 3 |
| `hl_node` | 643,375 | three heights, two hours, two overlapping callers after one block |
| `hl_node_live` | 93,222 | liveness of the tail, two heights, two hours |
| `delivery` | 147,133 | three blocks, two tokens, a cache of one block, five command lines on two chains, safety and liveness |
| `node_rpc` | 146,200 | twelve blocks at three heights, pipeline and engine, one unwind, crashes, the requests of clients in both modes |
| `rpc_logs` | | violation, see Findings |
| `rpc_latest` | | violation, see Findings |

Each module that is run has one type invariant. The other properties:

- `ReverseSound`, `InverseMaps`, `KeysTracked`, `KeepsMostRecent`,
  `ForgetsOnlyTheOldest`: the cache is an LRU cache in both directions, as far as
  forks allow. A fork can make a cached hash unreachable by its number (an
  eviction removes the rival's reverse entry), but never a number name a
  forgotten hash.
- `AnnouncedInOrder`: no gap and no repetition. `AnnouncedResolvable`: what was
  announced can be asked for. `ResponsesCorrect`: a full and ordered answer or
  none. `CleanPassFinds`: the chunks of a backfill pass cover every number, even
  though the cache changes during the pass, so the "Hash not found" panic needs
  a failure in every pass or a block above the sampled latest one.
  `RequestsSettled` and `EveryBlockAnnounced`: both tasks make progress.
  `FeedRefined`: the poller and the peer together implement BlockFeed.
- `OnlyCompleteBlocks`, `PassedLinesKept`, `BackfillComplete`,
  `KnownBlocksServedLocally`, `LinesTailed`: the local source invents nothing,
  loses nothing it has passed, and keeps up.
- `DeliveredIntact`: whatever was cached, by whom, and however old the token
  table was, the node receives the block of its chain at the height asked for,
  with each sender and the extras. `LatestIsCurrent`: a search of a directory or
  bucket finds a block at least as new as the newest when it began, one that can
  be read from the path of its height; it ends with nothing only in an empty
  source or a directory made meanwhile. An answer of hl-node is its newest block.
  Nothing is claimed of a listing that failed. `ConversionEnds`: the loop around the
  token table ends.
- `ForkChoiceAfterPayload`, `OutcomesFaithful`, `NoSleepWithWork`,
  `BothOutcomes`: the import service.
- `RecognisedByGas`: a receipt has a cumulative gas of zero exactly if its
  transaction is a system transaction. `VerdictsRight`: once a block is
  executed, the node accepts it exactly if gas, receipts root and bloom filter of
  its header are those of its user transactions and the EVM refuses none of its
  transactions; on the way through the pipeline its transactions root is right,
  too. The engine's way does not compare that root. `WorldsRight`: the
  world after a block is that of the network, on whichever path and however often
  it was executed. `AssembledAsValidated`: of a block that was accepted, the
  header fields that assembly computes are those of the header, except that the
  bloom filter also has the logs of system transactions. `TablesAgree`: the table of extras
  has a row for exactly the stored blocks. `StoreRefined`: the storage implements
  BodyStore.
- `CompliantAnswers`: the compliant handlers answer as hl-node would of a block
  that the id stands for, and panic exactly on the requests `Unanswerable` names.
  Left to `OneBlockAnswers`, which fails, is an id that is resolved twice and
  stands for two blocks. `TracesAgree`: a trace
  makes the changes the network made. `CallsAfterReceipts`: after a receipt of
  the forwarder, a call on the latest block is never answered from an older
  state.

**Bounds.** The interesting cases need a cache that overflows (capacity below
the number of hashes), a channel that fills (capacity 1), a chain of more than
one backfill chunk with the RPC threshold inside it, a second pass, two
competing blocks and a child, a file longer than the block cache, three lines in
a file (two complete, one torn) for the failing search of the last line, and one
change of hour. For deliveries: blocks in three directories on two levels, a
height with a directory of its own, a height 0, tokens with different indices on
the two chains, and a cache that holds one block for two callers. For the chain:
a height on each side of the three block numbers at which execution changes
(placeholder hashes, warm precompiles, CoreWriter), a block with a wrong value in
each field that validation compares, one with a transaction that the EVM refuses,
one whose recorded answers are the two kinds of error, one of system transactions
only, an empty one, system transactions with and without logs, a patch before and after the
first receipt, a batch of two, and an unwind followed by another batch. Each is
present in a run. The spans of the directories, the width of a height and the
numbers of the special blocks are constants and small.

Clock, heights, requests, insertions and announcements of the runs of the
cache, the import service, the pseudo peer and the hl-node source are capped by
constants, which is why deadlock is not checked there: each ends when its bounds
are used up. `delivery` and `node_rpc` check it.

**Fairness.** Weak fairness of the tasks the tokio runtime schedules: a woken
task is polled, a poll that began goes on, a sleep ends. The engine answers each
message it was sent. A block the source holds is collected in the end, because
the poller retries for ever. In `delivery` the conversion of a block is a loop
that never gives up its thread, so its steps are fair. That the contract of a
token that moves between the chains is listed in the end (`LinkToken`) is an
assumption about the spot API, and without it the code's loop has no end. Nothing
is assumed of the network, hl-node, the clock, the growth of the source or the
requests of the node and of clients.

## Findings

- `import_stranded`: in `ImportService::poll` the loop
  `while let Poll::Ready(Some(Some(outcome)))` also ends at a future that
  completes with `None`. `poll` then returns `Pending` while other futures are
  ready, without a wake-up, so a block can stay unsubmitted until an unrelated
  event. While all futures have outcomes this does not happen
  (`NoSleepWithWork`, `BothOutcomes`).
- `import_head`: the head is compared when the fork-choice future is first
  polled. With two competing blocks in the queue both see the old head, and the
  head moves from the lower hash to the higher one, against the rules documented
  at `canonical_head`.
- `rpc_logs`: in compliant mode `eth_getFilterLogs` and `eth_getFilterChanges`
  hand out the logs of reth's filter unadjusted, system transactions included,
  while the option promises to filter them out.
- `rpc_latest`: `eth_getBlockTransactionCountByNumber` counts the transactions of
  the latest block, awaits, and subtracts the system transactions of what is then
  the latest block. When the head moves from an empty block to one of system
  transactions only, zero minus one wraps. `eth_getBlockReceipts` resolves its id
  twice as well. The option says that system transactions are filtered out, and
  the receipts are documented as those of "a given block".

Behaviours that the properties state as exceptions, or that the models show in
passing:

- the ingest loop leaves a file as soon as the next hour has begun, and a line
  that hl-node completes there afterwards is never tailed; its block comes from
  the fallback (`LinesTailed`);
- a failed S3 listing, or a newest directory that is still empty, ends the poller
  for good; a relative directory given as block source panics in the search,
  because it is joined to itself (`LatestIsCurrent`);
- a spot listing that cannot be fetched panics the conversion: of an answer, and
  the node goes down; of an announcement, and the network task does;
- hl-node's newest block is announced as the latest even when the fallback has a
  newer one, while `sources/mod.rs:27` speaks of the latest block number available
  from the source (`LatestIsCurrent`);
- `eth_getBlockReceipts` of an unknown block and `eth_getTransactionReceipt` of a
  system transaction panic, while hl-node answers that there is none
  (`Unanswerable`);
- the header of `hl_node_compliance.rs` (lines 7 and 8) says that logs are
  returned as they are and the client adjusts the transaction index, but
  `adjust_log` renumbers the logs itself; `CompliantAnswers` takes the code's
  numbering;
- a block from the engine is not compared with its transactions root, because the
  checks of `validate_block_pre_execution` are commented out (`VerdictsRight`);
- the assembled bloom filter holds the logs of system transactions, too, while
  the validated one does not (`AssembledAsValidated`);
- traces apply neither the state patches nor the CoreWriter deployment, so in
  those blocks they may differ from the execution (`TracesAgree`, `Special`);
- two of the forwarder's methods carry their namespace twice and are served as
  `eth_eth_sendTransaction` and `eth_eth_sendRawTransactionSync`
  (`ForwarderMethods`);
- the help text of `--s3` names the mainnet bucket, but on testnet it is
  testnet's; that of `--local` speaks of a source from a node, but the source is
  a plain directory (`SourceConfig`).

## Theorems

All are for every value of the constants that satisfies the named assumptions of
the modules; no bound of a run is used.

- **BlockHashCacheProofs.** The inductive invariant is `IInv`: the types with the
  limit of the list,
  `KeysTracked`, `ReverseSound`, and `LeftValues` (a hash is only ever mapped to
  its own number). Types alone say nothing about which reverse entry an eviction
  removes, and `ReverseSound` is not inductive without `LeftValues`: evicting `k`
  clears the number that `k` maps to, and one must know whose it is. Lemmas give
  the effect of `RemoveAt`, `LruInsert`, `evict` and `insert` entry by entry.
  From it: `TypeCorrect`, `ReverseLookupSound`, `CacheBounded`,
  `OldestForgottenFirst`, and, with the extra invariant `LeftFound`,
  `BothDirectionsAgree`.
- **PseudoPeerProofs.** `AnnouncementsGapless` proves `AnnouncedInOrder` of the
  composition of the poller and the peer. The invariant `StreamInv` adds the types
  of the stream's parts and that before the start everything is empty. The steps
  of the peer leave the stream alone; each step of the poller moves one number
  along announced, channel, hand. `PeerImplementsFeed` proves the refinement of
  BlockFeed. It needs `AheadInv` as well: nothing in hand or in the channel is
  beyond the tip of the source, or else the announcement, steps later, would not
  be a step of the feed.
- **BlockImportProofs.** `NetworkToldOnce` proves `OutcomesFaithful` and
  `NoWakeUpLost` proves `NoSleepWithWork`, for any number of announcements, any
  chain and any answers. Neither is inductive. To report a future once, one must
  know that it is in one place at a time (`ImportInv`): a message in the channel
  has no futures yet (`ChannelOnce`), a future in the ready queue is there once
  and has not finished (`ReadyOnce`), and one with the engine waits and is not
  queued (`EngineOnce`), so that an answer never changes a finished future. To
  lose no wake-up, a block in the channel has woken the task or the first loop is
  still running (`Awake`). One lemma per kind of step: a block is announced or
  received, a future is dispatched, dropped, reported or answered.
- **HlStorageProofs.** `StorageKeepsTablesTogether` (`TablesAgree`): as long as
  the rows end with the bodies, the first row of a batch can be appended, so a
  write never fails and an unwind cuts both tables at one place. Then
  `StorageImplementsBodyStore` (`StoreRefined`): what is read of a block comes
  from its own row, never from the default, and packing loses nothing
  (`UnpackPack`, `ReadBack`), so a write and a removal are those of the list.
- **HlExecutorProofs.** `ReceiptsRecognised` (`RecognisedByGas`). The property is
  not inductive: one must know that with no gas used nothing but system
  transactions was done, and that with some used none is to come (`GasInv`). That
  follows from the assumption on the blocks of the network (`WellFormed`): system
  transactions come first, and a user transaction uses gas.
- **HlRlpProofs.** `BodyRoundTrip`, `BlockRoundTrip` and `NewBlockRoundTrip`: what
  is decoded is what was encoded, for every combination of missing and present
  options. They rest on `TrailingRoundTrip`, about any struct with trailing
  options none of which is encoded with the code of the empty string.

Only model-checked: the liveness properties (fairness and ENABLED are beyond the
prover), `KeepsMostRecent` (it speaks of a history by CHOOSE and cardinality), the
properties of whole blocks and answers, which are folds over their transactions
(`VerdictsRight`, `WorldsRight`, `AssembledAsValidated`, `CompliantAnswers`,
`TracesAgree`: induction over data is beyond the prover), `CallsAfterReceipts`,
the properties of BlockDelivery and of the hl-node source, the remaining
invariants of the peer, and of the import service `TypeOK` and `ForkChoiceAfterPayload`
(the block at a height is a recursion along the chain).

## Not modelled

- The EVM (revm), reth's pipeline, engine, database, downloaders and filters, the
  upstream node, the spot API and the object store are external: they do what
  this repository's code relies on. In particular, a block is taken to be stored
  without a body only if there is nothing in it; how reth's downloader decides
  that is not in this repository.
- Headers: fee and blob fields, the checks of a header alone and the state root
  are reth's. Withdrawals are read as they were written, and the comparison of
  ommers and withdrawals in `validate_body_against_header` is left out. Errors of
  the database during execution are not modelled.
- Bytes: compression, MessagePack, the layout of RLP below the level of items,
  dates and file names. A file, an object or a line is whole or torn; a line that
  parses is taken to hold a real block.
- Requests to the peer other than headers and bodies, and announcements of bare
  hashes, are ignored by the code and change nothing. `find_latest_block_number`
  of the hl-node source changes no state; BlockDelivery has its answer.
- Block tags other than `latest` (pending, safe, finalized, earliest), which reth
  resolves.
- Subscriptions other than logs, the creation and removal of filters, and
  `eth_getProof` beyond whether it is served.
- Two competing chains in the engine's memory: NodeChain keeps one. Competing
  blocks are the subject of BlockImport.
- The transaction pool, a placeholder that is never used; the tables of the chain
  specification; hardforks; version and start-up wiring; the bincode form of the
  primitives and trait delegation.
