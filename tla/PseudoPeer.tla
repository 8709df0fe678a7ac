----------------------------- MODULE PseudoPeer -----------------------------
(***************************************************************************)
(* The pseudo peer (src/src/pseudo_peer/mod.rs and service.rs): the event  *)
(* loop that starts the poller on the first session and answers the header *)
(* and body requests of the node, next to the poller task, with which it   *)
(* shares the block hash cache.                                            *)
(*                                                                         *)
(* A step of the service ends at an await or at a lock of the cache, so    *)
(* that the poller's announcements interleave with a request being served. *)
(***************************************************************************)
EXTENDS BlockPoller

CONSTANTS ChunkSize,     \* recommended_chunk_size of the source
          WarmSize,      \* warm_cache_size
          RetryLimit,    \* BACKFILL_RETRY_LIMIT
          RpcThreshold,  \* TRY_OFFICIAL_RPC_THRESHOLD
          Requests,      \* the requests the node may send
          MaxRequests,   \* bound on their number
          EthChannel,    \* capacity of the request channel (32 in the code)
          U64            \* the number of values of a block number

ASSUME SizesAssumption ==
  /\ ChunkSize \in Nat \ {0} /\ WarmSize \in Nat
  /\ RetryLimit \in Nat /\ RpcThreshold \in Nat
  /\ MaxRequests \in Nat /\ EthChannel \in Nat \ {0} /\ U64 \in Nat

VARIABLES
  first_session,  \* no session has been seen yet (first in start_pseudo_peer)
  eth_rx,         \* the requests waiting
  pc,             \* where the service is
  request,        \* the request being served
  numbers,        \* the numbers its hashes have been resolved to
  known_latest,   \* known_latest_block_number
  latest,         \* the latest block number sampled for this hash
  pass,           \* passes of the backfill made
  iteration,      \* chunks of this pass tried
  range,          \* the range of numbers being tried
  wanted,         \* the uncached numbers of the range, being collected
  hit,            \* the number found before the cache is warmed around it
  warm_around,    \* if_hit_then_warm_around
  clean,          \* history: no collection has failed in this pass
  clean_passes,   \* history: passes completed without such a failure
  responses       \* history: the answers sent, in order

resolver == <<known_latest, latest, pass, iteration, range, wanted, hit, warm_around,
              clean, clean_passes>>
peer == <<first_session, eth_rx, pc, request, numbers, resolver, responses>>
pollerState == <<tip, start, pollerVars, block_rx, cache, announced>>
vars == <<peer, pollerState>>

(* The panics that end the task: unwrap() of a None, and "Hash not found". *)
Panicked == {"no latest", "hash not found"}

NoRequest == [kind |-> "none", hashes |-> <<>>]

Init ==
  /\ PollerInit
  /\ first_session = TRUE
  /\ eth_rx = <<>>
  /\ pc = "idle"
  /\ request = NoRequest
  /\ numbers = <<>>
  /\ known_latest = 0 /\ latest = 0
  /\ pass = 0 /\ iteration = 0
  /\ range = [start |-> 1, end |-> 0]
  /\ wanted = {}
  /\ hit = 0
  /\ warm_around = {}
  /\ clean = TRUE /\ clean_passes = 0
  /\ responses = <<>>

-----------------------------------------------------------------------------
(* The event loop: one branch of the select at a time. *)

(* The first ActivePeerSession starts the poller; later ones change nothing. *)
ActivePeerSession ==
  /\ pc = "idle"
  /\ first_session
  /\ first_session' = FALSE
  /\ start' = TRUE
  /\ UNCHANGED <<eth_rx, pc, request, numbers, resolver, responses,
                 tip, pollerVars, block_rx, cache, announced>>

(* The requests sent so far. *)
RequestsSent == Len(responses) + Len(eth_rx) + (IF pc = "idle" THEN 0 ELSE 1)

(* The node sends a request; the network drops one that finds the channel full. *)
SendRequest(r) ==
  /\ pc \notin Panicked
  /\ RequestsSent < MaxRequests
  /\ Len(eth_rx) < EthChannel
  /\ eth_rx' = Append(eth_rx, r)
  /\ UNCHANGED <<first_session, pc, request, numbers, resolver, responses, pollerState>>

(* eth_rx.recv(): process_eth_request begins. *)
ReceiveRequest ==
  /\ pc = "idle"
  /\ eth_rx # <<>>
  /\ request' = Head(eth_rx)
  /\ eth_rx' = Tail(eth_rx)
  /\ numbers' = <<>>
  /\ pc' = IF Head(eth_rx).hashes = <<>> THEN "serve" ELSE "lookup"
  /\ UNCHANGED <<first_session, resolver, responses, pollerState>>

(* The hash being resolved. *)
target == request.hashes[Len(numbers) + 1]

(* hash_to_block_number returns n: on to the next hash, or to the answer. *)
Resolved(n) ==
  /\ numbers' = Append(numbers, n)
  /\ pc' = IF Len(numbers) + 1 = Len(request.hashes) THEN "serve" ELSE "lookup"

-----------------------------------------------------------------------------
(* hash_to_block_number. *)

(* The range that is warmed around a block. *)
WarmRange(n) ==
  [start |-> IF n - WarmSize > 1 THEN n - WarmSize ELSE 1,
   end |-> IF n + WarmSize < known_latest THEN n + WarmSize ELSE known_latest]

(* warm_cache_around_blocks up to the lookup of the range in the cache. *)
WarmAround(n) ==
  /\ hit' = n
  /\ range' = WarmRange(n)
  /\ warm_around' = warm_around \cup {WarmRange(n).start, WarmRange(n).end}
  /\ pc' = "warm"

(* try_get_cached_block_number. *)
TryGetCached ==
  /\ pc = "lookup"
  /\ LET n == cache.left_to_right[target]
     IN  \/ /\ n = None
            /\ pc' = "latest"
            /\ UNCHANGED <<numbers, hit, range, warm_around>>
         \/ /\ n # None /\ n \notin warm_around
            /\ Resolved(n)
            /\ UNCHANGED <<hit, range, warm_around>>
         \/ /\ n # None /\ n \in warm_around
            /\ WarmAround(n)
            /\ UNCHANGED numbers
  /\ UNCHANGED <<first_session, eth_rx, request, known_latest, latest, pass,
                 iteration, wanted, clean, clean_passes, responses, pollerState>>

(* Mutation: the chunks leave out the number between two of them. *)
ChunkRangeShort(end) ==
  [start |-> IF end - ChunkSize + 2 > 1 THEN end - ChunkSize + 2 ELSE 1, end |-> end]

(* The range of the chunk that ends at a number. *)
ChunkRange(end) ==
  [start |-> IF end - ChunkSize > 1 THEN end - ChunkSize ELSE 1, end |-> end]

(* find_latest_block_number().unwrap(), and the first backfill begins. *)
FindLatest ==
  /\ pc = "latest"
  /\ \/ /\ latest' = tip /\ known_latest' = tip
        /\ pass' = 1 /\ iteration' = 0
        /\ clean' = TRUE /\ clean_passes' = 0
        /\ range' = ChunkRange(tip)
        /\ pc' = "backfill"
     \/ /\ SourceMayFail
        /\ pc' = "no latest"
        /\ UNCHANGED <<latest, known_latest, pass, iteration, clean, clean_passes, range>>
  /\ UNCHANGED <<first_session, eth_rx, request, numbers, wanted, hit,
                 warm_around, responses, pollerState>>

(* Mutation: one pass too many. *)
NextChunkOnceMore(clean_so_far) ==
  IF range.end - ChunkSize >= 1
  THEN /\ range' = ChunkRange(range.end - ChunkSize)
       /\ iteration' = iteration + 1
       /\ clean' = clean_so_far
       /\ pc' = "backfill"
       /\ UNCHANGED <<pass, clean_passes>>
  ELSE /\ clean_passes' = clean_passes + (IF clean_so_far THEN 1 ELSE 0)
       /\ IF pass <= RetryLimit
          THEN /\ range' = ChunkRange(latest)
               /\ iteration' = 0
               /\ clean' = TRUE
               /\ pass' = pass + 1
               /\ pc' = "backfill"
          ELSE /\ pc' = "hash not found"
               /\ clean' = clean_so_far
               /\ UNCHANGED <<range, iteration, pass>>

(* Mutation: the passes are not counted. *)
NextChunkForever(clean_so_far) ==
  /\ range' = ChunkRange(IF range.end - ChunkSize >= 1 THEN range.end - ChunkSize ELSE latest)
  /\ iteration' = IF range.end - ChunkSize >= 1 THEN iteration + 1 ELSE 0
  /\ clean' = clean_so_far
  /\ pc' = "backfill"
  /\ UNCHANGED <<pass, clean_passes>>

(***************************************************************************)
(* The chunk did not contain the hash: the next one of this pass, or the   *)
(* first one of the next pass, or the panic after the last pass.           *)
(***************************************************************************)
NextChunk(clean_so_far) ==
  IF range.end - ChunkSize >= 1
  THEN /\ range' = ChunkRange(range.end - ChunkSize)
       /\ iteration' = iteration + 1
       /\ clean' = clean_so_far
       /\ pc' = "backfill"
       /\ UNCHANGED <<pass, clean_passes>>
  ELSE /\ clean_passes' = clean_passes + (IF clean_so_far THEN 1 ELSE 0)
       /\ IF pass < RetryLimit
          THEN /\ range' = ChunkRange(latest)
               /\ iteration' = 0
               /\ clean' = TRUE
               /\ pass' = pass + 1
               /\ pc' = "backfill"
          ELSE /\ pc' = "hash not found"
               /\ clean' = clean_so_far
               /\ UNCHANGED <<range, iteration, pass>>

(* After a chunk without the hash: the official RPC, from some chunk on. *)
ChunkWithout(clean_so_far) ==
  IF iteration >= RpcThreshold
  THEN /\ pc' = "rpc"
       /\ clean' = clean_so_far
       /\ UNCHANGED <<range, iteration, pass, clean_passes>>
  ELSE NextChunk(clean_so_far)

(***************************************************************************)
(* get_cached_block_hashes: the partition of the range, read under one     *)
(* lock, into the hashes known and the numbers that must be collected.     *)
(***************************************************************************)
CachedHashes == {cache.right_to_left[n] : n \in range.start..range.end} \ {None}

Uncached == {n \in range.start..range.end : cache.right_to_left[n] = None}

(* try_block_range_for_hash for a chunk of the backfill, up to its await. *)
BackfillLookup ==
  /\ pc = "backfill"
  /\ \/ /\ target \in CachedHashes
        /\ Resolved(CHOOSE n \in range.start..range.end : cache.right_to_left[n] = target)
        /\ UNCHANGED <<wanted, pass, iteration, range, clean, clean_passes>>
     \/ /\ target \notin CachedHashes /\ Uncached = {}
        /\ ChunkWithout(clean)
        /\ UNCHANGED <<wanted, numbers>>
     \/ /\ target \notin CachedHashes /\ Uncached # {}
        /\ wanted' = Uncached
        /\ pc' = "collect"
        /\ UNCHANGED <<numbers, pass, iteration, range, clean, clean_passes>>
  /\ UNCHANGED <<first_session, eth_rx, request, known_latest, latest, hit,
                 warm_around, responses, pollerState>>

(* cache_blocks: the collected blocks are inserted in any order. *)
CacheBlocks(order) ==
  cache' = FoldLeft(LAMBDA m, n : insert(m, HashOf[n], n), cache, order)

(* The orders in which a hash map of the blocks may be iterated. *)
Orders(S) == SetToSeqs(S)

(* collect_blocks of the chunk succeeds: all of it is cached. *)
BackfillCollected ==
  /\ pc = "collect"
  /\ wanted \subseteq 1..tip
  /\ \E order \in Orders(wanted) : CacheBlocks(order)
  /\ \/ /\ \E n \in wanted : HashOf[n] = target /\ Resolved(n)
        /\ UNCHANGED <<pass, iteration, range, clean, clean_passes>>
     \/ /\ \A n \in wanted : HashOf[n] # target
        /\ ChunkWithout(clean)
        /\ UNCHANGED numbers
  /\ wanted' = {}
  /\ UNCHANGED <<first_session, eth_rx, request, known_latest, latest, hit,
                 warm_around, responses, tip, start, pollerVars, block_rx, announced>>

(* One block of the chunk fails, and so the whole chunk; the error is ignored. *)
BackfillFailed ==
  /\ pc = "collect"
  /\ ChunkWithout(FALSE)
  /\ wanted' = {}
  /\ UNCHANGED <<first_session, eth_rx, request, numbers, known_latest, latest,
                 hit, warm_around, responses, pollerState>>

(***************************************************************************)
(* fallback_to_official_rpc: the answer, for a hash it knows, is cached    *)
(* and the cache is warmed around it; an error goes on with the next chunk.*)
(***************************************************************************)
OfficialRpc ==
  /\ pc = "rpc"
  /\ \/ /\ \E n \in Heights :
             /\ HashOf[n] = target
             /\ cache' = insert(cache, target, n)
             /\ WarmAround(n)
        /\ UNCHANGED <<iteration, pass, clean, clean_passes>>
     \/ /\ NextChunk(clean)
        /\ UNCHANGED <<cache, hit, warm_around>>
  /\ UNCHANGED <<first_session, eth_rx, request, numbers, known_latest, latest,
                 wanted, responses, tip, start, pollerVars, block_rx, announced>>

(* try_block_range_for_hash with IMPOSSIBLE_HASH, up to its await. *)
WarmLookup ==
  /\ pc = "warm"
  /\ \/ /\ Uncached = {}
        /\ Resolved(hit)
        /\ UNCHANGED wanted
     \/ /\ Uncached # {}
        /\ wanted' = Uncached
        /\ pc' = "warm collect"
        /\ UNCHANGED numbers
  /\ UNCHANGED <<first_session, eth_rx, request, known_latest, latest, pass,
                 iteration, range, hit, warm_around, clean,
                 clean_passes, responses, pollerState>>

(* The range is collected and cached, or not; the hit is returned anyway. *)
WarmCollect ==
  /\ pc = "warm collect"
  /\ \/ /\ wanted \subseteq 1..tip
        /\ \E order \in Orders(wanted) : CacheBlocks(order)
     \/ UNCHANGED cache
  /\ wanted' = {}
  /\ Resolved(hit)
  /\ UNCHANGED <<first_session, eth_rx, request, known_latest, latest, pass,
                 iteration, range, hit, warm_around, clean,
                 clean_passes, responses,
                 tip, start, pollerVars, block_rx, announced>>

-----------------------------------------------------------------------------
(* The answer. *)

(* Mutation: a falling range starts below the requested block. *)
HeaderNumbersBelow(number, limit, direction) ==
  IF direction = "rising"
  THEN [i \in 1..limit |-> number + i - 1]
  ELSE [i \in 1..limit |-> number - i]

(***************************************************************************)
(* The numbers of a header request: number..number + limit rising, or      *)
(* (number + 1 - limit..number + 1).rev() falling, whose lower bound wraps *)
(* around when there are fewer blocks, which leaves the range empty.       *)
(***************************************************************************)
HeaderNumbers(number, limit, direction) ==
  IF direction = "rising"
  THEN [i \in 1..limit |-> number + i - 1]
  ELSE LET low == (number + 1 - limit) % U64
       IN  [i \in 1..(IF low <= number THEN number + 1 - low ELSE 0) |-> number + 1 - i]

(* The numbers whose blocks answer the request, in order. *)
WantedNumbers ==
  IF request.kind = "bodies"
  THEN numbers
  ELSE HeaderNumbers(IF request.hashes = <<>> THEN request.number ELSE numbers[1],
                     request.limit, request.direction)

(* collect_blocks succeeds for all of them, and the answer is sent. *)
Respond ==
  /\ pc = "serve"
  /\ ToSet(WantedNumbers) \subseteq 1..tip
  /\ responses' = Append(responses, [request |-> request, blocks |-> WantedNumbers])
  /\ pc' = "idle"
  /\ request' = NoRequest
  /\ numbers' = <<>>
  /\ UNCHANGED <<first_session, eth_rx, resolver, pollerState>>

(* One of them fails: the response is dropped and the error logged. *)
Drop ==
  /\ pc = "serve"
  /\ WantedNumbers # <<>>
  /\ responses' = Append(responses, [request |-> request, blocks |-> None])
  /\ pc' = "idle"
  /\ request' = NoRequest
  /\ numbers' = <<>>
  /\ UNCHANGED <<first_session, eth_rx, resolver, pollerState>>

Serve == Respond \/ Drop

Resolve == \/ TryGetCached \/ FindLatest \/ BackfillLookup \/ BackfillCollected
           \/ BackfillFailed \/ OfficialRpc \/ WarmLookup \/ WarmCollect

Service == ReceiveRequest \/ Resolve \/ Serve

Next ==
  \/ ActivePeerSession
  \/ \E r \in Requests : SendRequest(r)
  \/ Service
  \/ PollerNext /\ UNCHANGED peer

(***************************************************************************)
(* The runtime runs the tasks that can make a step, the network manager    *)
(* among them.  A block the source holds is collected in the end: a failed *)
(* attempt is repeated for ever.  Nothing makes the source grow, the node  *)
(* send a request or a session start.                                      *)
(***************************************************************************)
Fairness == /\ WF_vars(Service)
            /\ WF_vars(PollerTask /\ UNCHANGED peer)
            /\ WF_vars(Announce /\ UNCHANGED peer)

Spec == Init /\ [][Next]_vars /\ Fairness

-----------------------------------------------------------------------------
(* The variables have their types. *)
TypeOK ==
  /\ PollerTypeOK
  /\ first_session \in BOOLEAN
  /\ eth_rx \in Seq(Requests) /\ Len(eth_rx) <= EthChannel
  /\ pc \in {"idle", "lookup", "latest", "backfill", "collect", "rpc", "warm",
             "warm collect", "serve"} \cup Panicked
  /\ request \in Requests \cup {NoRequest}
  /\ numbers \in Seq(Heights)
  /\ known_latest \in 0..MaxHeight /\ latest \in 0..MaxHeight /\ hit \in 0..MaxHeight
  /\ pass \in 0..RetryLimit /\ iteration \in 0..MaxHeight
  /\ range \in [start : 1..MaxHeight, end : 0..MaxHeight]
  /\ wanted \subseteq Heights /\ warm_around \subseteq Heights
  /\ clean \in BOOLEAN /\ clean_passes \in 0..pass
  /\ Len(responses) <= MaxRequests

(* The blocks that answer a request. *)
AnswerOf(r) ==
  LET blockOf(h) == CHOOSE n \in Heights : HashOf[n] = h
      from == IF r.hashes = <<>> THEN r.number ELSE blockOf(r.hashes[1])
  IN  IF r.kind = "bodies" THEN [i \in DOMAIN r.hashes |-> blockOf(r.hashes[i])]
      ELSE IF r.direction = "rising" THEN [i \in 1..r.limit |-> from + (i - 1)]
      ELSE IF r.limit > from + 1 THEN <<>>
      ELSE [i \in 1..r.limit |-> from - (i - 1)]

(***************************************************************************)
(* An answer is the one the request asked for.  Bodies: the block of every *)
(* requested hash, in the order of the hashes.  Headers: exactly limit     *)
(* consecutive blocks from the requested one on, upwards or downwards; a   *)
(* falling request for more blocks than there are numbers from 0 on gets   *)
(* an empty answer.  Nothing in between: a request is answered in full or  *)
(* dropped, although its hashes are resolved one by one from a cache that  *)
(* the poller, the backfill and the official RPC change meanwhile.         *)
(***************************************************************************)
ResponsesCorrect ==
  \A i \in DOMAIN responses :
    responses[i].blocks # None => responses[i].blocks = AnswerOf(responses[i].request)

(***************************************************************************)
(* A backfill pass in which no collection fails finds every block up to    *)
(* the latest number sampled: such a pass never ends, and the part of      *)
(* 1..latest above its current chunk never holds the target.  So the panic *)
(* "Hash not found" is only reached for a block above latest or after a    *)
(* failure in every pass.  The chunks must leave no gap, and entries that  *)
(* the poller adds or the cache evicts meanwhile must hide no block.       *)
(***************************************************************************)
CleanPassFinds ==
  \A n \in 1..latest :
    pc \in {"backfill", "collect", "rpc", "hash not found"} /\ HashOf[n] = target =>
      /\ clean_passes = 0
      /\ clean /\ pc \in {"backfill", "collect"} => n <= range.end
      /\ clean /\ pc = "rpc" => n < range.start

(***************************************************************************)
(* Every request is settled: what the service has begun ends with an       *)
(* answer, a drop or the panic, whatever the source does; the scan of      *)
(* hash_to_block_number is not endless.                                    *)
(***************************************************************************)
RequestsSettled ==
  pc \notin {"idle"} \cup Panicked ~> pc \in {"idle"} \cup Panicked

(***************************************************************************)
(* The poller catches up: once it has found its first block, every block   *)
(* from there on that the source gets is announced in the end.             *)
(***************************************************************************)
EveryBlockAnnounced ==
  \A n \in Heights :
    poller \in {"collecting", "sending"} /\ first <= n /\ n <= tip
      ~> n \in ToSet(announced)

Feed == INSTANCE BlockFeed WITH fed <- announced

(***************************************************************************)
(* The peer implements the block feed: each announcement is the block      *)
(* after the one before and a block the source has, and no step of the     *)
(* service, the task or the channel announces or retracts one              *)
(* (BlockPoller::task, BlockPoller::poll).                                 *)
(***************************************************************************)
FeedRefined == Feed!Spec
=============================================================================
