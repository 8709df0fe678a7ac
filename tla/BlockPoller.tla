----------------------------- MODULE BlockPoller -----------------------------
(***************************************************************************)
(* The block poller of src/src/pseudo_peer/service.rs.  A task fetches one *)
(* block after the other from the source and sends it through a bounded    *)
(* channel; the network manager polls the other end, writes the block's    *)
(* hash into the shared cache and announces the block.                     *)
(*                                                                         *)
(* The source is seen through the BlockSource trait only: it has the       *)
(* blocks 1..tip, tip grows, and any call may fail.  HashOf gives the hash *)
(* of a block; the hash stored with a block and the one computed from its  *)
(* header are taken to be the same.                                        *)
(***************************************************************************)
EXTENDS LruBiMap

CONSTANTS MaxHeight,      \* bound on the height of the source
          HashOf,         \* the hash of each block
          ChannelSize,    \* capacity of the block channel (100 in the code)
          SourceMayFail   \* whether find_latest_block_number can return None

Heights == 1..MaxHeight

ASSUME HeightAssumption == MaxHeight \in Nat \ {0}
ASSUME HashAssumption ==
  /\ Heights \subseteq Numbers
  /\ HashOf \in [Heights -> Hashes]
  /\ \A m, n \in Heights : HashOf[m] = HashOf[n] => m = n
ASSUME ChannelAssumption == ChannelSize \in Nat \ {0}
ASSUME SourceAssumption == SourceMayFail \in BOOLEAN

VARIABLES tip,        \* the source holds the blocks 1..tip
          start,      \* a start signal is in the channel start_rx
          poller,     \* where the poller task is
          first,      \* the first block number the poller asked for
          next,       \* next_block_number
          block_rx,   \* the bounded channel
          cache,      \* the shared block hash cache
          announced   \* the numbers of the blocks announced, in order

pollerVars == <<poller, first, next>>

PollerInit ==
  /\ tip \in Heights
  /\ start = FALSE
  /\ poller = "suspended"
  /\ first = 0 /\ next = 0
  /\ block_rx = <<>>
  /\ cache = new
  /\ announced = <<>>

(* The source gets its next block. *)
Grow == /\ tip < MaxHeight
        /\ tip' = tip + 1
        /\ UNCHANGED <<start, pollerVars, block_rx, cache, announced>>

(* The task leaves start_rx.recv(). *)
PollerStart ==
  /\ poller = "suspended"
  /\ start
  /\ start' = FALSE
  /\ poller' = "finding"
  /\ UNCHANGED <<tip, first, next, block_rx, cache, announced>>

(* find_latest_block_number; None ends the task with an error. *)
PollerFindLatest ==
  /\ poller = "finding"
  /\ \/ /\ next' = tip
        /\ first' = tip
        /\ poller' = "collecting"
     \/ /\ SourceMayFail
        /\ poller' = "dead"
        /\ UNCHANGED <<next, first>>
  /\ UNCHANGED <<tip, start, block_rx, cache, announced>>

(***************************************************************************)
(* collect_block(next_block_number) succeeds.  When it fails the task      *)
(* sleeps and asks for the same block again: no state changes.             *)
(***************************************************************************)
PollerCollect ==
  /\ poller = "collecting"
  /\ next <= tip
  /\ poller' = "sending"
  /\ UNCHANGED <<tip, start, first, next, block_rx, cache, announced>>

(* Mutation: a full channel drops the block instead of blocking the task. *)
PollerSendDropping ==
  /\ poller = "sending"
  /\ block_rx' = IF Len(block_rx) < ChannelSize THEN Append(block_rx, next) ELSE block_rx
  /\ next' = next + 1
  /\ poller' = "collecting"
  /\ UNCHANGED <<tip, start, first, cache, announced>>

(* block_tx.send returns once the channel has room. *)
PollerSend ==
  /\ poller = "sending"
  /\ Len(block_rx) < ChannelSize
  /\ block_rx' = Append(block_rx, next)
  /\ next' = next + 1
  /\ poller' = "collecting"
  /\ UNCHANGED <<tip, start, first, cache, announced>>

(* Mutation: the block is announced but its hash is not cached. *)
AnnounceUncached ==
  /\ block_rx # <<>>
  /\ block_rx' = Tail(block_rx)
  /\ announced' = Append(announced, Head(block_rx))
  /\ UNCHANGED <<tip, start, pollerVars, cache>>

(***************************************************************************)
(* BlockPoller::poll: the hash is cached before the block is announced.    *)
(***************************************************************************)
Announce ==
  /\ block_rx # <<>>
  /\ block_rx' = Tail(block_rx)
  /\ cache' = insert(cache, HashOf[Head(block_rx)], Head(block_rx))
  /\ announced' = Append(announced, Head(block_rx))
  /\ UNCHANGED <<tip, start, pollerVars>>

PollerTask == PollerStart \/ PollerFindLatest \/ PollerCollect \/ PollerSend

PollerNext == Grow \/ PollerTask \/ Announce

-----------------------------------------------------------------------------
PollerTypeOK ==
  /\ tip \in Heights
  /\ start \in BOOLEAN
  /\ poller \in {"suspended", "finding", "collecting", "sending", "dead"}
  /\ first \in 0..MaxHeight /\ next \in 0..MaxHeight + 1
  /\ block_rx \in Seq(Heights) /\ Len(block_rx) <= ChannelSize
  /\ cache \in BiMap
  /\ announced \in Seq(Heights)

(* What was announced, is in the channel and is in the hands of the task. *)
Stream ==
  announced \o block_rx \o (IF poller = "sending" THEN <<next>> ELSE <<>>)

(***************************************************************************)
(* The announcements are a gapless run: together with what is still in the *)
(* channel and in the task's hands they are exactly first, first + 1, ...  *)
(* up to the block the poller is at, each once and in order, whatever the  *)
(* failures, the back pressure and the speed of the network manager.       *)
(***************************************************************************)
AnnouncedInOrder ==
  LET expected == IF poller = "sending" THEN next - first + 1 ELSE next - first
  IN  /\ Len(Stream) = expected
      /\ \A i \in 1..expected : Stream[i] = first + i - 1

(***************************************************************************)
(* The node can always ask for what was announced to it: an announced      *)
(* block is one the source has, and its hash resolves to its number, as    *)
(* long as the cache has not filled up and begun to evict.                 *)
(***************************************************************************)
AnnouncedResolvable ==
  \A i \in DOMAIN announced :
    /\ announced[i] <= tip
    /\ \/ cache.left_to_right[HashOf[announced[i]]] = announced[i]
       \/ Len(cache.lru_keys) = Limit
=============================================================================
