--------------------------- MODULE BlockHashCache ---------------------------
(***************************************************************************)
(* The block hash cache that the block poller and the pseudo peer share:   *)
(* an LruBiMap behind a lock (src/src/pseudo_peer/service.rs, line 34), so *)
(* that every insertion is one step.  A hash identifies one block and so   *)
(* one number; two hashes may claim the same number, when two sources      *)
(* disagree on a block.                                                    *)
(***************************************************************************)
EXTENDS LruBiMap, FiniteSets

CONSTANTS NumberOf,   \* the number in the header a hash belongs to
          MaxInserts  \* bound on the length of a history

ASSUME NumberOfAssumption == NumberOf \in [Hashes -> Numbers]
ASSUME MaxInsertsAssumption == MaxInserts \in Nat

VARIABLES cache,    \* the LruBiMap
          inserted  \* history: the hashes in the order of their insertion

vars == <<cache, inserted>>

Init == /\ cache = new
        /\ inserted = <<>>

(* One call of insert under the write lock. *)
Insert(k) ==
  /\ Len(inserted) < MaxInserts
  /\ cache' = insert(cache, k, NumberOf[k])
  /\ inserted' = Append(inserted, k)

Next == \E k \in Hashes : Insert(k)

Spec == Init /\ [][Next]_vars
-----------------------------------------------------------------------------
(* The maps have the shape of the Rust types, the LRU list and the history their bounds. *)
TypeOK == /\ cache \in BiMap
          /\ Len(cache.lru_keys) <= Limit
          /\ inserted \in Seq(Hashes)
          /\ Len(inserted) <= MaxInserts

(***************************************************************************)
(* What get_cached_block_hashes reads (number to hash) is never stale: the *)
(* hash found under a number is itself cached with that number.  It holds  *)
(* whether or not two hashes claim one number.                             *)
(***************************************************************************)
ReverseSound ==
  \A v \in Numbers :
    LET k == cache.right_to_left[v]
    IN  k # None => cache.left_to_right[k] = v

(* The hashes whose number no other hash claims. *)
Uncontested == {k \in Hashes : \A l \in Hashes : NumberOf[l] = NumberOf[k] => l = k}

(***************************************************************************)
(* The two directions agree wherever no other hash claims the number: such *)
(* a hash is cached exactly if it is found under its number, as the        *)
(* partition of a backfill range into cached and uncached numbers expects. *)
(* Forks elsewhere, and their evictions, do not disturb it.                *)
(***************************************************************************)
InverseMaps ==
  \A k \in Uncontested, v \in Numbers :
    cache.left_to_right[k] = v <=> cache.right_to_left[v] = k

(***************************************************************************)
(* The bound on the LRU list bounds the maps: the hash map holds exactly   *)
(* the keys of the list, each of them once.                                *)
(***************************************************************************)
KeysTracked ==
  /\ ToSet(cache.lru_keys) = Cached(cache)
  /\ \A i, j \in 1..Len(cache.lru_keys) :
       cache.lru_keys[i] = cache.lru_keys[j] => i = j

(* The hashes inserted after the last insertion of k. *)
InsertedSince(k) ==
  LET last == CHOOSE i \in 1..Len(inserted) :
                /\ inserted[i] = k
                /\ \A j \in i + 1..Len(inserted) : inserted[j] # k
  IN  {inserted[j] : j \in last + 1..Len(inserted)}

(***************************************************************************)
(* What the cache promises its users, told by the history alone: a hash is *)
(* cached exactly if fewer than Limit other hashes were inserted after its *)
(* last insertion.                                                         *)
(***************************************************************************)
KeepsMostRecent ==
  Cached(cache) = {k \in ToSet(inserted) : Cardinality(InsertedSince(k)) < Limit}

(***************************************************************************)
(* Only a full cache forgets, and an insertion costs at most one entry: a  *)
(* hash that was cached and no longer is was the oldest of Limit.          *)
(***************************************************************************)
ForgetsOnlyTheOldest ==
  [][\A k \in Cached(cache) \ Cached(cache)' :
       /\ Len(cache.lru_keys) = Limit
       /\ k = Head(cache.lru_keys)]_vars
=============================================================================
