------------------------------ MODULE LruBiMap ------------------------------
(***************************************************************************)
(* The bi-directional LRU map of src/src/pseudo_peer/utils.rs as pure      *)
(* operators on a value                                                    *)
(*                                                                         *)
(*   [left_to_right, right_to_left, lru_keys]                              *)
(*                                                                         *)
(* In the node the left keys are block hashes and the right ones block     *)
(* numbers.  The two hash maps are total functions that are None where the *)
(* Rust map has no entry; lru_keys lists the keys from the least to the    *)
(* most recently inserted one.  Lookups are m.left_to_right[k] and         *)
(* m.right_to_left[v]: they do not promote a key.                          *)
(***************************************************************************)
EXTENDS Integers, Sequences, SequencesExt

CONSTANTS Hashes,   \* the left keys
          Numbers,  \* the right keys
          None,     \* "no entry"
          Limit     \* the capacity, BLOCKHASH_CACHE_LIMIT in the node

ASSUME LimitAssumption == Limit \in Nat \ {0}
ASSUME NoneAssumption == None \notin Hashes /\ None \notin Numbers

BiMap == [left_to_right : [Hashes -> Numbers \cup {None}],
          right_to_left : [Numbers -> Hashes \cup {None}],
          lru_keys : Seq(Hashes)]

new == [left_to_right |-> [k \in Hashes |-> None],
        right_to_left |-> [v \in Numbers |-> None],
        lru_keys |-> <<>>]

(***************************************************************************)
(* reth_network::cache::LruCache::insert_and_get_evicted, which is not     *)
(* part of the repository: a key that is already present becomes the most  *)
(* recent one, a new key first pushes out the oldest one when the cache is *)
(* full.                                                                   *)
(***************************************************************************)
IndexOf(keys, k) == CHOOSE i \in 1..Len(keys) : keys[i] = k

Evicted(keys, k) ==
  IF k \notin ToSet(keys) /\ Len(keys) >= Limit THEN Head(keys) ELSE None

LruInsert(keys, k) ==
  IF k \in ToSet(keys)
  THEN Append(RemoveAt(keys, IndexOf(keys, k)), k)
  ELSE Append(IF Len(keys) >= Limit THEN Tail(keys) ELSE keys, k)

(* Mutation: the evicted key's value keeps pointing back to it. *)
evict_left_only(m, k) == [m EXCEPT !.left_to_right[k] = None]

(* Removes a key and whatever its value points back to. *)
evict(m, k) ==
  LET v == m.left_to_right[k]
  IN  IF v = None
      THEN m
      ELSE [m EXCEPT !.left_to_right[k] = None, !.right_to_left[v] = None]

(* Mutation: the full cache drops a key from the LRU list only. *)
insert_without_evicting(m, k, v) ==
  [m EXCEPT !.lru_keys = LruInsert(@, k),
            !.left_to_right[k] = v,
            !.right_to_left[v] = k]

(* Mutation: new gives the LRU list room for one key more. *)
insert_one_over(m, k, v) ==
  LET full == k \notin ToSet(m.lru_keys) /\ Len(m.lru_keys) > Limit
      made_room == IF full THEN evict(m, Head(m.lru_keys)) ELSE m
      keys == IF full THEN Tail(m.lru_keys) ELSE m.lru_keys
  IN  [made_room EXCEPT !.lru_keys = Append(SelectSeq(keys, LAMBDA l : l # k), k),
                        !.left_to_right[k] = v,
                        !.right_to_left[v] = k]

(* Mutation: the reverse entry is not made. *)
insert_forward_only(m, k, v) ==
  LET e == Evicted(m.lru_keys, k)
      made_room == IF e = None THEN m ELSE evict(m, e)
  IN  [made_room EXCEPT !.lru_keys = LruInsert(m.lru_keys, k), !.left_to_right[k] = v]

(* Mutation: the hash that held the number before is forgotten at once. *)
insert_replacing(m, k, v) ==
  LET old == m.right_to_left[v]
      e == Evicted(m.lru_keys, k)
      cleared == IF old = None THEN m ELSE evict(m, old)
      made_room == IF e = None THEN cleared ELSE evict(cleared, e)
  IN  [made_room EXCEPT !.lru_keys = LruInsert(m.lru_keys, k),
                        !.left_to_right[k] = v,
                        !.right_to_left[v] = k]

insert(m, k, v) ==
  LET e == Evicted(m.lru_keys, k)
      made_room == IF e = None THEN m ELSE evict(m, e)
  IN  [left_to_right |-> [made_room.left_to_right EXCEPT ![k] = v],
       right_to_left |-> [made_room.right_to_left EXCEPT ![v] = k],
       lru_keys |-> LruInsert(m.lru_keys, k)]

Cached(m) == {k \in Hashes : m.left_to_right[k] # None}
=============================================================================
