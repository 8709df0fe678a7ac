---------------------------- MODULE MCPseudoPeer ----------------------------
EXTENDS PseudoPeer

(* Block n has the hash 10 + n. *)
HashTable == [n \in Heights |-> 10 + n]

Bodies(hashes) == [kind |-> "bodies", hashes |-> hashes]
HeadersFrom(hash, limit, direction) ==
  [kind |-> "headers", hashes |-> <<hash>>, limit |-> limit, direction |-> direction]
HeadersAt(number, limit, direction) ==
  [kind |-> "headers", hashes |-> <<>>, number |-> number, limit |-> limit,
   direction |-> direction]

(* Each kind of request, among them two that ask for too much. *)
SmallRequests ==
  {Bodies(<<14, 11>>), Bodies(<<12, 11>>), HeadersFrom(12, 2, "rising"),
   HeadersFrom(11, 3, "falling"), HeadersAt(3, 2, "falling")}

(* Two hashes in falling order, and one on its own. *)
LookupRequests == {Bodies(<<13, 11>>), HeadersFrom(12, 1, "rising")}
=============================================================================
