-------------------------- MODULE BlockImportProofs --------------------------
(***************************************************************************)
(* The import service tells the network exactly what the engine answered,  *)
(* and does not sleep on work, for every number of blocks and every chain. *)
(* Both rest on a future being in one place at a time: a message waits in  *)
(* the channel before it has futures, a future is queued once while it can *)
(* run, is with the engine while it waits, and is nowhere once finished.   *)
(***************************************************************************)
EXTENDS BlockImport, SequenceTheorems, FiniteSetTheorems, TLAPS

FutureStates == {"absent", "fresh", "waiting", "inconclusive"} \cup Conclusive
Outcome == [fut : Futures, result : {"Ok", "Err"}]
EngineMessage(B) == [fut : Futures, block : B]
BlocksOf(s) == {s[i].block : i \in DOMAIN s}

(* The types the argument needs; the blocks sent to the engine are free. *)
QueueTypes ==
  /\ sent \in Seq(Blocks) /\ Len(sent) <= MaxMsgs
  /\ from_network \in Seq(Msgs)
  /\ fut \in [Futures -> FutureStates]
  /\ finished \subseteq Futures
  /\ ready \in Seq(Futures)
  /\ woken \in BOOLEAN
  /\ to_network \in Seq(Outcome) /\ reported \in Seq(Outcome)
  /\ to_engine \in Seq(EngineMessage(BlocksOf(to_engine)))

(* The messages in the channel have no futures yet, nor those to come. *)
ChannelOnce ==
  /\ \A k \in DOMAIN from_network :
       /\ from_network[k] <= Len(sent)
       /\ \A kind \in Kinds : fut[<<from_network[k], kind>>] = "absent"
  /\ \A k, l \in DOMAIN from_network : from_network[k] = from_network[l] => k = l
  /\ \A f \in Futures : f[1] > Len(sent) => fut[f] = "absent"

(* A future in the ready queue is there once, can run and has not finished. *)
ReadyOnce ==
  /\ \A k \in DOMAIN ready :
       ready[k] \notin finished /\ fut[ready[k]] \notin {"absent", "waiting"}
  /\ \A k, l \in DOMAIN ready : ready[k] = ready[l] => k = l
  /\ phase = "head" => ready # <<>> /\ fut[Head(ready)] = "fresh"

(* A future with the engine is there once and waits; a finished one does not. *)
EngineOnce ==
  /\ \A k \in DOMAIN to_engine : fut[to_engine[k].fut] = "waiting"
  /\ \A k, l \in DOMAIN to_engine : to_engine[k].fut = to_engine[l].fut => k = l
  /\ \A f \in finished : fut[f] \notin {"absent", "fresh", "waiting"}

(* A block in the channel is about to be received, or has woken the task. *)
Awake ==
  /\ from_network # <<>> => woken \/ phase = "receiving"
  /\ phase = "idle" /\ ~woken /\ AllConclusive => ready = <<>>

(* The outcomes of the futures that have finished. *)
Due == {o \in [fut : finished, result : {"Ok", "Err"}] :
          \/ fut[o.fut] = "valid" /\ o.result = "Ok"
          \/ fut[o.fut] = "invalid" /\ o.result = "Err"}

DueTold ==
  /\ IsFiniteSet(Due)
  /\ phase # "ended" => /\ ToSet(reported \o to_network) = Due
                        /\ Len(reported \o to_network) = Cardinality(Due)

ImportInv == QueueTypes /\ ChannelOnce /\ ReadyOnce /\ EngineOnce /\ Awake /\ DueTold

-----------------------------------------------------------------------------
(* What the queues of the service do: facts about sequences. *)

(* A sequence is indexed from 1 to its length (any channel or queue). *)
LEMMA Indices ==
  ASSUME NEW S, NEW s \in Seq(S)
  PROVE  /\ Len(s) \in Nat
         /\ DOMAIN s = 1..Len(s)
         /\ \A i \in DOMAIN s : s[i] \in S
BY LenProperties

(* Taking the first element moves the others up (recv, ready queue). *)
LEMMA TailOf ==
  ASSUME NEW S, NEW s \in Seq(S), s # <<>>
  PROVE  /\ Head(s) = s[1] /\ s[1] \in S /\ 1 \in DOMAIN s
         /\ Tail(s) \in Seq(S)
         /\ Len(Tail(s)) = Len(s) - 1
         /\ \A i \in DOMAIN Tail(s) :
              i \in Nat /\ i >= 1 /\ i + 1 \in DOMAIN s /\ Tail(s)[i] = s[i + 1]
<1>1. Len(s) \in Nat \ {0} /\ DOMAIN s = 1..Len(s)
  BY EmptySeq, LenProperties
<1>2. /\ Head(s) \in S /\ Tail(s) \in Seq(S) /\ Len(Tail(s)) = Len(s) - 1
      /\ \A i \in 1..Len(Tail(s)) : Tail(s)[i] = s[i + 1]
  BY HeadTailProperties
<1>3. DOMAIN Tail(s) = 1..Len(s) - 1
  BY <1>2, LenProperties
<1>4. Head(s) = s[1]
  OBVIOUS
<1> QED  BY <1>1, <1>2, <1>3, <1>4

(* Adding an element leaves the others where they are (send, push). *)
LEMMA AppendOf ==
  ASSUME NEW S, NEW s \in Seq(S), NEW x \in S
  PROVE  /\ Append(s, x) \in Seq(S)
         /\ Append(s, x) # <<>>
         /\ Len(Append(s, x)) = Len(s) + 1
         /\ DOMAIN Append(s, x) = DOMAIN s \cup {Len(s) + 1}
         /\ \A i \in DOMAIN s : i # Len(s) + 1 /\ Append(s, x)[i] = s[i]
         /\ Append(s, x)[Len(s) + 1] = x
         /\ ToSet(Append(s, x)) = ToSet(s) \cup {x}
<1>1. Len(s) \in Nat /\ DOMAIN s = 1..Len(s)
  BY LenProperties
<1>2. /\ Append(s, x) \in Seq(S) /\ Append(s, x) # <<>> /\ Len(Append(s, x)) = Len(s) + 1
      /\ \A i \in 1..Len(s) : Append(s, x)[i] = s[i]
      /\ Append(s, x)[Len(s) + 1] = x
  BY AppendProperties
<1>3. DOMAIN Append(s, x) = 1..Len(s) + 1
  BY <1>2, LenProperties
<1>4. DOMAIN Append(s, x) = DOMAIN s \cup {Len(s) + 1}
  BY <1>1, <1>3
<1>5. ToSet(Append(s, x)) = ToSet(s) \cup {x}
  BY <1>1, <1>2, <1>4 DEF ToSet
<1> QED  BY <1>1, <1>2, <1>4, <1>5

(* The two futures of a message go behind the queue (on_new_block). *)
LEMMA PairOf ==
  ASSUME NEW S, NEW s \in Seq(S), NEW x \in S, NEW y \in S
  PROVE  /\ s \o <<x, y>> \in Seq(S)
         /\ DOMAIN (s \o <<x, y>>) = DOMAIN s \cup {Len(s) + 1, Len(s) + 2}
         /\ \A i \in DOMAIN s : /\ i # Len(s) + 1 /\ i # Len(s) + 2
                                /\ (s \o <<x, y>>)[i] = s[i]
         /\ (s \o <<x, y>>)[Len(s) + 1] = x
         /\ (s \o <<x, y>>)[Len(s) + 2] = y
         /\ Len(s) \in Nat
         /\ ToSet(<<x, y>>) = {x, y}
<1>1. Len(s) \in Nat /\ DOMAIN s = 1..Len(s)
  BY LenProperties
<1>2. <<x, y>> \in Seq(S) /\ Len(<<x, y>>) = 2
  OBVIOUS
<1>3. /\ s \o <<x, y>> \in Seq(S)
      /\ Len(s \o <<x, y>>) = Len(s) + 2
      /\ \A i \in 1..Len(s) + 2 : (s \o <<x, y>>)[i] =
           IF i <= Len(s) THEN s[i] ELSE <<x, y>>[i - Len(s)]
  BY <1>2, ConcatProperties
<1>4. DOMAIN (s \o <<x, y>>) = 1..Len(s) + 2
  BY <1>3, LenProperties
<1>5. (s \o <<x, y>>)[Len(s) + 1] = x /\ (s \o <<x, y>>)[Len(s) + 2] = y
  <2>1. (s \o <<x, y>>)[Len(s) + 1] = <<x, y>>[1]
    BY <1>1, <1>3
  <2>2. (s \o <<x, y>>)[Len(s) + 2] = <<x, y>>[2]
    BY <1>1, <1>3
  <2> QED  BY <2>1, <2>2
<1>6. ToSet(<<x, y>>) = {x, y}
  <2>1. DOMAIN <<x, y>> = {1, 2}
    BY <1>2, LenProperties
  <2> QED  BY <2>1 DEF ToSet
<1>7. DOMAIN (s \o <<x, y>>) = DOMAIN s \cup {Len(s) + 1, Len(s) + 2}
  BY <1>1, <1>4
<1>8. \A i \in DOMAIN s : /\ i # Len(s) + 1 /\ i # Len(s) + 2
                          /\ (s \o <<x, y>>)[i] = s[i]
  BY <1>1, <1>3
<1> QED  BY <1>1, <1>3, <1>5, <1>6, <1>7, <1>8

(***************************************************************************)
(* The outcomes sent and those received are one sequence: receiving one    *)
(* does not change it, sending one adds it at the end (to_network).        *)
(***************************************************************************)
LEMMA OutcomeStream ==
  ASSUME NEW S, NEW r \in Seq(S), NEW t \in Seq(S)
  PROVE  /\ t # <<>> => Append(r, Head(t)) \o Tail(t) = r \o t
         /\ \A x \in S : r \o Append(t, x) = Append(r \o t, x)
         /\ r \o t \in Seq(S)
<1>1. r \o t \in Seq(S)
  BY ConcatProperties
<1>2. ASSUME t # <<>>  PROVE  Append(r, Head(t)) \o Tail(t) = r \o t
  BY <1>2
<1>3. ASSUME NEW x \in S  PROVE  r \o Append(t, x) = Append(r \o t, x)
  OBVIOUS
<1> QED  BY <1>1, <1>2, <1>3

(* A sequence over a set is one over a larger set (to_engine). *)
LEMMA LargerSet ==
  ASSUME NEW S, NEW T, S \subseteq T, NEW s \in Seq(S)
  PROVE  s \in Seq(T)
<1>1. Len(s) \in Nat /\ s \in [1..Len(s) -> S]
  BY LenProperties
<1>2. s \in [1..Len(s) -> T]
  BY <1>1
<1> QED  BY <1>1, <1>2

(* A message to the engine carries one of the blocks in its channel. *)
LEMMA FreeBlocks ==
  ASSUME NEW B, NEW s \in Seq(EngineMessage(B))
  PROVE  s \in Seq(EngineMessage(BlocksOf(s)))
<1>1. Len(s) \in Nat /\ s \in [1..Len(s) -> EngineMessage(B)]
  BY LenProperties
<1>2. \A i \in 1..Len(s) : s[i] \in EngineMessage(BlocksOf(s))
  BY <1>1 DEF EngineMessage, BlocksOf
<1>3. s \in [1..Len(s) -> EngineMessage(BlocksOf(s))]
  BY <1>1, <1>2
<1> QED  BY <1>1, <1>3

-----------------------------------------------------------------------------
(* The operations of the service keep the inductive invariant. *)

(***************************************************************************)
(* What the network is owed does not change while the finished futures and *)
(* their answers stay as they are (any step that finishes no future).      *)
(***************************************************************************)
LEMMA DueKept ==
  ASSUME DueTold, finished' = finished, \A f \in finished : fut'[f] = fut[f],
         reported' \o to_network' = reported \o to_network,
         phase' # "ended" => phase # "ended"
  PROVE  DueTold'
<1>1. Due' = Due
  BY DEF Due
<1> QED  BY <1>1 DEF DueTold

(* The service starts with empty queues (ImportService::new). *)
LEMMA ImportInvInitially == Init => ImportInv
<1> SUFFICES ASSUME Init PROVE ImportInv
  OBVIOUS
<1>1. <<>> \in Seq(Blocks) /\ <<>> \in Seq(Msgs) /\ <<>> \in Seq(Futures)
      /\ <<>> \in Seq(Outcome) /\ <<>> \in Seq(EngineMessage(BlocksOf(<<>>))) /\ Len(<<>>) = 0
      /\ DOMAIN <<>> = {}
  BY EmptySeq
<1>2. QueueTypes
  <2>1. Len(sent) <= MaxMsgs
    <3>1. sent = <<>>
      BY DEF Init
    <3> QED  BY <1>1, <3>1, MaxMsgsAssumption
  <2>2. fut \in [Futures -> FutureStates] /\ finished \subseteq Futures /\ woken \in BOOLEAN
    BY DEF Init, FutureStates
  <2> QED  BY <1>1, <2>1, <2>2 DEF Init, QueueTypes
<1>3. ChannelOnce /\ ReadyOnce /\ EngineOnce /\ Awake
  BY <1>1 DEF Init, ChannelOnce, ReadyOnce, EngineOnce, Awake
<1>4. DueTold
  <2>1. Due = {}
    BY DEF Init, Due
  <2>2. reported \o to_network = <<>>
    BY <1>1, ConcatEmptySeq DEF Init
  <2>3. ToSet(<<>>) = {}
    BY <1>1 DEF ToSet
  <2> QED  BY <1>1, <2>1, <2>2, <2>3, FS_EmptySet DEF DueTold
<1> QED  BY <1>2, <1>3, <1>4 DEF ImportInv

(***************************************************************************)
(* A block handed to the service gets the next index, which has no futures *)
(* yet, and wakes the task or is seen by its loop (on_new_block).          *)
(***************************************************************************)
LEMMA AnnouncementKeeps ==
  ASSUME ImportInv, NEW b \in Blocks \ {Genesis}, OnNewBlock(b)
  PROVE  ImportInv'
<1>1. /\ sent \in Seq(Blocks) /\ from_network \in Seq(Msgs)
      /\ Len(sent) \in Nat /\ Len(sent) < MaxMsgs
  BY LenProperties DEF ImportInv, QueueTypes, OnNewBlock
<1>2. Len(sent) + 1 \in Msgs
  BY <1>1, MaxMsgsAssumption DEF Msgs
<1>3. sent' \in Seq(Blocks) /\ Len(sent') = Len(sent) + 1
  BY <1>1, AppendOf DEF OnNewBlock
<1>4. /\ from_network' \in Seq(Msgs)
      /\ DOMAIN from_network' = DOMAIN from_network \cup {Len(from_network) + 1}
      /\ \A i \in DOMAIN from_network : /\ i # Len(from_network) + 1
                                        /\ from_network'[i] = from_network[i]
      /\ from_network'[Len(from_network) + 1] = Len(sent) + 1
  BY <1>1, <1>2, AppendOf DEF OnNewBlock
<1>5. QueueTypes'
  <2>1. Len(sent') <= MaxMsgs
    BY <1>1, <1>3, MaxMsgsAssumption
  <2>2. woken' \in BOOLEAN
    BY DEF OnNewBlock, Wake, ImportInv, QueueTypes
  <2> QED  BY <1>3, <1>4, <2>1, <2>2
              DEF OnNewBlock, service, engine, ImportInv, QueueTypes
<1>6. ChannelOnce'
  <2>1. \A k \in DOMAIN from_network : from_network[k] \in Nat /\ from_network[k] <= Len(sent)
    <3>1. \A k \in DOMAIN from_network : from_network[k] \in Msgs
      BY <1>1, Indices
    <3> QED  BY <3>1 DEF ImportInv, ChannelOnce, Msgs
  <2>2. \A kind \in Kinds : fut[<<Len(sent) + 1, kind>>] = "absent"
    BY <1>1, <1>2 DEF ImportInv, ChannelOnce, Futures
  <2>3. \A f \in Futures : f[1] \in Nat
    BY DEF Futures, Msgs
  <2> QED  BY <1>1, <1>3, <1>4, <2>1, <2>2, <2>3
              DEF OnNewBlock, service, ImportInv, ChannelOnce
<1>7. ReadyOnce' /\ EngineOnce'
  BY DEF OnNewBlock, service, engine, ImportInv, ReadyOnce, EngineOnce
<1>8. Awake'
  BY DEF OnNewBlock, Wake, service, ImportInv, Awake
<1>9. DueTold'
  BY DueKept DEF OnNewBlock, service, ImportInv
<1> QED  BY <1>5, <1>6, <1>7, <1>8, <1>9 DEF ImportInv

(* The network takes an outcome off the channel (HlBlockImport::poll). *)
LEMMA OutcomeTakenKeeps ==
  ASSUME ImportInv, PollOutcome
  PROVE  ImportInv'
<1>1. to_network \in Seq(Outcome) /\ reported \in Seq(Outcome) /\ to_network # <<>>
  BY DEF ImportInv, QueueTypes, PollOutcome
<1>2. to_network' \in Seq(Outcome) /\ reported' \in Seq(Outcome)
  BY <1>1, TailOf, AppendOf DEF PollOutcome
<1>3. reported' \o to_network' = reported \o to_network
  BY <1>1, OutcomeStream DEF PollOutcome
<1>4. QueueTypes' /\ ChannelOnce' /\ ReadyOnce' /\ EngineOnce' /\ Awake'
  BY <1>2 DEF PollOutcome, service, engine, ImportInv, QueueTypes, ChannelOnce,
     ReadyOnce, EngineOnce, Awake, AllConclusive
<1>5. DueTold'
  BY <1>3, DueKept DEF PollOutcome, service, ImportInv
<1> QED  BY <1>4, <1>5 DEF ImportInv

(***************************************************************************)
(* Steps that only move the task on: shutdown of the network, the engine   *)
(* becoming ready, the begin of a poll, the end of its two loops, and the  *)
(* first read of the head (ImportService::poll).                           *)
(***************************************************************************)
LEMMA TaskMovesKeeps ==
  ASSUME ImportInv,
         UNCHANGED <<fut, finished, ready, sent, from_network, to_network, reported, to_engine>>,
         woken' \in BOOLEAN,
         phase' = "head" => ready # <<>> /\ fut[Head(ready)] = "fresh",
         phase' # "ended" => phase # "ended",
         from_network # <<>> => woken' \/ phase' = "receiving",
         phase' = "idle" /\ ~woken' /\ AllConclusive => ready = <<>>
  PROVE  ImportInv'
<1>1. QueueTypes' /\ ChannelOnce' /\ ReadyOnce' /\ EngineOnce'
  BY DEF ImportInv, QueueTypes, ChannelOnce, ReadyOnce, EngineOnce
<1>2. Awake'
  BY DEF Awake, AllConclusive
<1>3. DueTold'
  BY DueKept DEF ImportInv
<1> QED  BY <1>1, <1>2, <1>3 DEF ImportInv

(***************************************************************************)
(* A block received becomes two futures nobody holds yet; no other message *)
(* in the channel has its index (the first loop of ImportService::poll).   *)
(***************************************************************************)
LEMMA ReceiveKeeps ==
  ASSUME ImportInv, ReceiveBlock
  PROVE  ImportInv'
<1> DEFINE i == Head(from_network)
           x == <<i, "payload">>
           y == <<i, "fcu">>
<1>1. from_network \in Seq(Msgs) /\ from_network # <<>> /\ ready \in Seq(Futures)
  BY DEF ImportInv, QueueTypes, ReceiveBlock
<1>2. /\ i = from_network[1] /\ i \in Msgs /\ 1 \in DOMAIN from_network
      /\ from_network' \in Seq(Msgs)
      /\ \A k \in DOMAIN from_network' :
           /\ k \in Nat /\ k >= 1 /\ k + 1 \in DOMAIN from_network
           /\ from_network'[k] = from_network[k + 1]
  BY <1>1, TailOf DEF ReceiveBlock
<1>3. x \in Futures /\ y \in Futures /\ x # y
  BY <1>2 DEF Futures, Kinds
<1>4. fut[x] = "absent" /\ fut[y] = "absent" /\ i <= Len(sent)
  BY <1>2 DEF ImportInv, ChannelOnce, Kinds
<1> HIDE DEF i, x, y
<1>5. /\ ready' \in Seq(Futures)
      /\ DOMAIN ready' = DOMAIN ready \cup {Len(ready) + 1, Len(ready) + 2}
      /\ \A k \in DOMAIN ready : /\ k # Len(ready) + 1 /\ k # Len(ready) + 2
                                 /\ ready'[k] = ready[k]
      /\ ready'[Len(ready) + 1] = x /\ ready'[Len(ready) + 2] = y
      /\ Len(ready) \in Nat
      /\ ToSet(<<x, y>>) = {x, y}
  <2>1. ready' = ready \o <<x, y>>
    BY DEF ReceiveBlock, on_new_block, i, x, y
  <2> QED  BY <1>1, <1>3, <2>1, PairOf
<1>6. fut' = [f \in Futures |-> IF f \in {x, y} THEN "fresh" ELSE fut[f]]
  <2>1. fut' = [f \in Futures |-> IF f \in ToSet(<<x, y>>) THEN "fresh" ELSE fut[f]]
    BY DEF ReceiveBlock, on_new_block, i, x, y
  <2> QED  BY <1>5, <2>1
<1>7. fut'[x] = "fresh" /\ fut'[y] = "fresh" /\ \A f \in Futures \ {x, y} : fut'[f] = fut[f]
  BY <1>3, <1>6
<1>8. fut' \in [Futures -> FutureStates]
  BY <1>6 DEF ImportInv, QueueTypes, FutureStates
<1>9. x \notin finished /\ y \notin finished /\ \A f \in finished : f \in Futures \ {x, y}
  BY <1>4 DEF ImportInv, EngineOnce, QueueTypes
<1>10. \A k \in DOMAIN ready : ready[k] \in Futures \ {x, y}
  BY <1>1, <1>4, Indices DEF ImportInv, ReadyOnce
<1>11. \A k \in DOMAIN to_engine : to_engine[k].fut \in Futures \ {x, y}
  <2>1. \A k \in DOMAIN to_engine : to_engine[k] \in EngineMessage(BlocksOf(to_engine))
    BY Indices DEF ImportInv, QueueTypes
  <2>2. \A k \in DOMAIN to_engine : to_engine[k].fut \in Futures
    BY <2>1 DEF EngineMessage
  <2> QED  BY <1>4, <2>2 DEF ImportInv, EngineOnce
<1>12. QueueTypes'
  BY <1>2, <1>5, <1>8 DEF ReceiveBlock, engine, ImportInv, QueueTypes
<1>13. ChannelOnce'
  <2>1. \A k \in DOMAIN from_network' : from_network'[k] # i /\ from_network'[k] \in Msgs
    BY <1>2, Indices DEF ImportInv, ChannelOnce
  <2>2. \A k \in DOMAIN from_network', kind \in Kinds :
          <<from_network'[k], kind>> \in Futures \ {x, y}
    BY <2>1 DEF Futures, x, y
  <2>3. \A k \in DOMAIN from_network' :
          /\ from_network'[k] <= Len(sent)
          /\ \A kind \in Kinds : fut'[<<from_network'[k], kind>>] = "absent"
    BY <1>2, <1>7, <2>2 DEF ImportInv, ChannelOnce
  <2>4. \A k, l \in DOMAIN from_network' : from_network'[k] = from_network'[l] => k = l
    BY <1>2 DEF ImportInv, ChannelOnce
  <2>5. \A f \in Futures : f[1] > Len(sent) => fut'[f] = "absent"
    <3>1. \A f \in {x, y} : f[1] = i
      BY DEF x, y
    <3>2. i \in Nat /\ Len(sent) \in Nat
      BY <1>2, LenProperties DEF Msgs, ImportInv, QueueTypes
    <3> QED  BY <1>4, <1>7, <3>1, <3>2 DEF ImportInv, ChannelOnce
  <2> QED  BY <2>3, <2>4, <2>5 DEF ReceiveBlock, ChannelOnce
<1>14. ReadyOnce'
  <2>1. \A k \in DOMAIN ready' :
          ready'[k] \notin finished /\ fut'[ready'[k]] \notin {"absent", "waiting"}
    BY <1>5, <1>7, <1>9, <1>10 DEF ImportInv, ReadyOnce
  <2>2. \A k, l \in DOMAIN ready' : ready'[k] = ready'[l] => k = l
    BY <1>3, <1>5, <1>10 DEF ImportInv, ReadyOnce
  <2> QED  BY <2>1, <2>2 DEF ReceiveBlock, ReadyOnce
<1>15. EngineOnce'
  BY <1>7, <1>9, <1>11 DEF ReceiveBlock, engine, ImportInv, EngineOnce
<1>16. Awake'
  BY DEF ReceiveBlock, Awake
<1>17. DueTold'
  BY <1>7, <1>9, DueKept DEF ReceiveBlock, ImportInv
<1> QED  BY <1>12, <1>13, <1>14, <1>15, <1>16, <1>17 DEF ImportInv

(***************************************************************************)
(* The future taken off the ready queue is not in it again, is not with    *)
(* the engine and has not finished (FuturesUnordered::poll_next).          *)
(***************************************************************************)
LEMMA Popped ==
  ASSUME ImportInv, ready # <<>>
  PROVE  /\ Head(ready) \in Futures \ finished
         /\ fut[Head(ready)] \notin {"absent", "waiting"}
         /\ Tail(ready) \in Seq(Futures)
         /\ \A k \in DOMAIN Tail(ready) :
              /\ Tail(ready)[k] \in Futures \ (finished \cup {Head(ready)})
              /\ fut[Tail(ready)[k]] \notin {"absent", "waiting"}
         /\ \A k, l \in DOMAIN Tail(ready) : Tail(ready)[k] = Tail(ready)[l] => k = l
         /\ \A k \in DOMAIN to_engine : to_engine[k].fut \in Futures \ {Head(ready)}
<1>1. ready \in Seq(Futures)
  BY DEF ImportInv, QueueTypes
<1>2. /\ Head(ready) = ready[1] /\ ready[1] \in Futures /\ 1 \in DOMAIN ready
      /\ Tail(ready) \in Seq(Futures)
      /\ \A k \in DOMAIN Tail(ready) :
           k \in Nat /\ k >= 1 /\ k + 1 \in DOMAIN ready /\ Tail(ready)[k] = ready[k + 1]
  BY <1>1, TailOf
<1>3. \A k \in DOMAIN ready : ready[k] \in Futures
  BY <1>1, Indices
<1>4. \A k \in DOMAIN Tail(ready) : Tail(ready)[k] # Head(ready)
  BY <1>2 DEF ImportInv, ReadyOnce
<1>5. \A k, l \in DOMAIN Tail(ready) : Tail(ready)[k] = Tail(ready)[l] => k = l
  BY <1>2 DEF ImportInv, ReadyOnce
<1>6. \A k \in DOMAIN to_engine : to_engine[k].fut \in Futures
  <2>1. \A k \in DOMAIN to_engine : to_engine[k] \in EngineMessage(BlocksOf(to_engine))
    BY Indices DEF ImportInv, QueueTypes
  <2> QED  BY <2>1 DEF EngineMessage
<1>7. fut[Head(ready)] \notin {"absent", "waiting"}
  BY <1>2 DEF ImportInv, ReadyOnce
<1>8. \A k \in DOMAIN to_engine : to_engine[k].fut # Head(ready)
  BY <1>7 DEF ImportInv, EngineOnce
<1>9. Head(ready) \in Futures \ finished
  BY <1>2 DEF ImportInv, ReadyOnce
<1>10. \A k \in DOMAIN Tail(ready) :
         Tail(ready)[k] \in Futures \ finished /\ fut[Tail(ready)[k]] \notin {"absent", "waiting"}
  BY <1>2, <1>3 DEF ImportInv, ReadyOnce
<1> QED  BY <1>2, <1>4, <1>5, <1>6, <1>7, <1>8, <1>9, <1>10

(***************************************************************************)
(* A future that exists changes its state: the others keep theirs, and the *)
(* messages in the channel still have no futures (a poll or an answer).    *)
(***************************************************************************)
LEMMA FutureMoves ==
  ASSUME ImportInv, NEW f \in Futures, fut[f] # "absent", NEW v \in FutureStates,
         fut' = [fut EXCEPT ![f] = v], UNCHANGED <<sent, from_network>>
  PROVE  /\ fut' \in [Futures -> FutureStates]
         /\ fut'[f] = v
         /\ \A g \in Futures \ {f} : fut'[g] = fut[g]
         /\ ChannelOnce'
<1>1. /\ fut' \in [Futures -> FutureStates] /\ fut'[f] = v
      /\ \A g \in Futures \ {f} : fut'[g] = fut[g]
  BY DEF ImportInv, QueueTypes
<1>2. \A k \in DOMAIN from_network : from_network[k] \in Msgs
  BY Indices DEF ImportInv, QueueTypes
<1>3. \A k \in DOMAIN from_network, kind \in Kinds : <<from_network[k], kind>> \in Futures \ {f}
  BY <1>2 DEF Futures, ImportInv, ChannelOnce
<1>4. \A k \in DOMAIN from_network, kind \in Kinds : fut'[<<from_network[k], kind>>] = "absent"
  BY <1>1, <1>3 DEF ImportInv, ChannelOnce
<1>5. \A g \in Futures : g[1] > Len(sent) => fut'[g] = "absent"
  BY <1>1 DEF ImportInv, ChannelOnce
<1> QED  BY <1>1, <1>4, <1>5 DEF ImportInv, ChannelOnce

(***************************************************************************)
(* A future sends its message to the engine and waits; the task goes to    *)
(* sleep only after waking itself (new_payload, update_fork_choice).       *)
(***************************************************************************)
LEMMA DispatchKeeps ==
  ASSUME ImportInv, ready # <<>>, fut[Head(ready)] = "fresh", phase \in {"polling", "head"},
         NEW b, to_engine' = Append(to_engine, [fut |-> Head(ready), block |-> b]),
         Pending(Head(ready)), UNCHANGED network
  PROVE  ImportInv'
<1> DEFINE f == Head(ready)
           m == [fut |-> f, block |-> b]
           B == BlocksOf(to_engine) \cup {b}
<1>1. /\ f \in Futures \ finished /\ Tail(ready) \in Seq(Futures)
      /\ \A k \in DOMAIN Tail(ready) :
           /\ Tail(ready)[k] \in Futures \ (finished \cup {f})
           /\ fut[Tail(ready)[k]] \notin {"absent", "waiting"}
      /\ \A k, l \in DOMAIN Tail(ready) : Tail(ready)[k] = Tail(ready)[l] => k = l
      /\ \A k \in DOMAIN to_engine : to_engine[k].fut \in Futures \ {f}
  BY Popped
<1>2. UNCHANGED <<sent, from_network, to_network, reported, finished>> /\ ready' = Tail(ready)
  BY DEF network, Pending
<1>3. /\ fut' \in [Futures -> FutureStates] /\ fut'[f] = "waiting"
      /\ \A g \in Futures \ {f} : fut'[g] = fut[g]
      /\ ChannelOnce'
  <2>1. "waiting" \in FutureStates /\ fut[f] # "absent" /\ fut' = [fut EXCEPT ![f] = "waiting"]
    BY DEF FutureStates, Pending
  <2> QED  BY <1>1, <1>2, <2>1, FutureMoves
<1>4. to_engine \in Seq(EngineMessage(B)) /\ m \in EngineMessage(B)
  <2>1. to_engine \in Seq(EngineMessage(BlocksOf(to_engine)))
    BY DEF ImportInv, QueueTypes
  <2>2. EngineMessage(BlocksOf(to_engine)) \subseteq EngineMessage(B)
    BY DEF EngineMessage
  <2>3. m \in EngineMessage(B)
    BY <1>1 DEF EngineMessage
  <2> HIDE DEF B, m
  <2> QED  BY <2>1, <2>2, <2>3, LargerSet
<1>5. /\ to_engine' \in Seq(EngineMessage(B))
      /\ DOMAIN to_engine' = DOMAIN to_engine \cup {Len(to_engine) + 1}
      /\ \A k \in DOMAIN to_engine : k # Len(to_engine) + 1 /\ to_engine'[k] = to_engine[k]
      /\ to_engine'[Len(to_engine) + 1] = m
  <2> HIDE DEF B, m
  <2>1. to_engine' = Append(to_engine, m)
    BY DEF m
  <2> QED  BY <1>4, <2>1, AppendOf
<1>6. m.fut = f
  OBVIOUS
<1> HIDE DEF f, m, B
<1>7. QueueTypes'
  <2>1. to_engine' \in Seq(EngineMessage(BlocksOf(to_engine')))
    BY <1>5, FreeBlocks
  <2>2. woken' \in BOOLEAN
    BY DEF Pending, ImportInv, QueueTypes
  <2> QED  BY <1>1, <1>2, <1>3, <2>1, <2>2 DEF ImportInv, QueueTypes
<1>8. ReadyOnce'
  <2>1. phase' # "head"
    BY DEF Pending
  <2> QED  BY <1>1, <1>2, <1>3, <2>1 DEF ReadyOnce
<1>9. EngineOnce'
  <2>1. \A k \in DOMAIN to_engine' : fut'[to_engine'[k].fut] = "waiting"
    <3>1. \A k \in DOMAIN to_engine : fut'[to_engine[k].fut] = "waiting"
      BY <1>1, <1>3 DEF ImportInv, EngineOnce
    <3> QED  BY <1>3, <1>5, <1>6, <3>1
  <2>2. \A k, l \in DOMAIN to_engine' : to_engine'[k].fut = to_engine'[l].fut => k = l
    BY <1>1, <1>5, <1>6 DEF ImportInv, EngineOnce
  <2>3. \A g \in finished : fut'[g] \notin {"absent", "fresh", "waiting"}
    BY <1>1, <1>3 DEF ImportInv, QueueTypes, EngineOnce
  <2> QED  BY <1>2, <2>1, <2>2, <2>3 DEF EngineOnce
<1>10. Awake'
  <2>1. from_network' # <<>> => woken'
    BY <1>2 DEF Pending, ImportInv, Awake
  <2>2. phase' = "idle" => woken'
    BY DEF Pending
  <2> QED  BY <2>1, <2>2 DEF Awake
<1>11. DueTold'
  <2>1. \A g \in finished : fut'[g] = fut[g]
    BY <1>1, <1>3 DEF ImportInv, QueueTypes
  <2> QED  BY <1>2, <2>1, DueKept DEF ImportInv
<1> QED  BY <1>3, <1>7, <1>8, <1>9, <1>10, <1>11 DEF ImportInv

(***************************************************************************)
(* A future that completes without an outcome owes the network nothing,    *)
(* and ends the loop: the premise of Awake is gone (poll, None outcome).   *)
(***************************************************************************)
LEMMA NoOutcomeKeeps ==
  ASSUME ImportInv, ready # <<>>, phase \in {"polling", "head"},
         NoOutcome(Head(ready), "inconclusive"), UNCHANGED <<network, to_engine, woken>>
  PROVE  ImportInv'
<1> DEFINE f == Head(ready)
<1>1. /\ f \in Futures \ finished /\ Tail(ready) \in Seq(Futures)
      /\ fut[f] \notin {"absent", "waiting"}
      /\ \A k \in DOMAIN Tail(ready) :
           /\ Tail(ready)[k] \in Futures \ (finished \cup {f})
           /\ fut[Tail(ready)[k]] \notin {"absent", "waiting"}
      /\ \A k, l \in DOMAIN Tail(ready) : Tail(ready)[k] = Tail(ready)[l] => k = l
      /\ \A k \in DOMAIN to_engine : to_engine[k].fut \in Futures \ {f}
  BY Popped
<1>2. /\ UNCHANGED <<sent, from_network, to_network, reported>>
      /\ ready' = Tail(ready) /\ finished' = finished \cup {f} /\ phase' = "idle"
  BY DEF network, NoOutcome
<1>3. /\ fut' \in [Futures -> FutureStates] /\ fut'[f] = "inconclusive"
      /\ \A g \in Futures \ {f} : fut'[g] = fut[g]
      /\ ChannelOnce'
  <2>1. "inconclusive" \in FutureStates /\ fut' = [fut EXCEPT ![f] = "inconclusive"]
    BY DEF FutureStates, NoOutcome
  <2> QED  BY <1>1, <1>2, <2>1, FutureMoves
<1> HIDE DEF f
<1>4. QueueTypes'
  BY <1>1, <1>2, <1>3 DEF ImportInv, QueueTypes
<1>5. ReadyOnce'
  BY <1>1, <1>2, <1>3 DEF ReadyOnce
<1>6. EngineOnce'
  <2>1. \A k \in DOMAIN to_engine : fut'[to_engine[k].fut] = "waiting"
    BY <1>1, <1>3 DEF ImportInv, EngineOnce
  <2>2. \A g \in finished' : fut'[g] \notin {"absent", "fresh", "waiting"}
    BY <1>1, <1>2, <1>3 DEF ImportInv, QueueTypes, EngineOnce
  <2> QED  BY <2>1, <2>2 DEF ImportInv, EngineOnce
<1>7. Awake'
  <2>1. ~AllConclusive'
    BY <1>2, <1>3 DEF AllConclusive, Conclusive
  <2> QED  BY <1>2, <2>1 DEF ImportInv, Awake
<1>8. DueTold'
  <2>1. Due' = Due
    BY <1>1, <1>2, <1>3 DEF Due, ImportInv, QueueTypes
  <2> QED  BY <1>2, <2>1 DEF ImportInv, DueTold
<1> QED  BY <1>3, <1>4, <1>5, <1>6, <1>7, <1>8 DEF ImportInv

(***************************************************************************)
(* A completed future with an answer is told to the network, once, as what *)
(* the engine answered; if nobody listens the service ends (poll).         *)
(***************************************************************************)
LEMMA ReportKeeps ==
  ASSUME ImportInv, PollAnswered
  PROVE  ImportInv'
<1> DEFINE f == Head(ready)
           o == [fut |-> f, result |-> result(fut[f])]
<1>1. /\ ready # <<>> /\ phase = "polling" /\ fut[f] \in Conclusive
      /\ ready' = Tail(ready) /\ finished' = finished \cup {f}
      /\ UNCHANGED <<fut, sent, from_network, reported, to_engine, woken>>
      /\ \/ phase' = "polling" /\ to_network' = Append(to_network, o)
         \/ phase' = "ended" /\ to_network' = to_network
  BY DEF PollAnswered, engine
<1>2. /\ f \in Futures \ finished /\ Tail(ready) \in Seq(Futures)
      /\ \A k \in DOMAIN Tail(ready) :
           /\ Tail(ready)[k] \in Futures \ (finished \cup {f})
           /\ fut[Tail(ready)[k]] \notin {"absent", "waiting"}
      /\ \A k, l \in DOMAIN Tail(ready) : Tail(ready)[k] = Tail(ready)[l] => k = l
  BY <1>1, Popped
<1>3. /\ o \in Outcome /\ o.fut = f
      /\ \/ fut[f] = "valid" /\ o.result = "Ok"
         \/ fut[f] = "invalid" /\ o.result = "Err"
  BY <1>1, <1>2 DEF Outcome, result, Conclusive
<1>4. to_network \in Seq(Outcome) /\ reported \in Seq(Outcome)
  BY DEF ImportInv, QueueTypes
<1>5. Due' = Due \cup {o} /\ o \notin Due
  <2>1. o \notin Due
    BY <1>2, <1>3 DEF Due
  <2>2. \A p \in Due' : p \in Due \cup {o}
    <3> SUFFICES ASSUME NEW p \in Due', p.fut = f PROVE p = o
      BY <1>1 DEF Due
    <3>1. p.result = o.result
      BY <1>1, <1>3 DEF Due
    <3> QED  BY <1>3, <3>1 DEF Due, Outcome
  <2>3. \A p \in Due \cup {o} : p \in Due'
    BY <1>1, <1>3 DEF Due, Outcome
  <2> QED  BY <2>1, <2>2, <2>3
<1> HIDE DEF f, o
<1>6. QueueTypes'
  <2>1. to_network' \in Seq(Outcome)
    <3>1. o \in Outcome
      BY <1>3
    <3>2. Append(to_network, o) \in Seq(Outcome)
      BY <1>4, <3>1, AppendOf
    <3> QED  BY <1>1, <1>4, <3>2
  <2> QED  BY <1>1, <1>2, <2>1 DEF ImportInv, QueueTypes
<1>7. ChannelOnce' /\ ReadyOnce'
  BY <1>1, <1>2 DEF ImportInv, ChannelOnce, ReadyOnce
<1>8. EngineOnce'
  BY <1>1 DEF ImportInv, EngineOnce, Conclusive
<1>9. Awake'
  BY <1>1 DEF ImportInv, Awake
<1>10. DueTold'
  <2>1. IsFiniteSet(Due') /\ Cardinality(Due') = Cardinality(Due) + 1
    BY <1>5, FS_AddElement DEF ImportInv, DueTold
  <2>2. ASSUME phase' # "ended"
        PROVE  /\ ToSet(reported' \o to_network') = Due'
               /\ Len(reported' \o to_network') = Cardinality(Due')
    <3> DEFINE told == reported \o to_network
    <3>1. o \in Outcome /\ told \in Seq(Outcome)
      <4>1. o \in Outcome
        BY <1>3
      <4> QED  BY <1>4, <4>1, OutcomeStream
    <3>2. reported' \o to_network' = Append(told, o)
      <4>1. reported' = reported /\ to_network' = Append(to_network, o)
        BY <1>1, <2>2
      <4>2. reported \o Append(to_network, o) = Append(told, o)
        BY <1>4, <3>1, OutcomeStream
      <4> QED  BY <4>1, <4>2
    <3> HIDE DEF told
    <3>3. /\ ToSet(Append(told, o)) = ToSet(told) \cup {o}
          /\ Len(Append(told, o)) = Len(told) + 1
      BY <3>1, AppendOf
    <3>4. ToSet(told) = Due /\ Len(told) = Cardinality(Due)
      BY <1>1 DEF ImportInv, DueTold, told
    <3> QED  BY <1>5, <2>1, <3>2, <3>3, <3>4
  <2> QED  BY <2>1, <2>2 DEF DueTold
<1> QED  BY <1>6, <1>7, <1>8, <1>9, <1>10 DEF ImportInv

(***************************************************************************)
(* The engine answers a future that waits: it is queued, once, and wakes   *)
(* the task unless the task is about to look (the oneshot of the engine).  *)
(***************************************************************************)
LEMMA AnswerKeeps ==
  ASSUME ImportInv, to_engine # <<>>, NEW answer \in Answers, Answer(Head(to_engine).fut, answer)
  PROVE  ImportInv'
<1> DEFINE f == Head(to_engine).fut
           B == BlocksOf(to_engine)
<1>1. to_engine \in Seq(EngineMessage(B)) /\ ready \in Seq(Futures)
  BY DEF ImportInv, QueueTypes
<1>2. /\ ready' = Append(ready, f) /\ to_engine' = Tail(to_engine)
      /\ fut' = [fut EXCEPT ![f] = answer]
      /\ UNCHANGED <<finished, phase, sent, from_network, to_network, reported>>
      /\ Wake
  BY DEF Answer, network
<1> HIDE DEF B
<1>3. /\ Head(to_engine) = to_engine[1] /\ to_engine[1] \in EngineMessage(B)
      /\ 1 \in DOMAIN to_engine
      /\ to_engine' \in Seq(EngineMessage(B))
      /\ \A k \in DOMAIN to_engine' :
           /\ k \in Nat /\ k >= 1 /\ k + 1 \in DOMAIN to_engine
           /\ to_engine'[k] = to_engine[k + 1]
  BY <1>1, <1>2, TailOf
<1>4. f \in Futures /\ fut[f] = "waiting"
  BY <1>3 DEF EngineMessage, ImportInv, EngineOnce
<1>5. \A k \in DOMAIN to_engine' : to_engine'[k].fut \in Futures \ {f}
  <2>1. \A k \in DOMAIN to_engine' : to_engine'[k] \in EngineMessage(B)
    BY <1>3, Indices
  <2>2. \A k \in DOMAIN to_engine' : to_engine'[k].fut \in Futures
    BY <2>1 DEF EngineMessage
  <2> QED  BY <1>3, <2>2 DEF ImportInv, EngineOnce
<1>6. answer \in FutureStates /\ answer \notin {"absent", "fresh", "waiting"}
  BY AnswersAssumption DEF FutureStates, Conclusive
<1> HIDE DEF f
<1>7. /\ fut' \in [Futures -> FutureStates] /\ fut'[f] = answer
      /\ \A g \in Futures \ {f} : fut'[g] = fut[g]
      /\ ChannelOnce'
  BY <1>2, <1>4, <1>6, FutureMoves
<1>8. /\ ready' \in Seq(Futures) /\ ready' # <<>>
      /\ DOMAIN ready' = DOMAIN ready \cup {Len(ready) + 1}
      /\ \A k \in DOMAIN ready : k # Len(ready) + 1 /\ ready'[k] = ready[k]
      /\ ready'[Len(ready) + 1] = f
  BY <1>1, <1>2, <1>4, AppendOf
<1>9. f \notin finished /\ \A k \in DOMAIN ready : ready[k] \in Futures \ {f}
  BY <1>1, <1>4, Indices DEF ImportInv, ReadyOnce, EngineOnce
<1>10. QueueTypes'
  <2>1. to_engine' \in Seq(EngineMessage(BlocksOf(to_engine')))
    BY <1>3, FreeBlocks
  <2>2. woken' \in BOOLEAN
    BY <1>2 DEF Wake, ImportInv, QueueTypes
  <2> QED  BY <1>2, <1>7, <1>8, <2>1, <2>2 DEF ImportInv, QueueTypes
<1>11. ReadyOnce'
  <2>1. \A k \in DOMAIN ready' :
          ready'[k] \notin finished /\ fut'[ready'[k]] \notin {"absent", "waiting"}
    BY <1>6, <1>7, <1>8, <1>9 DEF ImportInv, ReadyOnce
  <2>2. \A k, l \in DOMAIN ready' : ready'[k] = ready'[l] => k = l
    BY <1>8, <1>9 DEF ImportInv, ReadyOnce
  <2>3. ASSUME phase = "head"  PROVE  fut'[Head(ready')] = "fresh"
    <3>1. ready # <<>> /\ fut[Head(ready)] = "fresh"
      BY <2>3 DEF ImportInv, ReadyOnce
    <3>2. Head(ready) = ready[1] /\ 1 \in DOMAIN ready
      BY <1>1, <3>1, TailOf
    <3>3. Head(ready') = ready'[1]
      BY <1>8, TailOf
    <3> QED  BY <1>7, <1>8, <1>9, <3>1, <3>2, <3>3
  <2> QED  BY <1>2, <1>8, <2>1, <2>2, <2>3 DEF ReadyOnce
<1>12. EngineOnce'
  <2>1. \A k \in DOMAIN to_engine' : fut'[to_engine'[k].fut] = "waiting"
    BY <1>3, <1>5, <1>7 DEF ImportInv, EngineOnce
  <2>2. \A k, l \in DOMAIN to_engine' : to_engine'[k].fut = to_engine'[l].fut => k = l
    BY <1>3 DEF ImportInv, EngineOnce
  <2>3. \A g \in finished : fut'[g] \notin {"absent", "fresh", "waiting"}
    BY <1>7, <1>9 DEF ImportInv, QueueTypes, EngineOnce
  <2> QED  BY <1>2, <2>1, <2>2, <2>3 DEF EngineOnce
<1>13. Awake'
  <2>1. phase # "receiving" => woken'
    BY <1>2 DEF Wake
  <2>2. phase = "receiving" => phase' # "idle"
    BY <1>2
  <2> QED  BY <1>2, <2>1, <2>2 DEF Awake
<1>14. DueTold'
  <2>1. \A g \in finished : fut'[g] = fut[g]
    BY <1>7, <1>9 DEF ImportInv, QueueTypes
  <2> QED  BY <1>2, <2>1, DueKept DEF ImportInv
<1> QED  BY <1>7, <1>10, <1>11, <1>12, <1>13, <1>14 DEF ImportInv

(* Every step of the network, the service and the engine keeps it. *)
LEMMA ImportInvPreserved == ImportInv /\ [Next]_vars => ImportInv'
<1> SUFFICES ASSUME ImportInv, [Next]_vars PROVE ImportInv'
  OBVIOUS
<1> USE DEF network, engine
<1>1. woken \in BOOLEAN
  BY DEF ImportInv, QueueTypes
<1>2. CASE NetworkStops
  <2>1. woken' \in BOOLEAN /\ (phase # "receiving" => woken')
    BY <1>1, <1>2 DEF NetworkStops, Wake
  <2> QED  BY <1>2, <2>1, TaskMovesKeeps
              DEF NetworkStops, service, ImportInv, ReadyOnce, Awake
<1>3. CASE EngineReady
  BY <1>3, TaskMovesKeeps DEF EngineReady
<1>4. CASE StartPoll
  BY <1>4, TaskMovesKeeps DEF StartPoll
<1>5. CASE ChannelEmpty
  BY <1>1, <1>5, TaskMovesKeeps DEF ChannelEmpty
<1>6. CASE NothingReady
  BY <1>1, <1>6, TaskMovesKeeps DEF NothingReady, ImportInv, Awake
<1>7. CASE PollNewPayload
  BY <1>7, DispatchKeeps DEF PollNewPayload
<1>8. CASE PollForkChoice
  <2>1. CASE phase' = "head" /\ UNCHANGED <<fut, finished, ready, polled>>
    BY <1>1, <1>8, <2>1, TaskMovesKeeps DEF PollForkChoice, ImportInv, Awake
  <2>2. CASE NoOutcome(Head(ready), "inconclusive")
    BY <1>8, <2>2, NoOutcomeKeeps DEF PollForkChoice
  <2> QED  BY <1>8, <2>1, <2>2 DEF PollForkChoice
<1>9. CASE PollForkChoiceHash
  <2>1. phase = "head" /\ ready # <<>> /\ fut[Head(ready)] = "fresh" /\ UNCHANGED network
    BY <1>9 DEF PollForkChoiceHash, ImportInv, ReadyOnce
  <2>2. ASSUME NEW b, to_engine' = Append(to_engine, [fut |-> Head(ready), block |-> b]),
               Pending(Head(ready))
        PROVE  ImportInv'
    BY <2>1, <2>2, DispatchKeeps
  <2>3. CASE NoOutcome(Head(ready), "inconclusive") /\ UNCHANGED <<to_engine, woken>>
    BY <2>1, <2>3, NoOutcomeKeeps
  <2> QED  BY <1>9, <2>2, <2>3 DEF PollForkChoiceHash
<1>10. CASE PollInconclusive
  BY <1>10, NoOutcomeKeeps DEF PollInconclusive
<1>11. CASE EnginePayload
  BY <1>11, AnswerKeeps DEF EnginePayload
<1>12. CASE EngineForkChoice
  BY <1>12, AnswerKeeps DEF EngineForkChoice
<1>13. CASE UNCHANGED vars
  BY <1>1, <1>13, TaskMovesKeeps DEF vars, service, ImportInv, ReadyOnce, Awake
<1> QED  BY <1>2, <1>3, <1>4, <1>5, <1>6, <1>7, <1>8, <1>9, <1>10, <1>11, <1>12, <1>13,
            AnnouncementKeeps, OutcomeTakenKeeps, ReceiveKeeps, ReportKeeps
            DEF Next, Service, Engine

(* The inductive invariant holds in every state of the service (poll). *)
LEMMA ImportInvAlways == Spec => []ImportInv
BY ImportInvInitially, ImportInvPreserved, PTL DEF Spec

(***************************************************************************)
(* The network is told exactly what the engine answered, once for each     *)
(* completed future and never otherwise: for any number of announcements,  *)
(* any chain, and any interleaving of polls and answers (poll,             *)
(* to_network).                                                            *)
(***************************************************************************)
THEOREM NetworkToldOnce == Spec => []OutcomesFaithful
<1>1. ImportInv => OutcomesFaithful
  BY DEF ImportInv, DueTold, Due, OutcomesFaithful
<1> QED  BY <1>1, ImportInvAlways, PTL

(***************************************************************************)
(* While every future has completed with an outcome, the task never sleeps *)
(* with a block in its channel or a future ready: no wake-up is lost,      *)
(* between the loops of poll or anywhere else (poll, its wakers).          *)
(***************************************************************************)
THEOREM NoWakeUpLost == Spec => []NoSleepWithWork
<1>1. ImportInv => NoSleepWithWork
  BY DEF ImportInv, Awake, NoSleepWithWork
<1> QED  BY <1>1, ImportInvAlways, PTL
=============================================================================
