----------------------------- MODULE BlockImport -----------------------------
(***************************************************************************)
(* The block import service of src/src/node/network/block_import: blocks   *)
(* announced on the network become two futures each, one that hands the    *)
(* payload to the engine and one that updates the fork choice; the service *)
(* task polls them and reports the outcomes to the network.                *)
(*                                                                         *)
(* Message i is the i-th block handed to the service, with the peer it     *)
(* came from; its futures are <<i, "payload">> and <<i, "fcu">>.  The      *)
(* engine, the chain it keeps and the FuturesUnordered queue are external: *)
(* they are modelled as far as the service sees them.                      *)
(***************************************************************************)
EXTENDS HlConsensus, Sequences, SequencesExt, FiniteSets

CONSTANTS Blocks,           \* block hashes, naturals
          Genesis,          \* the hash of the first head
          Number,           \* the block number of a hash
          Parent,           \* the parent hash of a block other than Genesis
          Answers,          \* what the engine may answer
          ProviderMayFail,  \* whether reading the database can fail
          MaxMsgs           \* bound on the blocks announced

Conclusive == {"valid", "invalid"}

ASSUME AnswersAssumption ==
  /\ Answers \subseteq Conclusive \cup {"inconclusive"}
  /\ {"valid", "invalid"} \subseteq Answers
ASSUME ProviderAssumption == ProviderMayFail \in BOOLEAN
ASSUME MaxMsgsAssumption == MaxMsgs \in Nat

Msgs == 1..MaxMsgs
Kinds == {"payload", "fcu"}
Futures == Msgs \X Kinds
NoBlock == -1

VARIABLES
  sent,          \* the blocks handed to the service, in order
  from_network,  \* channel to the service: message indices
  fut,           \* the state of each future
  finished,      \* the futures that have completed
  ready,         \* FuturesUnordered's ready-to-run queue
  polled,        \* futures polled in this call of poll_next
  phase,         \* where the service task is
  current,       \* best block number read by the future being polled
  woken,         \* the task has been woken and will be polled
  to_network,    \* channel to the network: outcomes
  reported,      \* the outcomes the network has received, in order
  network_up,    \* the network still holds its end of the channels
  to_engine,     \* channel to the engine
  seen,          \* blocks whose payload the engine has received
  validated,     \* blocks the engine has found valid
  head           \* the canonical head

service == <<fut, finished, ready, polled, phase, current>>
network == <<sent, from_network, to_network, reported, network_up>>
engine == <<to_engine, seen, validated, head>>
vars == <<service, network, engine, woken>>

Init ==
  /\ sent = <<>> /\ from_network = <<>>
  /\ fut = [f \in Futures |-> "absent"]
  /\ finished = {}
  /\ ready = <<>>
  /\ polled = 0
  /\ phase = "no engine"
  /\ current = 0
  /\ woken = FALSE
  /\ to_network = <<>> /\ reported = <<>> /\ network_up = TRUE
  /\ to_engine = <<>> /\ seen = {Genesis} /\ validated = {Genesis}
  /\ head = Genesis

-----------------------------------------------------------------------------
(***************************************************************************)
(* The waker of the channel and the one of FuturesUnordered (external) are *)
(* spent when they wake the task and are registered again by its next      *)
(* poll.  In the first loop of poll a waker may still be a spent one:      *)
(* then what arrives does not wake the task.                               *)
(***************************************************************************)
Wake == woken' \in IF phase = "receiving" THEN {woken, TRUE} ELSE {TRUE}

(* The network's side: HlBlockImport and ImportHandle. *)

(***************************************************************************)
(* HlBlockImport::on_new_block with a full block.  Once the service has    *)
(* ended the channel is closed and the block is silently dropped;          *)
(* announcements of bare hashes are ignored by the code and not modelled.  *)
(***************************************************************************)
OnNewBlock(b) ==
  /\ network_up
  /\ Len(sent) < MaxMsgs
  /\ phase # "ended"
  /\ sent' = Append(sent, b)
  /\ from_network' = Append(from_network, Len(sent) + 1)
  /\ Wake
  /\ UNCHANGED <<service, to_network, reported, network_up, engine>>

(* HlBlockImport::poll: the network takes the next outcome. *)
PollOutcome ==
  /\ network_up
  /\ to_network # <<>>
  /\ reported' = Append(reported, Head(to_network))
  /\ to_network' = Tail(to_network)
  /\ UNCHANGED <<service, sent, from_network, network_up, engine, woken>>

(* The network manager is dropped, as on shutdown: the channels close. *)
NetworkStops ==
  /\ network_up
  /\ network_up' = FALSE
  /\ Wake
  /\ UNCHANGED <<service, sent, from_network, to_network, reported, engine>>

-----------------------------------------------------------------------------
(* The service task. *)

(* The engine handle arrives and the task starts polling the service. *)
EngineReady ==
  /\ phase = "no engine"
  /\ phase' = "idle"
  /\ woken' = TRUE
  /\ UNCHANGED <<fut, finished, ready, polled, current, network, engine>>

(* Mutation: the fork choice is never updated. *)
on_new_block_payload_only(i) == <<<<i, "payload">>>>

(* Mutation: the fork choice is pushed first. *)
on_new_block_swapped(i) == <<<<i, "fcu">>, <<i, "payload">>>>

(* on_new_block: the two futures a message is turned into, in push order. *)
on_new_block(i) == <<<<i, "payload">>, <<i, "fcu">>>>

(* The runtime polls the woken task. *)
StartPoll ==
  /\ phase = "idle"
  /\ woken
  /\ woken' = FALSE
  /\ phase' = "receiving"
  /\ UNCHANGED <<fut, finished, ready, polled, current, network, engine>>

(* The first loop of poll: a block in the channel becomes its futures. *)
ReceiveBlock ==
  /\ phase = "receiving"
  /\ from_network # <<>>
  /\ LET new == on_new_block(Head(from_network))
     IN  /\ ready' = ready \o new
         /\ fut' = [f \in Futures |-> IF f \in ToSet(new) THEN "fresh" ELSE fut[f]]
  /\ from_network' = Tail(from_network)
  /\ UNCHANGED <<finished, polled, phase, current,
                 sent, to_network, reported, network_up, engine, woken>>

(* It ends when the channel is empty, and the second loop begins. *)
ChannelEmpty ==
  /\ phase = "receiving"
  /\ from_network = <<>>
  /\ polled' = 0
  /\ phase' = "polling"
  /\ UNCHANGED <<fut, finished, ready, current, network, engine, woken>>

(***************************************************************************)
(* A future was polled and is pending.  poll_next gives up, waking the     *)
(* task itself, when it has polled every future once.                      *)
(***************************************************************************)
Pending(f) ==
  LET live == {g \in Futures : fut[g] # "absent"} \ finished
  IN  /\ polled' = polled + 1
      /\ ready' = Tail(ready)
      /\ fut' = [fut EXCEPT ![f] = "waiting"]
      /\ phase' = IF polled + 1 = Cardinality(live) THEN "idle" ELSE "polling"
      /\ woken' = (woken \/ polled + 1 = Cardinality(live))
      /\ UNCHANGED finished

(* new_payload runs up to its await: the payload is sent to the engine. *)
PollNewPayload ==
  /\ phase = "polling"
  /\ ready # <<>>
  /\ LET f == Head(ready)
     IN  /\ f[2] = "payload" /\ fut[f] = "fresh"
         /\ to_engine' = Append(to_engine, [fut |-> f, block |-> sent[f[1]]])
         /\ Pending(f)
  /\ UNCHANGED <<current, network, seen, validated, head>>

(* A future completes without an outcome; the loop of poll ends there. *)
NoOutcome(f, answer) ==
  /\ fut' = [fut EXCEPT ![f] = answer]
  /\ finished' = finished \cup {f}
  /\ ready' = Tail(ready)
  /\ phase' = "idle"
  /\ UNCHANGED polled

(* The block of the canonical chain below (and including) b at height n. *)
Ancestor[b \in Blocks, n \in Nat] ==
  IF Number[b] = n THEN b
  ELSE IF Number[b] < n \/ b = Genesis THEN NoBlock
  ELSE Ancestor[Parent[b], n]

(* update_fork_choice, first read of canonical_head: best_block_number. *)
PollForkChoice ==
  /\ phase = "polling"
  /\ ready # <<>>
  /\ LET f == Head(ready)
     IN  /\ f[2] = "fcu" /\ fut[f] = "fresh"
         /\ \/ /\ current' = Number[head]
               /\ phase' = "head"
               /\ UNCHANGED <<fut, finished, ready, polled>>
            \/ /\ ProviderMayFail
               /\ NoOutcome(f, "inconclusive")
               /\ UNCHANGED current
  /\ UNCHANGED <<network, engine, woken>>

(***************************************************************************)
(* Mutation: a hash that cannot be read is taken for the default one, zero *)
(* (unwrap_or_default in place of ok_or and ?).                            *)
(***************************************************************************)
PollForkChoiceHashDefault ==
  /\ phase = "head"
  /\ LET f == Head(ready)
         b == sent[f[1]]
     IN  /\ \E current_hash \in {Ancestor[head, current]} \cup
                                (IF ProviderMayFail THEN {NoBlock} ELSE {}) :
              to_engine' = Append(to_engine,
                [fut |-> f, block |-> canonical_head(b, Number[b], current_hash, current)])
         /\ Pending(f)
  /\ current' = 0
  /\ UNCHANGED <<network, seen, validated, head>>

(***************************************************************************)
(* Second read: block_hash of that number, by now perhaps in another       *)
(* chain; then the fork choice is sent to the engine.                      *)
(***************************************************************************)
PollForkChoiceHash ==
  /\ phase = "head"
  /\ LET f == Head(ready)
         b == sent[f[1]]
         current_hash == Ancestor[head, current]
     IN  \/ /\ current_hash # NoBlock
            /\ to_engine' = Append(to_engine,
                 [fut |-> f, block |-> canonical_head(b, Number[b], current_hash, current)])
            /\ Pending(f)
         \/ /\ current_hash = NoBlock \/ ProviderMayFail
            /\ NoOutcome(f, "inconclusive")
            /\ UNCHANGED <<to_engine, woken>>
  /\ current' = 0
  /\ UNCHANGED <<network, seen, validated, head>>

(* Mutation: both conclusive answers are reported as a success. *)
result_always_ok(answer) == "Ok"

(* The outcome of a conclusive answer. *)
result(answer) == IF answer = "valid" THEN "Ok" ELSE "Err"

(* Mutation: one outcome per poll (if let instead of while let). *)
PollAnsweredOnce ==
  /\ phase = "polling"
  /\ ready # <<>>
  /\ LET f == Head(ready)
     IN  /\ fut[f] \in Conclusive
         /\ finished' = finished \cup {f}
         /\ ready' = Tail(ready)
         /\ polled' = 0
         /\ IF network_up
            THEN /\ to_network' = Append(to_network, [fut |-> f, result |-> result(fut[f])])
                 /\ phase' = "idle"
            ELSE /\ phase' = "ended"
                 /\ UNCHANGED to_network
  /\ UNCHANGED <<fut, current, sent, from_network, reported, network_up, engine, woken>>

(***************************************************************************)
(* A future whose answer has arrived completes.  A conclusive one is sent  *)
(* to the network and the loop goes on with a new call of poll_next; if    *)
(* the network is gone the service ends.                                   *)
(***************************************************************************)
PollAnswered ==
  /\ phase = "polling"
  /\ ready # <<>>
  /\ LET f == Head(ready)
     IN  /\ fut[f] \in Conclusive
         /\ finished' = finished \cup {f}
         /\ ready' = Tail(ready)
         /\ polled' = 0
         /\ IF network_up
            THEN /\ to_network' = Append(to_network, [fut |-> f, result |-> result(fut[f])])
                 /\ phase' = "polling"
            ELSE /\ phase' = "ended"
                 /\ UNCHANGED to_network
  /\ UNCHANGED <<fut, current, sent, from_network, reported, network_up, engine, woken>>

(* An inconclusive answer: the future yields None and the loop ends. *)
PollInconclusive ==
  /\ phase = "polling"
  /\ ready # <<>>
  /\ fut[Head(ready)] = "inconclusive"
  /\ NoOutcome(Head(ready), "inconclusive")
  /\ UNCHANGED <<current, network, engine, woken>>

(* poll_next finds nothing ready: the service is pending. *)
NothingReady ==
  /\ phase = "polling"
  /\ ready = <<>>
  /\ phase' = "idle"
  /\ UNCHANGED <<fut, finished, ready, polled, current, network, engine, woken>>

Service == \/ StartPoll \/ ReceiveBlock \/ ChannelEmpty \/ PollNewPayload \/ PollForkChoice
           \/ PollForkChoiceHash \/ PollAnswered \/ PollInconclusive \/ NothingReady

-----------------------------------------------------------------------------
(* The engine, external. *)

(* The answer wakes the future, which queues itself and wakes the task. *)
Answer(f, answer) ==
  /\ fut' = [fut EXCEPT ![f] = answer]
  /\ ready' = Append(ready, f)
  /\ Wake
  /\ to_engine' = Tail(to_engine)
  /\ UNCHANGED <<finished, polled, phase, current, network>>

(* Only a block on top of a valid one can be found valid. *)
EnginePayload ==
  /\ to_engine # <<>>
  /\ LET m == Head(to_engine)
     IN  /\ m.fut[2] = "payload"
         /\ seen' = seen \cup {m.block}
         /\ \E answer \in Answers :
              /\ answer = "valid" => Parent[m.block] \in validated
              /\ Answer(m.fut, answer)
              /\ validated' = IF answer = "valid" THEN validated \cup {m.block} ELSE validated
  /\ UNCHANGED head

(***************************************************************************)
(* A block of the canonical chain needs no change; a validated one becomes *)
(* the head; of any other the engine cannot say that it is valid.          *)
(***************************************************************************)
EngineForkChoice ==
  /\ to_engine # <<>>
  /\ LET m == Head(to_engine)
         canonical == Ancestor[head, Number[m.block]] = m.block
     IN  /\ m.fut[2] = "fcu"
         /\ \E answer \in Answers :
              /\ answer = "valid" => canonical \/ m.block \in validated
              /\ Answer(m.fut, answer)
              /\ head' = IF answer = "valid" /\ ~canonical THEN m.block ELSE head
  /\ UNCHANGED <<seen, validated>>

Engine == EnginePayload \/ EngineForkChoice

-----------------------------------------------------------------------------
Next ==
  \/ \E b \in Blocks \ {Genesis} : OnNewBlock(b)
  \/ PollOutcome
  \/ NetworkStops
  \/ EngineReady
  \/ Service
  \/ Engine

(***************************************************************************)
(* The runtime polls a woken task and goes on with a poll it has begun,    *)
(* the engine answers every message, and its handle arrives at startup.    *)
(* Nothing makes the network announce a block or shut down.                *)
(***************************************************************************)
Fairness == WF_vars(Service) /\ WF_vars(Engine) /\ WF_vars(EngineReady)

Spec == Init /\ [][Next]_vars /\ Fairness

-----------------------------------------------------------------------------
(***************************************************************************)
(* The variables have their types; in particular the engine is only ever   *)
(* given the hash of a block, whatever the database answers.               *)
(***************************************************************************)
TypeOK ==
  /\ sent \in Seq(Blocks) /\ Len(sent) <= MaxMsgs
  /\ from_network \in Seq(Msgs)
  /\ fut \in [Futures -> {"absent", "fresh", "waiting", "inconclusive"} \cup Conclusive]
  /\ finished \subseteq Futures
  /\ ready \in Seq(Futures)
  /\ polled \in 0..2 * MaxMsgs
  /\ phase \in {"no engine", "idle", "receiving", "polling", "head", "ended"}
  /\ current \in Nat
  /\ woken \in BOOLEAN /\ network_up \in BOOLEAN
  /\ to_network \in Seq([fut : Futures, result : {"Ok", "Err"}])
  /\ reported \in Seq([fut : Futures, result : {"Ok", "Err"}])
  /\ to_engine \in Seq([fut : Futures, block : Blocks])
  /\ seen \subseteq Blocks /\ validated \subseteq seen
  /\ head \in Blocks

(***************************************************************************)
(* The engine never has to choose a head it has not been given: when a     *)
(* fork choice reaches it, the payload of the chosen block did so before.  *)
(* This rests on the push order of on_new_block, on the ready queue and    *)
(* the engine channel being first in first out, and on the chosen head     *)
(* being the announced block or a block already canonical.                 *)
(***************************************************************************)
ForkChoiceAfterPayload ==
  \A i \in DOMAIN to_engine :
    to_engine[i].fut[2] = "fcu" =>
      \/ to_engine[i].block \in seen
      \/ \E j \in 1..i - 1 : to_engine[j] =
           [fut |-> <<to_engine[i].fut[1], "payload">>, block |-> to_engine[i].block]

(***************************************************************************)
(* The network is told exactly what the engine answered: one outcome for   *)
(* each completed future with a conclusive answer, Ok only for a valid     *)
(* one, and none for the others, however polls, answers and announcements  *)
(* interleave.                                                             *)
(***************************************************************************)
OutcomesFaithful ==
  LET outcomes == reported \o to_network
      told == {o \in [fut : finished, result : {"Ok", "Err"}] :
                 \/ fut[o.fut] = "valid" /\ o.result = "Ok"
                 \/ fut[o.fut] = "invalid" /\ o.result = "Err"}
  IN  phase # "ended" => /\ ToSet(outcomes) = told
                         /\ Len(outcomes) = Cardinality(told)

(* No future has completed without an outcome so far. *)
AllConclusive == \A f \in finished : fut[f] \in Conclusive

(***************************************************************************)
(* Nothing that is ready waits for a wake-up nobody will send: a task that *)
(* has gone to sleep has an empty channel and an empty ready queue, as     *)
(* long as every future has completed with an outcome.                     *)
(***************************************************************************)
NoSleepWithWork ==
  phase = "idle" /\ ~woken /\ AllConclusive => ready = <<>> /\ from_network = <<>>

(* The network has been told, or will be, the outcome of a future. *)
Told(f) == \E o \in ToSet(reported \o to_network) : o.fut = f

(***************************************************************************)
(* What the tests of the service wait for: every announced block           *)
(* eventually has both its outcomes, unless the network goes away or some  *)
(* future completes without an outcome.                                    *)
(***************************************************************************)
BothOutcomes ==
  \A f \in Futures : f[1] <= Len(sent) ~> Told(f) \/ ~network_up \/ ~AllConclusive

(***************************************************************************)
(* "It receives new blocks from the network": every announced block        *)
(* eventually reaches the engine, unless the network goes away.            *)
(***************************************************************************)
EveryBlockSubmitted ==
  \A i \in Msgs :
    i <= Len(sent) ~> fut[<<i, "payload">>] \notin {"absent", "fresh"} \/ ~network_up

(***************************************************************************)
(* The documented head rules: the canonical head only moves to a higher    *)
(* block, or at the same height to one with a lower hash.                  *)
(***************************************************************************)
HeadFollowsRules ==
  [][Precedes(head', Number[head'], head, Number[head])]_head
=============================================================================
