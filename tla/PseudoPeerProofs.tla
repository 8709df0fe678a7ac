-------------------------- MODULE PseudoPeerProofs --------------------------
(***************************************************************************)
(* That the poller announces a gapless run of blocks is proved here for    *)
(* every chain, channel size, cache and request load.  The service shares  *)
(* only the cache with the poller, so its steps leave the stream alone; of *)
(* the poller's steps each one moves a block along the stream or adds the  *)
(* next one at its end.                                                    *)
(***************************************************************************)
EXTENDS PseudoPeer, SequenceTheorems, TLAPS

(* The part of the state the argument is about. *)
streamVars == <<poller, first, next, block_rx, announced>>

InHand == IF poller = "sending" THEN <<next>> ELSE <<>>

(***************************************************************************)
(* The inductive invariant.  The types, that nothing is underway before    *)
(* the first block is found, and the property itself.                      *)
(***************************************************************************)
StreamTypes ==
  /\ tip \in Nat /\ first \in Nat /\ next \in Nat
  /\ block_rx \in Seq(Nat) /\ announced \in Seq(Nat)
  /\ poller \in {"suspended", "finding", "collecting", "sending", "dead"}

NotStarted == poller \in {"suspended", "finding", "dead"} => next = first

StreamInv == StreamTypes /\ NotStarted /\ AnnouncedInOrder

-----------------------------------------------------------------------------
(***************************************************************************)
(* A step of the service, a request or a session touches neither the       *)
(* stream nor the source: of what the poller uses it changes at most the   *)
(* cache and the start signal (ActivePeerSession, process_eth_request).    *)
(***************************************************************************)
LEMMA PeerStepsKeepStream ==
  ASSUME \/ ActivePeerSession \/ (\E r \in Requests : SendRequest(r)) \/ Service
  PROVE  UNCHANGED <<tip, streamVars>>
<1>1. CASE ActivePeerSession
  BY <1>1 DEF ActivePeerSession, streamVars, pollerVars
<1>2. CASE \E r \in Requests : SendRequest(r)
  BY <1>2 DEF SendRequest, pollerState, streamVars, pollerVars
<1>3. CASE Service
  <2>1. CASE ReceiveRequest
    BY <2>1 DEF ReceiveRequest, pollerState, streamVars, pollerVars
  <2>2. CASE Resolve
    BY <2>2 DEF Resolve, TryGetCached, FindLatest, BackfillLookup, BackfillCollected,
       BackfillFailed, OfficialRpc, WarmLookup, WarmCollect, pollerState, streamVars, pollerVars
  <2>3. CASE Serve
    BY <2>3 DEF Serve, Respond, Drop, pollerState, streamVars, pollerVars
  <2> QED  BY <1>3, <2>1, <2>2, <2>3 DEF Service
<1> QED  BY <1>1, <1>2, <1>3

(***************************************************************************)
(* Appending the block at hand to the channel, or moving the first block   *)
(* of the channel to the announced ones, leaves the whole stream as it is  *)
(* (PollerSend and BlockPoller::poll).                                     *)
(***************************************************************************)
LEMMA ConcatMoves ==
  ASSUME NEW a \in Seq(Nat), NEW b \in Seq(Nat), NEW n \in Nat
  PROVE  /\ a \o Append(b, n) \o <<>> = a \o b \o <<n>>
         /\ \A c \in Seq(Nat) :
              b # <<>> => Append(a, Head(b)) \o Tail(b) \o c = a \o b \o c
<1>1. a \o Append(b, n) \o <<>> = a \o b \o <<n>>
  OBVIOUS
<1>2. ASSUME NEW c \in Seq(Nat), b # <<>>
      PROVE  Append(a, Head(b)) \o Tail(b) \o c = a \o b \o c
  <2>1. Head(b) \in Nat /\ Tail(b) \in Seq(Nat) /\ <<Head(b)>> \in Seq(Nat)
    BY <1>2, HeadTailProperties
  <2> DEFINE x == Append(a, Head(b)) \o Tail(b)
             y == a \o b
  <2>2. x \in Seq(Nat) /\ y \in Seq(Nat)
    BY <2>1
  <2>3. Len(x) = Len(y) /\ Len(y) = Len(a) + Len(b)
    BY <1>2, <2>1
  <2>4. ASSUME NEW i \in 1..Len(y)
        PROVE  x[i] = y[i]
    <3>1. CASE i <= Len(a)
      BY <3>1, <2>1, <2>3
    <3>2. CASE i = Len(a) + 1
      BY <3>2, <1>2, <2>1, <2>3
    <3>3. CASE i > Len(a) + 1
      BY <3>3, <1>2, <2>1, <2>3
    <3>4. i \in Nat /\ Len(a) \in Nat
      BY <2>2, LenProperties
    <3>5. i <= Len(a) \/ i = Len(a) + 1 \/ i > Len(a) + 1
      BY <3>4
    <3> QED  BY <3>1, <3>2, <3>3, <3>5
  <2>5. x = y
    <3> HIDE DEF x, y
    <3> QED  BY <2>2, <2>3, <2>4, SeqEqual
  <2> QED  BY <2>5
<1> QED  BY <1>1, <1>2

(***************************************************************************)
(* The stream is empty, and nothing has been found, when the peer starts.  *)
(***************************************************************************)
LEMMA StreamInvInitially ==
  ASSUME Init
  PROVE  StreamInv
<1>1. StreamTypes /\ NotStarted
  BY HeightAssumption DEF Init, PollerInit, StreamTypes, NotStarted, Heights
<1>2. AnnouncedInOrder
  BY DEF Init, PollerInit, AnnouncedInOrder, Stream
<1> QED  BY <1>1, <1>2 DEF StreamInv

(***************************************************************************)
(* Every step of the whole system keeps the inductive invariant.           *)
(***************************************************************************)
LEMMA StreamInvPreserved ==
  ASSUME StreamInv, [Next]_vars
  PROVE  StreamInv'
<1> USE DEF StreamInv
<1>1. CASE UNCHANGED <<tip, streamVars>>
  BY <1>1 DEF streamVars, StreamTypes, NotStarted, AnnouncedInOrder, Stream
<1>2. CASE Grow
  BY <1>2, HeightAssumption DEF Grow, pollerVars, StreamTypes, NotStarted, AnnouncedInOrder, Stream
<1>3. CASE PollerStart
  BY <1>3 DEF PollerStart, StreamTypes, NotStarted, AnnouncedInOrder, Stream
<1>4. CASE PollerFindLatest
  BY <1>4 DEF PollerFindLatest, StreamTypes, NotStarted, AnnouncedInOrder, Stream
<1>5. CASE PollerCollect
  <2>1. StreamTypes' /\ NotStarted'
    BY <1>5 DEF PollerCollect, StreamTypes, NotStarted
  <2>2. Stream' = Append(Stream, next)
    BY <1>5 DEF PollerCollect, StreamTypes, Stream
  <2>3. Stream \in Seq(Nat)
    BY <1>5 DEF PollerCollect, StreamTypes, Stream
  <2>4. Len(Stream) = next - first /\ \A i \in 1..next - first : Stream[i] = first + i - 1
    BY <1>5 DEF PollerCollect, AnnouncedInOrder
  <2>5. Len(Stream') = next - first + 1
    BY <2>2, <2>3, <2>4
  <2>6. ASSUME NEW i \in 1..next - first + 1
        PROVE  Stream'[i] = first + i - 1
    <3> HIDE DEF Stream
    <3>1. CASE i = next - first + 1
      <4>1. Append(Stream, next)[Len(Stream) + 1] = next
        BY <2>3, AppendProperties DEF StreamTypes
      <4>2. i = Len(Stream) + 1
        BY <3>1, <2>4
      <4>3. Stream'[i] = next
        BY <4>1, <4>2, <2>2
      <4> QED  BY <4>3, <3>1 DEF StreamTypes
    <3>2. CASE i \in 1..next - first
      BY <3>2, <2>2, <2>3, <2>4 DEF StreamTypes
    <3>3. next - first \in Nat
      BY <2>3, <2>4
    <3>4. i = next - first + 1 \/ i \in 1..next - first
      BY <3>3, <2>6
    <3> QED  BY <3>1, <3>2, <3>4
  <2>7. AnnouncedInOrder'
    BY <1>5, <2>5, <2>6 DEF PollerCollect, AnnouncedInOrder
  <2> QED  BY <2>1, <2>7
<1>6. CASE PollerSend
  <2>1. StreamTypes' /\ NotStarted'
    BY <1>6 DEF PollerSend, StreamTypes, NotStarted
  <2>2. Stream' = Stream
    BY <1>6, ConcatMoves DEF PollerSend, StreamTypes, Stream
  <2>3. AnnouncedInOrder'
    BY <1>6, <2>2 DEF PollerSend, StreamTypes, AnnouncedInOrder
  <2> QED  BY <2>1, <2>3
<1>7. CASE Announce
  <2>1. StreamTypes' /\ NotStarted'
    BY <1>7 DEF Announce, pollerVars, StreamTypes, NotStarted
  <2>2. Stream' = Stream
    <3>1. InHand \in Seq(Nat) /\ InHand' = InHand /\ Stream = announced \o block_rx \o InHand
      BY <1>7 DEF Announce, pollerVars, StreamTypes, InHand, Stream
    <3>2. Stream' = Append(announced, Head(block_rx)) \o Tail(block_rx) \o InHand
      BY <1>7 DEF Announce, pollerVars, StreamTypes, InHand, Stream
    <3> QED  BY <1>7, <3>1, <3>2, ConcatMoves DEF Announce, StreamTypes
  <2>3. AnnouncedInOrder'
    BY <1>7, <2>2 DEF Announce, pollerVars, StreamTypes, AnnouncedInOrder
  <2> QED  BY <2>1, <2>3
<1>8. CASE UNCHANGED vars
  BY <1>8, <1>1 DEF vars, pollerState, pollerVars, streamVars
<1>9. CASE \/ ActivePeerSession \/ (\E r \in Requests : SendRequest(r)) \/ Service
  <2>1. UNCHANGED <<tip, streamVars>>
    BY <1>9, PeerStepsKeepStream
  <2> QED  BY <2>1, <1>1
<1>10. \/ ActivePeerSession \/ (\E r \in Requests : SendRequest(r)) \/ Service
       \/ Grow \/ PollerStart \/ PollerFindLatest \/ PollerCollect \/ PollerSend
       \/ Announce \/ UNCHANGED vars
  BY DEF Next, PollerNext, PollerTask
<1> HIDE DEF StreamInv
<1> QED  BY <1>2, <1>3, <1>4, <1>5, <1>6, <1>7, <1>8, <1>9, <1>10

(***************************************************************************)
(* The announcements of the block poller are gapless, in order and without *)
(* repetition, next to a service that answers any requests: the loop of    *)
(* BlockPoller::task and BlockPoller::poll, for every height of the chain  *)
(* and every channel size.                                                 *)
(***************************************************************************)
THEOREM AnnouncementsGapless == Spec => []AnnouncedInOrder
<1>1. Init => StreamInv
  BY StreamInvInitially
<1>2. StreamInv /\ [Next]_vars => StreamInv'
  BY StreamInvPreserved
<1>3. StreamInv => AnnouncedInOrder
  BY DEF StreamInv
<1> QED  BY <1>1, <1>2, <1>3, PTL DEF Spec

-----------------------------------------------------------------------------
(***************************************************************************)
(* For the refinement the invariant also says how far the poller is: it    *)
(* starts at a block of the source and is at most one block ahead of it.   *)
(***************************************************************************)
AheadInv ==
  /\ tip >= 1 /\ next <= tip + 1
  /\ poller \in {"collecting", "sending"} => first >= 1
  /\ poller = "sending" => next <= tip
  /\ poller \in {"suspended", "finding", "dead"} => block_rx = <<>>

FeedInv == StreamInv /\ AheadInv

(***************************************************************************)
(* The task asks only for blocks up to the one after the tip, and sends    *)
(* what it has collected (BlockPoller::task).                              *)
(***************************************************************************)
LEMMA AheadInvPreserved ==
  ASSUME FeedInv, [Next]_vars
  PROVE  AheadInv'
<1> USE DEF FeedInv, StreamInv, AheadInv
<1>1. CASE UNCHANGED <<tip, streamVars>>
  BY <1>1 DEF streamVars
<1>2. CASE Grow
  BY <1>2 DEF Grow, pollerVars, StreamTypes
<1>3. CASE PollerStart
  BY <1>3 DEF PollerStart, StreamTypes
<1>4. CASE PollerFindLatest
  BY <1>4 DEF PollerFindLatest, StreamTypes
<1>5. CASE PollerCollect
  BY <1>5 DEF PollerCollect, StreamTypes
<1>6. CASE PollerSend
  BY <1>6 DEF PollerSend, StreamTypes
<1>7. CASE Announce
  BY <1>7 DEF Announce, pollerVars, StreamTypes
<1>8. CASE UNCHANGED vars
  BY <1>8, <1>1 DEF vars, pollerState, pollerVars, streamVars
<1>9. CASE \/ ActivePeerSession \/ (\E r \in Requests : SendRequest(r)) \/ Service
  <2>1. UNCHANGED <<tip, streamVars>>
    BY <1>9, PeerStepsKeepStream
  <2> QED  BY <2>1, <1>1
<1>10. \/ ActivePeerSession \/ (\E r \in Requests : SendRequest(r)) \/ Service
       \/ Grow \/ PollerStart \/ PollerFindLatest \/ PollerCollect \/ PollerSend
       \/ Announce \/ UNCHANGED vars
  BY DEF Next, PollerNext, PollerTask
<1> HIDE DEF FeedInv, StreamInv, AheadInv
<1> QED  BY <1>2, <1>3, <1>4, <1>5, <1>6, <1>7, <1>8, <1>9, <1>10

(***************************************************************************)
(* An announcement feeds the block after the last one fed, and the source  *)
(* has it: the first block of the channel is at its place in the stream    *)
(* (BlockPoller::poll).                                                    *)
(***************************************************************************)
LEMMA AnnounceFeeds ==
  ASSUME FeedInv, Announce
  PROVE  Feed!Next
<1> DEFINE n == Head(block_rx)
           k == Len(announced)
<1>1. /\ block_rx \in Seq(Nat) /\ announced \in Seq(Nat) /\ k \in Nat /\ n \in Nat
      /\ tip \in Nat /\ first \in Nat /\ next \in Nat /\ block_rx # <<>> /\ Len(block_rx) >= 1
  BY HeadTailProperties, LenProperties DEF FeedInv, StreamInv, StreamTypes, Announce
<1>2. InHand \in Seq(Nat) /\ Stream = announced \o block_rx \o InHand
  BY DEF FeedInv, StreamInv, StreamTypes, InHand, Stream
<1>3. /\ Stream \in Seq(Nat) /\ Len(Stream) = k + Len(block_rx) + Len(InHand)
      /\ Len(InHand) \in Nat /\ Len(block_rx) \in Nat
  BY <1>1, <1>2
<1>4. Stream[k + 1] = n
  BY <1>1, <1>2
<1>5. k > 0 => Stream[k] = announced[k]
  BY <1>1, <1>2
<1>6. Len(InHand) = IF poller = "sending" THEN 1 ELSE 0
  BY DEF InHand
<1>7. Len(Stream) = next - first + Len(InHand)
  BY <1>1, <1>6 DEF FeedInv, StreamInv, AnnouncedInOrder
<1>8. \A i \in 1..Len(Stream) : Stream[i] = first + i - 1
  BY DEF FeedInv, StreamInv, AnnouncedInOrder
<1> HIDE DEF n, k
<1>9. n = first + k /\ first + k < next
  BY <1>1, <1>3, <1>4, <1>7, <1>8
<1>10. announced # <<>> => n = announced[k] + 1
  <2>1. announced # <<>> => k > 0
    BY <1>1 DEF k
  <2>2. k > 0 => announced[k] = first + k - 1
    BY <1>1, <1>3, <1>5, <1>8
  <2> QED  BY <1>1, <1>9, <2>1, <2>2
<1>11. n \in 1..tip
  <2>1. first >= 1
    BY <1>1 DEF FeedInv, AheadInv, StreamInv, StreamTypes
  <2>2. next <= tip + 1
    BY DEF FeedInv, AheadInv
  <2> QED  BY <1>1, <1>9, <2>1, <2>2
<1>12. announced' = Append(announced, n) /\ tip' = tip
  BY DEF Announce, n
<1> QED  BY <1>10, <1>11, <1>12 DEF Feed!Next, Feed!Feed, k

(***************************************************************************)
(* The pseudo peer implements the block feed, for every chain, channel     *)
(* size, cache and request load: an announcement is a step of the feed,    *)
(* the growth of the source is one, and all other steps stutter.           *)
(***************************************************************************)
THEOREM PeerImplementsFeed == Spec => FeedRefined
<1>1. ASSUME Init
      PROVE  FeedInv /\ Feed!Init
  <2>1. StreamInv
    BY <1>1, StreamInvInitially
  <2>2. AheadInv /\ Feed!Init
    BY <1>1, HeightAssumption DEF Init, PollerInit, AheadInv, Feed!Init, Heights
  <2> QED  BY <2>1, <2>2 DEF FeedInv
<1>2. FeedInv /\ [Next]_vars => FeedInv'
  BY StreamInvPreserved, AheadInvPreserved DEF FeedInv
<1>3. ASSUME FeedInv, [Next]_vars
      PROVE  [Feed!Next]_<<tip, announced>>
  <2>1. CASE Announce
    BY <1>3, <2>1, AnnounceFeeds
  <2>2. CASE Grow
    BY <2>2 DEF Grow, Feed!Next, Feed!Grow
  <2>3. CASE PollerTask
    BY <2>3 DEF PollerTask, PollerStart, PollerFindLatest, PollerCollect, PollerSend
  <2>4. CASE \/ ActivePeerSession \/ (\E r \in Requests : SendRequest(r)) \/ Service
    BY <2>4, PeerStepsKeepStream DEF streamVars
  <2>5. CASE UNCHANGED vars
    BY <2>5 DEF vars, pollerState
  <2> QED  BY <1>3, <2>1, <2>2, <2>3, <2>4, <2>5 DEF Next, PollerNext
<1> QED  BY <1>1, <1>2, <1>3, PTL DEF Spec, FeedRefined, Feed!Spec
=============================================================================
