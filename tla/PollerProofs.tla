---------------------------- MODULE PollerProofs ----------------------------
(***************************************************************************)
(* Proofs about Poller: for every node, however it reorganises and whatever*)
(* fails, the types hold, the tracker stays what TrackerProofs shows of it *)
(* on its own, it reports one chain as long as it is fed under its         *)
(* contract, and the checkpoint is the watermark between two ticks.        *)
(***************************************************************************)
EXTENDS Poller, TLAPS

P == INSTANCE TrackerContractProofs

\* The two instances of Tracker assume the same.
LEMMA TrackerAssumed ==
  P!BlocksAssumption /\ P!ConfirmationsAssumption /\ P!WindowAssumption
BY TrackerAssumptions DEF T!BlockRef, P!BlockRef

-----------------------------------------------------------------------------
(* The tracker inside the poller. *)

\* observe is the same in both instances.
LEMMA SameObserve ==
  ASSUME NEW b, T!Observe(b)
  PROVE  P!Observe(b)
BY DEF T!Observe, T!StopsAt, T!AttachesTo, T!PulledBack, T!Ripe, T!Raised, T!Trimmed,
       P!Observe, P!StopsAt, P!AttachesTo, P!PulledBack, P!Ripe, P!Raised, P!Trimmed

\* A fresh tracker is one in its initial state.
LEMMA FreshTracker ==
  T!Init => P!AnyInv /\ P!ConfirmsOneAtATime
<1>1. T!Init => P!Init  BY DEF T!Init, T!NoHeight, T!NoUpdate, P!Init, P!NoHeight, P!NoUpdate
<1> QED  BY <1>1, TrackerAssumed, P!AnyInvInit

\* What the tracker is fed is read from the node; a branch to feed is never empty.
BranchInv ==
  /\ branch \in Seq(Blocks) /\ canon \in Chains
  /\ pc \in {"walk", "observe"} => branch # <<>>

TrackerInv == P!AnyInv /\ P!ConfirmsOneAtATime

\* A block read from the node is a header.
LEMMA ReadBlock ==
  ASSUME canon \in Chains, NEW n, Known(n)
  PROVE  BlockRefAt(n) \in Blocks
<1>1. canon \in Seq(Blocks)  BY ChainsAssumption
<1>2. n \in 0..(Len(canon) - 1)  BY DEF Known, NodeHead
<1>3. n + 1 \in 1..Len(canon)  BY <1>1, <1>2
<1> QED  BY <1>1, <1>3 DEF BlockRefAt

\* The branch loses its last block, which goes to the tracker.
LEMMA FrontBlocks ==
  ASSUME branch \in Seq(Blocks), branch # <<>>
  PROVE  Last(branch) \in Blocks /\ Front(branch) \in Seq(Blocks)
<1>1. Len(branch) \in 1..Len(branch)  OBVIOUS
<1> QED  BY <1>1 DEF Last, Front

\* Stopped, the poller starts over with a fresh tracker.
LEMMA StopIsFresh ==
  ASSUME Stop
  PROVE  TrackerInv' /\ branch' = <<>> /\ pc' = "down"
<1>1. (T!Init)'  BY DEF Stop, T!Init, NoHeight
<1>2. (T!Init)' => TrackerInv'  BY FreshTracker, PTL DEF TrackerInv
<1> QED  BY <1>1, <1>2 DEF Stop

LEMMA BranchInvNext ==
  ASSUME BranchInv, [Next]_vars
  PROVE  BranchInv'
<1> USE DEF BranchInv
<1>1. CASE PollHead
  BY <1>1 DEF PollHead, ColdStart, HeadGrew, HeadDidNotGrow, outside
<1>2. CASE FetchNext
  <2>1. BlockRefAt(next) \in Blocks  BY <1>2, ReadBlock DEF FetchNext
  <2> QED  BY <1>2, <2>1 DEF FetchNext, outside
<1>3. CASE RecheckHead
  <2>1. BlockRefAt(head_num) \in Blocks  BY <1>3, ReadBlock DEF RecheckHead
  <2>2. CASE pc' = "save" /\ UNCHANGED branch
    BY <1>3, <2>2 DEF RecheckHead, outside
  <2>3. CASE pc' = "walk" /\ branch' = <<BlockRefAt(head_num)>>
    BY <1>3, <2>1, <2>3 DEF RecheckHead, outside
  <2> QED  BY <1>3, <2>2, <2>3 DEF RecheckHead
<1>4. CASE WalkBack
  <2>1. BlockRefAt(Last(branch).number - 1) \in Blocks  BY <1>4, ReadBlock DEF WalkBack
  <2>2. branch' \in Seq(Blocks) /\ branch' # <<>>  BY <1>4, <2>1 DEF WalkBack
  <2> QED  BY <1>4, <2>2 DEF WalkBack, outside
<1>5. CASE ObserveNext
  <2>1. branch' \in Seq(Blocks)  BY <1>5, FrontBlocks DEF ObserveNext
  <2>2. pc' \in {"walk", "observe"} => branch' # <<>>
    BY <1>5 DEF ObserveNext, AfterObserve
  <2> QED  BY <1>5, <2>1, <2>2 DEF ObserveNext, outside
<1>6. CASE FetchTransfers
  BY <1>6 DEF FetchTransfers, AfterObserve, tick, outside
<1>7. CASE Save \/ Send \/ Sleep
  BY <1>7 DEF Save, Send, Sleep, tick, outside
<1>8. CASE SendRefused \/ Fail \/ Crash
  <2>1. branch' = <<>> /\ pc' = "down" /\ canon' = canon
    BY <1>8, StopIsFresh DEF SendRefused, Fail, Crash, outside
  <2> QED  BY <2>1
<1>9. CASE Resume \/ Receive \/ Hangup \/ NodeMoves
  BY <1>9 DEF Resume, Receive, Hangup, NodeMoves, tick
<1>10. CASE UNCHANGED vars
  BY <1>10 DEF vars, tick, outside
<1> QED
  BY <1>1, <1>2, <1>3, <1>4, <1>5, <1>6, <1>7, <1>8, <1>9, <1>10 DEF Next, Run

\* A step feeds the tracker one block, stops, or leaves the tracker alone.
LEMMA TrackerInvNext ==
  ASSUME TrackerInv, BranchInv, [Next]_vars
  PROVE  TrackerInv'
<1>1. CASE ObserveNext
  <2>1. Last(branch) \in Blocks  BY <1>1, FrontBlocks DEF ObserveNext, BranchInv
  <2>2. P!Observe(Last(branch))  BY <1>1, SameObserve DEF ObserveNext
  <2> QED  BY <2>1, <2>2, TrackerAssumed, P!ObserveKeepsAnyInv DEF TrackerInv
<1>2. CASE SendRefused \/ Fail \/ Crash
  BY <1>2, StopIsFresh DEF SendRefused, Fail, Crash
<1>3. ASSUME UNCHANGED tracker  PROVE TrackerInv'
  BY <1>3 DEF TrackerInv, tracker, P!AnyInv, P!TypeOK, P!ChainLinked, P!Numbered,
     P!HeadRipe, P!AttachesTo, P!ConfirmsOneAtATime
<1>4. CASE PollHead \/ FetchNext \/ RecheckHead \/ WalkBack \/ FetchTransfers
  BY <1>3, <1>4 DEF PollHead, FetchNext, RecheckHead, WalkBack, FetchTransfers
<1>5. CASE Save \/ Send \/ Sleep
  BY <1>3, <1>5 DEF Save, Send, Sleep
<1>6. CASE Resume \/ Receive \/ Hangup \/ NodeMoves
  BY <1>3, <1>6 DEF Resume, Receive, Hangup, NodeMoves
<1>7. CASE UNCHANGED vars
  BY <1>3, <1>7 DEF vars
<1> QED
  BY <1>1, <1>2, <1>4, <1>5, <1>6, <1>7 DEF Next, Run

\* Whatever the node does during a tick and whatever fails, the tracker inside the
\* poller keeps its types and its window, retains one unbroken chain, and confirms
\* at most one block per call, so that `transfers(first, last)' asks for no other.
THEOREM TrackerStaysSound ==
  Spec => [](T!TypeOK /\ T!ChainLinked /\ T!ConfirmsOneAtATime)
<1>1. Init => TrackerInv /\ BranchInv
  BY FreshTracker DEF Init, TrackerInv, BranchInv
<1>2. TrackerInv /\ BranchInv /\ [Next]_vars => TrackerInv' /\ BranchInv'
  BY TrackerInvNext, BranchInvNext
<1>3. TrackerInv => T!TypeOK /\ T!ChainLinked /\ T!ConfirmsOneAtATime
  BY DEF TrackerInv, P!AnyInv, P!TypeOK, P!ChainLinked, P!AttachesTo, P!ConfirmsOneAtATime,
     P!NoHeight, T!TypeOK, T!ChainLinked, T!AttachesTo, T!ConfirmsOneAtATime, T!NoHeight
<1> QED  BY <1>1, <1>2, <1>3, PTL DEF Spec

-----------------------------------------------------------------------------
(* Fed under its contract. *)

UnderContract ==
  \/ \E b \in Blocks : T!FedUnderContract(b) /\ T!Observe(b)
  \/ chain' = <<>>

\* The contract is the same in both instances.
LEMMA SameContract ==
  ASSUME NEW b, T!FedUnderContract(b)
  PROVE  P!FedUnderContract(b)
BY DEF T!FedUnderContract, T!AttachesTo, P!FedUnderContract, P!AttachesTo

\* A fed tracker is never empty.
LEMMA ObserveKeepsBlocks ==
  ASSUME TrackerInv, NEW b \in Blocks, T!Observe(b)
  PROVE  chain' # <<>>
<1>1. P!Observe(b) /\ P!TypeOK  BY SameObserve DEF TrackerInv, P!AnyInv
<1>2. PICK k \in 0..Len(chain) : P!ObserveAt(k, b)  BY <1>1, TrackerAssumed, P!ObserveSplits
<1>3. PICK cut \in 0..k : chain' \in Seq(Blocks) /\ Len(chain') = k + 1 - cut
  BY <1>1, <1>2, TrackerAssumed, P!ChainAfter
<1>4. Len(chain) \in Nat  BY <1>1 DEF P!TypeOK
<1> QED  BY <1>3, <1>4

LEMMA FreshContract ==
  T!Init => P!ContractInv
<1>1. T!Init => P!Init
  BY DEF T!Init, T!NoHeight, T!NoUpdate, P!Init, P!NoHeight, P!NoUpdate
<1> QED  BY <1>1, TrackerAssumed, P!ContractInvInit

\* Whatever the step, if it feeds the tracker it does so under the contract.
LEMMA ContractInvKept ==
  ASSUME TrackerInv, BranchInv, P!ContractInv, [Next]_vars, [UnderContract]_tracker
  PROVE  P!ContractInv'
<1>1. CASE UNCHANGED tracker
  BY <1>1 DEF tracker, P!ContractInv, P!AnyInv, P!TypeOK, P!ChainLinked, P!Numbered, P!HeadRipe,
     P!AttachesTo, P!EmptyMeansFresh, P!WatermarkBelowHead, P!OldestIsNear, P!LinkBelow,
     P!LiveInChain, P!LiveIsOneChain, P!LiveMatchesWatermark
<1>2. ASSUME NEW b \in Blocks, T!FedUnderContract(b), T!Observe(b)
      PROVE  P!ContractInv'
  BY <1>2, SameContract, SameObserve, TrackerAssumed, P!ObserveKeepsContractInv
<1>3. ASSUME Stop  PROVE P!ContractInv'
  <2>1. (T!Init)'  BY <1>3 DEF Stop, T!Init, NoHeight
  <2>2. (T!Init)' => P!ContractInv'  BY FreshContract, PTL
  <2> QED  BY <2>1, <2>2
<1>4. CASE ObserveNext
  <2>1. Last(branch) \in Blocks  BY <1>4, FrontBlocks DEF ObserveNext, BranchInv
  <2>2. chain' # <<>>  BY <1>4, <2>1, ObserveKeepsBlocks DEF ObserveNext
  <2> QED  BY <1>1, <1>2, <2>2 DEF UnderContract
<1>5. CASE SendRefused \/ Fail \/ Crash
  BY <1>3, <1>5 DEF SendRefused, Fail, Crash
<1>6. CASE PollHead \/ FetchNext \/ RecheckHead \/ WalkBack \/ FetchTransfers \/ Save \/ Send \/ Sleep
  BY <1>1, <1>6 DEF PollHead, FetchNext, RecheckHead, WalkBack, FetchTransfers, Save, Send, Sleep
<1>7. CASE Resume \/ Receive \/ Hangup \/ NodeMoves \/ UNCHANGED vars
  BY <1>1, <1>7 DEF Resume, Receive, Hangup, NodeMoves, vars
<1> QED
  BY <1>4, <1>5, <1>6, <1>7 DEF Next, Run

\* As long as the poller keeps the tracker's contract, what it reports confirmed and
\* not orphaned since its start is one chain up to the watermark, through all
\* reorgs, failures and restarts: the contract is all the node can break.
THEOREM ContractSuffices ==
  Spec /\ FeedsUnderContract => [](T!LiveIsOneChain /\ T!LiveMatchesWatermark)
<1> DEFINE I == TrackerInv /\ BranchInv /\ P!ContractInv
<1>1. Init => I
  <2>1. Init => T!Init  BY DEF Init
  <2>2. Init => BranchInv  BY DEF Init, BranchInv
  <2> QED  BY <2>1, <2>2, FreshTracker, FreshContract DEF TrackerInv
<1>2. I /\ [Next]_vars /\ [UnderContract]_tracker => I'
  BY TrackerInvNext, BranchInvNext, ContractInvKept
<1>3. I => T!LiveIsOneChain /\ T!LiveMatchesWatermark
  BY DEF P!ContractInv, P!LiveIsOneChain, P!LiveMatchesWatermark, T!LiveIsOneChain,
     T!LiveMatchesWatermark
<1>4. FeedsUnderContract => [][UnderContract]_tracker
  BY PTL DEF FeedsUnderContract, UnderContract
<1> QED  BY <1>1, <1>2, <1>3, <1>4, PTL DEF Spec

-----------------------------------------------------------------------------
(* The types. *)

TypeInv == TypeOK /\ TrackerInv /\ BranchInv

\* The types of the tracker, in the terms of Poller.
LEMMA TrackerTypes ==
  ASSUME TrackerInv
  PROVE  /\ T!TypeOK
         /\ chain \in Seq(Blocks) /\ update.confirmed \subseteq Blocks /\ update.reorged \subseteq Blocks
         /\ confirmed_through \in Nat \cup {NoHeight}
<1>1. P!TypeOK  BY DEF TrackerInv, P!AnyInv
<1> QED
  BY <1>1 DEF P!TypeOK, P!NoHeight, T!TypeOK, T!NoHeight, NoHeight

\* Chains have a head, and headers a height.
LEMMA Heights ==
  ASSUME canon \in Chains
  PROVE  canon \in Seq(Blocks) /\ NodeHead \in Nat /\ \A b \in Blocks : b.number \in Nat
<1>1. canon \in Seq(Blocks) /\ canon # <<>>  BY ChainsAssumption
<1>2. Len(canon) \in Nat /\ Len(canon) # 0  BY <1>1
<1>3. \A b \in Blocks : b.number \in Nat  BY TrackerAssumptions DEF T!BlockRef
<1> QED  BY <1>1, <1>2, <1>3 DEF NodeHead

\* The transfers of a range are those of blocks of the chain.
LEMMA TransfersAreMessages ==
  ASSUME canon \in Chains, NEW first \in Nat, NEW last \in Nat
  PROVE  LET found == Transfers(first, last) IN
         [i \in 1..Len(found) |-> Confirmed(found[i])] \in Seq(IndexerMessage)
<1> DEFINE upto == IF last <= NodeHead THEN last + 1 ELSE NodeHead + 1
           found == SubSeq(canon, first + 1, upto)
<1>1. canon \in Seq(Blocks) /\ NodeHead \in Nat /\ Len(canon) = NodeHead + 1
  BY Heights DEF NodeHead
<1>2. upto \in Nat /\ upto <= Len(canon)  BY <1>1
<1> HIDE DEF upto
<1>3. found \in Seq(Blocks)
  <2>1. \A i \in (first + 1)..upto : canon[i] \in Blocks  BY <1>1, <1>2
  <2>2. first + 1 \in Int /\ upto \in Int  BY <1>2
  <2> QED  BY <2>1, <2>2, <1>1
<1>4. \A i \in 1..Len(found) : Confirmed(found[i]) \in IndexerMessage
  BY <1>3 DEF Confirmed, IndexerMessage
<1>5. Transfers(first, last) = found  BY DEF Transfers, upto
<1> HIDE DEF found
<1> QED  BY <1>3, <1>4, <1>5

\* What is in the channel or still to be sent, or confirmed, are blocks.
LEMMA InFlightBlocks ==
  InFlight \subseteq Blocks
BY DEF InFlight

\* An empty channel, or no messages.
LEMMA NoMessages ==
  <<>> \in Seq(IndexerMessage) /\ Len(<<>>) <= ChannelSize
BY ChannelSizeAssumption

\* A stop resets the task; the rest keeps its types.
LEMMA StopTypes ==
  ASSUME TypeInv, Stop
  PROVE  /\ T!TypeOK' /\ pc' = "down" /\ msgs' = <<>> /\ branch' = <<>>
         /\ start_block' \in Nat /\ next' \in Nat /\ head_num' \in Nat
         /\ last_saved' = NoHeight
<1>1. TrackerInv'  BY StopIsFresh
<1>2. TrackerInv' => T!TypeOK'  BY TrackerTypes, PTL
<1> QED  BY <1>1, <1>2, StartBlockAssumption DEF Stop

LEMMA TypeOKNext ==
  ASSUME TypeInv, [Next]_vars
  PROVE  TypeOK'
<1> USE DEF TypeInv
<1>1. T!TypeOK' /\ canon' \in Chains /\ branch' \in Seq(Blocks)
  <2>1. TrackerInv' /\ BranchInv'  BY TrackerInvNext, BranchInvNext
  <2>2. TrackerInv' => T!TypeOK'  BY TrackerTypes, PTL
  <2> QED  BY <2>1, <2>2 DEF BranchInv
<1>2. CASE PollHead
  <2>1. NodeHead \in Nat  BY Heights DEF BranchInv
  <2>2. next' \in Nat
    <3>1. CASE ColdStart  BY <3>1 DEF ColdStart, TypeOK
    <3>2. CASE HeadGrew
      <4>1. chain \in Seq(Blocks) /\ chain # <<>>  BY <3>2, TrackerTypes DEF HeadGrew
      <4>2. Last(chain) \in Blocks  BY <4>1 DEF Last
      <4>3. Last(chain).number \in Nat  BY <4>2, Heights DEF BranchInv
      <4> QED  BY <3>2, <4>3 DEF HeadGrew
    <3>3. CASE HeadDidNotGrow  BY <3>3, <2>1 DEF HeadDidNotGrow
    <3> QED  BY <1>2, <3>1, <3>2, <3>3 DEF PollHead
  <2>3. pc' \in {"fetch", "save", "recheck"}
    BY <1>2 DEF PollHead, ColdStart, HeadGrew, HeadDidNotGrow
  <2> QED  BY <1>1, <1>2, <2>1, <2>2, <2>3 DEF PollHead, TypeOK, config, outside
<1>3. CASE FetchNext
  BY <1>1, <1>3 DEF FetchNext, TypeOK, config, outside
<1>4. CASE RecheckHead
  BY <1>1, <1>4 DEF RecheckHead, TypeOK, config, outside
<1>5. CASE WalkBack
  BY <1>1, <1>5 DEF WalkBack, TypeOK, config, outside
<1>6. CASE ObserveNext
  <2>1. update'.reorged \subseteq Blocks
    <3>1. TrackerInv'  BY TrackerInvNext
    <3>2. TrackerInv' => (update.reorged \subseteq Blocks)'  BY TrackerTypes, PTL
    <3> QED  BY <3>1, <3>2
  <2>2. Reorged(update'.reorged) \in IndexerMessage  BY <2>1 DEF Reorged, IndexerMessage
  <2>3. msgs' \in Seq(IndexerMessage)  BY <1>6, <2>2 DEF ObserveNext, TypeOK
  <2>4. pc' \in {"observe", "fetch", "save", "transfers"}
    BY <1>6 DEF ObserveNext, AfterObserve
  <2> QED  BY <1>1, <1>6, <2>3, <2>4 DEF ObserveNext, TypeOK, config, outside
<1>7. CASE FetchTransfers
  <2>1. PICK first \in update.confirmed, last \in update.confirmed :
          LET found == Transfers(first.number, last.number) IN
          msgs' = msgs \o [i \in 1..Len(found) |-> Confirmed(found[i])]
    BY <1>7 DEF FetchTransfers
  <2>2. first.number \in Nat /\ last.number \in Nat
    BY TrackerTypes, Heights DEF BranchInv
  <2> DEFINE more == [i \in 1..Len(Transfers(first.number, last.number)) |->
                        Confirmed(Transfers(first.number, last.number)[i])]
  <2>3. more \in Seq(IndexerMessage)  BY <2>2, TransfersAreMessages DEF BranchInv
  <2>4. msgs' = msgs \o more  BY <2>1
  <2> HIDE DEF more
  <2>5. msgs' \in Seq(IndexerMessage)  BY <2>3, <2>4 DEF TypeOK
  <2>6. pc' \in {"observe", "fetch", "save"}  BY <1>7 DEF FetchTransfers, AfterObserve
  <2> QED  BY <1>1, <1>7, <2>5, <2>6 DEF FetchTransfers, TypeOK, tick, config, outside
<1>8. CASE Save
  <2>1. Unsaved => confirmed_through \in Nat  BY TrackerTypes DEF Unsaved
  <2> QED  BY <1>1, <1>8, <2>1 DEF Save, TypeOK, tick
<1>9. CASE Send
  <2>1. Head(msgs) \in IndexerMessage /\ Tail(msgs) \in Seq(IndexerMessage)
    BY <1>9 DEF Send, TypeOK
  <2>2. /\ Append(channel, Head(msgs)) \in Seq(IndexerMessage)
        /\ Len(Append(channel, Head(msgs))) = Len(channel) + 1 /\ Len(channel) \in Nat
    BY <2>1 DEF TypeOK
  <2>3. channel' \in Seq(IndexerMessage) /\ Len(channel') <= ChannelSize
    BY <1>9, <2>2, ChannelSizeAssumption DEF Send
  <2> QED  BY <1>1, <1>9, <2>1, <2>3 DEF Send, TypeOK, tick, config
<1>10. CASE Sleep
  BY <1>1, <1>10 DEF Sleep, TypeOK, tick, config, outside
<1>11. CASE SendRefused
  <2>1. Stop /\ lost' = lost \cup InFlight  BY <1>11 DEF SendRefused
  <2> QED
    BY <1>1, <1>11, <2>1, StopTypes, InFlightBlocks, NoMessages DEF SendRefused, TypeOK, outside
<1>12. CASE Fail
  <2>1. Stop  BY <1>12 DEF Fail
  <2> QED  BY <1>1, <1>12, <2>1, StopTypes, NoMessages DEF Fail, TypeOK, outside
<1>13. CASE Crash
  <2>1. Stop /\ lost' = lost \cup InFlight /\ channel' = <<>>  BY <1>13 DEF Crash
  <2> QED
    BY <1>1, <1>13, <2>1, StopTypes, InFlightBlocks, NoMessages DEF Crash, TypeOK
<1>14. CASE Resume
  BY <1>1, <1>14, StartBlockAssumption DEF Resume, ResumeAt, TypeOK, tick, NoHeight, T!NoHeight
<1>15. CASE Receive
  <2>1. Head(channel) \in IndexerMessage /\ Tail(channel) \in Seq(IndexerMessage)
        /\ Len(Tail(channel)) = Len(channel) - 1 /\ Len(channel) \in Nat
    BY <1>15 DEF Receive, TypeOK
  <2>2. Applied(delivered, Head(channel)) \subseteq Blocks
    BY <2>1 DEF Applied, IndexerMessage, TypeOK
  <2>3. channel' \in Seq(IndexerMessage) /\ Len(channel') <= ChannelSize
    BY <1>15, <2>1, ChannelSizeAssumption DEF Receive, TypeOK
  <2> QED  BY <1>1, <1>15, <2>2, <2>3 DEF Receive, TypeOK, tick, config
<1>16. CASE Hangup
  BY <1>1, <1>16, NoMessages DEF Hangup, TypeOK, tick, config
<1>17. CASE NodeMoves
  BY <1>1, <1>17 DEF NodeMoves, TypeOK, tick, config
<1>18. CASE UNCHANGED vars
  BY <1>1, <1>18 DEF vars, TypeOK, tick, config, outside
<1> QED
  BY <1>2, <1>3, <1>4, <1>5, <1>6, <1>7, <1>8, <1>9, <1>10, <1>11, <1>12, <1>13, <1>14,
     <1>15, <1>16, <1>17, <1>18 DEF Next, Run

LEMMA TypesInit ==
  Init => TypeInv
<1> SUFFICES ASSUME Init PROVE TypeInv  OBVIOUS
<1>1. TrackerInv /\ BranchInv  BY FreshTracker DEF Init, TrackerInv, BranchInv
<1>2. T!TypeOK  BY <1>1, TrackerTypes
<1>3. branch \in Seq(Blocks) /\ canon \in Chains  BY <1>1 DEF BranchInv
<1>4. msgs \in Seq(IndexerMessage) /\ channel \in Seq(IndexerMessage) /\ Len(channel) <= ChannelSize
  BY NoMessages DEF Init
<1>5. TypeOK
  BY <1>2, <1>3, <1>4, StartBlockAssumption DEF Init, TypeOK
<1> QED  BY <1>1, <1>5 DEF TypeInv

LEMMA TypesNext ==
  TypeInv /\ [Next]_vars => TypeInv'
BY TypeOKNext, TrackerInvNext, BranchInvNext DEF TypeInv

\* The types, and a channel never above its capacity: what is read from any node, in
\* any order, and passed on makes well-formed messages.
THEOREM TypeCorrect ==
  Spec => []TypeOK
<1>1. TypeInv => TypeOK  BY DEF TypeInv
<1> QED  BY <1>1, TypesInit, TypesNext, PTL DEF Spec

-----------------------------------------------------------------------------
(* The checkpoint. *)

\* last_saved is what a durable checkpoint holds while the poller runs; between two
\* ticks it is the watermark; a stopped poller has no watermark.
SavedInv ==
  /\ store = "durable" /\ pc # "down" => last_saved = checkpoint
  /\ pc \in {"send", "poll"} /\ confirmed_through # NoHeight => last_saved = confirmed_through
  /\ pc = "down" => confirmed_through = NoHeight

LEMMA SavedInvNext ==
  ASSUME SavedInv, [Next]_vars
  PROVE  SavedInv'
<1> USE DEF SavedInv
<1>1. CASE PollHead
  BY <1>1 DEF PollHead, ColdStart, HeadGrew, HeadDidNotGrow, tracker, config, outside
<1>2. CASE FetchNext \/ RecheckHead \/ WalkBack
  BY <1>2 DEF FetchNext, RecheckHead, WalkBack, tracker, config, outside
<1>3. CASE ObserveNext
  BY <1>3 DEF ObserveNext, AfterObserve, config, outside
<1>4. CASE FetchTransfers
  BY <1>4 DEF FetchTransfers, AfterObserve, tracker, config, outside
<1>5. CASE Save
  BY <1>5 DEF Save, Unsaved, tracker
<1>6. CASE Send \/ Sleep
  BY <1>6 DEF Send, Sleep, tracker, config, outside
<1>7. CASE SendRefused \/ Fail \/ Crash
  BY <1>7 DEF SendRefused, Fail, Crash, Stop
<1>8. CASE Resume
  BY <1>8 DEF Resume, tracker
<1>9. CASE Receive \/ Hangup \/ NodeMoves
  BY <1>9 DEF Receive, Hangup, NodeMoves, tracker, config
<1>10. CASE UNCHANGED vars
  BY <1>10 DEF vars, tracker, config, outside
<1> QED
  BY <1>1, <1>2, <1>3, <1>4, <1>5, <1>6, <1>7, <1>8, <1>9, <1>10 DEF Next, Run

\* Between two ticks a durable checkpoint holds the watermark, one that a reorg has
\* pulled down included (advance saves on any change, not only on progress).
THEOREM CheckpointStaysWatermark ==
  Spec => []CheckpointIsWatermark
<1>1. Init => SavedInv
  BY DEF Init, T!Init, SavedInv, NoHeight
<1>2. SavedInv /\ [Next]_vars => SavedInv'
  BY SavedInvNext
<1>3. SavedInv => CheckpointIsWatermark
  BY DEF SavedInv, CheckpointIsWatermark
<1> QED  BY <1>1, <1>2, <1>3, PTL DEF Spec

-----------------------------------------------------------------------------
(* The checkpoint only moves up. *)

MidTick == pc \in {"fetch", "recheck", "walk", "observe", "transfers", "save"}

\* The watermark has been saved, or there is none.
Unmoved == confirmed_through = NoHeight \/ confirmed_through = last_saved

\* N blocks lie on top of `height', if it is one, up to `head'.
Buried(height, head) == height # NoHeight => height + Confirmations <= head

\* How far a tick is, and what it will have reached at its end: the watermark is
\* either the one saved before or N below the head the tick was for, and what was
\* saved before is N below that head too.
ReachInv ==
  /\ Buried(checkpoint, NodeHead) /\ Buried(confirmed_through, NodeHead)
  /\ \A i \in 1..Len(branch) : branch[i].number <= NodeHead
  /\ MidTick => head_num <= NodeHead /\ Buried(checkpoint, head_num)
  /\ pc = "fetch" => next <= head_num
  /\ pc = "recheck" => next = head_num /\ Unmoved
  /\ pc \in {"walk", "observe", "transfers"} =>
       /\ next <= head_num + 1
       /\ IF branch # <<>> THEN branch[1].number = next - 1
                           ELSE confirmed_through >= next - 1 - Confirmations
  /\ pc = "save" => Unmoved \/ confirmed_through >= head_num - Confirmations

AdvanceInv == TypeInv /\ SavedInv /\ ReachInv

\* The block read at a height has that height.
LEMMA ReadNumber ==
  ASSUME canon \in Chains, NEW n, Known(n)
  PROVE  BlockRefAt(n).number = n /\ n \in Nat /\ n <= NodeHead
<1>1. canon \in Seq(Blocks) /\ \A i \in 1..Len(canon) : canon[i].number = i - 1
  BY ChainsAssumption
<1>2. n \in 0..(Len(canon) - 1) /\ Len(canon) \in Nat  BY <1>1 DEF Known, NodeHead
<1>3. n + 1 \in 1..Len(canon)  BY <1>2
<1>4. canon[n + 1].number = (n + 1) - 1  BY <1>1, <1>3
<1> QED  BY <1>2, <1>4 DEF BlockRefAt, NodeHead

\* A block that is fed leaves the watermark N below it, or where it was at most.
LEMMA MarkAfter ==
  ASSUME TypeInv, NEW b \in Blocks, T!Observe(b)
  PROVE  /\ confirmed_through' \in Int /\ b.number \in Nat
         /\ confirmed_through' >= b.number - Confirmations
         /\ confirmed_through' <= confirmed_through \/ confirmed_through' = b.number - Confirmations
<1>1. P!TypeOK /\ P!Observe(b)  BY SameObserve DEF TypeInv, TrackerInv, P!AnyInv
<1>2. PICK k \in 0..Len(chain) : P!ObserveAt(k, b)  BY <1>1, TrackerAssumed, P!ObserveSplits
<1>3. /\ P!Mark(k) \in Int /\ P!Mark(k) <= confirmed_through
      /\ confirmed_through' = P!Raised(P!Mark(k), b.number - Confirmations)
  BY <1>1, <1>2, TrackerAssumed, P!MarkFacts DEF P!ObserveAt
<1>4. b.number \in Nat /\ Confirmations \in Nat
  BY TrackerAssumptions DEF T!BlockRef
<1> QED  BY <1>3, <1>4 DEF P!Raised

\* Without the last of its blocks, a branch has the first one still.
LEMMA FrontFacts ==
  ASSUME branch \in Seq(Blocks), branch # <<>>
  PROVE  /\ Len(Front(branch)) = Len(branch) - 1 /\ Len(branch) \in Nat /\ Len(branch) > 0
         /\ \A i \in 1..Len(Front(branch)) : Front(branch)[i] = branch[i]
         /\ Last(branch) = branch[Len(branch)]
         /\ Front(branch) = <<>> => Last(branch) = branch[1]
         /\ Front(branch) # <<>> => Front(branch)[1] = branch[1]
<1>1. Len(branch) \in Nat /\ Len(branch) > 0  OBVIOUS
<1>2. /\ Len(Front(branch)) = Len(branch) - 1
      /\ \A i \in 1..Len(Front(branch)) : Front(branch)[i] = branch[i]
  <2>1. \A k \in 0..Len(branch) : /\ Len(SubSeq(branch, 1, k)) = k
                                 /\ \A i \in 1..k : SubSeq(branch, 1, k)[i] = branch[i]
    OBVIOUS
  <2>2. Len(branch) - 1 \in 0..Len(branch)  BY <1>1
  <2> QED  BY <2>1, <2>2 DEF Front
<1>3. Len(branch) = 1 => branch[Len(branch)] = branch[1]  OBVIOUS
<1>4. Front(branch) \in Seq(Blocks)  BY FrontBlocks
<1>5. Front(branch) = <<>> => Len(branch) = 1  BY <1>1, <1>2
<1>6. Front(branch) # <<>> => 1 \in 1..Len(Front(branch))  BY <1>4
<1> QED  BY <1>1, <1>2, <1>3, <1>5, <1>6 DEF Last

\* Where the task goes after a block, and after its transfers.
LEMMA ReachAfter ==
  ASSUME TypeInv, ReachInv, NEW rest \in Seq(Blocks), branch' = rest,
         UNCHANGED <<next, head_num>>, confirmed_through' \in Int,
         pc \in {"walk", "observe", "transfers"},
         IF rest # <<>> THEN rest[1].number = next - 1
                        ELSE confirmed_through' >= next - 1 - Confirmations,
         pc' = AfterObserve(rest) \/ pc' = "transfers"
  PROVE  /\ pc' = "fetch" => next' <= head_num'
         /\ pc' # "recheck"
         /\ pc' \in {"walk", "observe", "transfers"} =>
              /\ next' <= head_num' + 1
              /\ IF branch' # <<>> THEN branch'[1].number = next' - 1
                                   ELSE confirmed_through' >= next' - 1 - Confirmations
         /\ pc' = "save" => confirmed_through' >= head_num' - Confirmations
<1>1. next <= head_num + 1 /\ next \in Nat /\ head_num \in Nat
  BY DEF ReachInv, TypeInv, TypeOK
<1>2. pc' \in {"observe", "fetch", "save", "transfers"}
  BY DEF AfterObserve
<1>3. pc' = "fetch" => next <= head_num
  BY DEF AfterObserve
<1>4. pc' = "save" => rest = <<>> /\ ~(next <= head_num)
  BY DEF AfterObserve
<1>5. pc' = "save" => confirmed_through' >= head_num - Confirmations
  <2> SUFFICES ASSUME pc' = "save" PROVE confirmed_through' >= head_num - Confirmations
    OBVIOUS
  <2>1. next = head_num + 1 /\ confirmed_through' >= next - 1 - Confirmations
    BY <1>1, <1>4
  <2> QED  BY <1>1, <2>1
<1> QED  BY <1>1, <1>2, <1>3, <1>5

LEMMA ReachInvNext ==
  ASSUME "shrink" \notin Faults, AdvanceInv, [Next]_vars
  PROVE  ReachInv'
<1> USE DEF AdvanceInv
<1>1. /\ canon \in Chains /\ branch \in Seq(Blocks) /\ NodeHead \in Nat
      /\ Confirmations \in Nat /\ next \in Nat /\ head_num \in Nat
      /\ confirmed_through \in Nat \cup {NoHeight}
      /\ checkpoint \in Nat \cup {NoHeight} /\ last_saved \in Nat \cup {NoHeight}
  BY TrackerTypes, Heights, TrackerAssumptions DEF TypeInv, TypeOK, BranchInv
<1>2. \A b \in Blocks : b.number \in Nat
  BY TrackerAssumptions DEF T!BlockRef
<1>3. canon' = canon => NodeHead' = NodeHead
  BY DEF NodeHead
<1>4. CASE PollHead
  <2>1. MidTick' /\ head_num' = NodeHead /\ NodeHead' = NodeHead
    BY <1>3, <1>4 DEF PollHead, ColdStart, HeadGrew, HeadDidNotGrow, MidTick, outside
  <2>2. UNCHANGED <<checkpoint, confirmed_through, branch, last_saved>>
    BY <1>4 DEF PollHead, tracker, config, outside
  <2>3. Unmoved
    BY <1>4 DEF SavedInv, PollHead, Unmoved
  <2>4. pc' \in {"fetch", "save", "recheck"} /\ (pc' = "recheck" => next' = NodeHead)
    BY <1>4 DEF PollHead, ColdStart, HeadGrew, HeadDidNotGrow
  <2>5. pc' = "fetch" => next' <= NodeHead
    <3>1. CASE ColdStart  BY <3>1 DEF ColdStart
    <3>2. CASE HeadGrew
      <4>1. Last(chain).number \in Nat
        <5>1. chain \in Seq(Blocks) /\ chain # <<>>  BY <3>2, TrackerTypes DEF HeadGrew, TypeInv
        <5>2. Last(chain) \in Blocks  BY <5>1 DEF Last
        <5> QED  BY <5>2, <1>2
      <4> QED  BY <1>1, <3>2, <4>1 DEF HeadGrew
    <3>3. CASE HeadDidNotGrow  BY <3>3 DEF HeadDidNotGrow
    <3> QED  BY <1>4, <3>1, <3>2, <3>3 DEF PollHead
  <2> QED
    BY <1>1, <2>1, <2>2, <2>3, <2>4, <2>5 DEF ReachInv, Buried, Unmoved
<1>5. CASE FetchNext
  <2>1. /\ pc' = "walk" /\ branch' = <<BlockRefAt(next)>> /\ next' = next + 1
        /\ UNCHANGED <<checkpoint, confirmed_through, head_num, last_saved, canon>>
    BY <1>5 DEF FetchNext, tracker, config, outside
  <2>2. MidTick /\ next <= head_num  BY <1>5 DEF FetchNext, MidTick, ReachInv
  <2>3. BlockRefAt(next).number = next /\ next <= NodeHead
    BY <1>1, <1>5, ReadNumber DEF FetchNext
  <2>4. branch' # <<>> /\ Len(branch') = 1 /\ branch'[1].number = next  BY <2>1, <2>3
  <2> QED  BY <1>1, <1>3, <2>1, <2>2, <2>3, <2>4 DEF ReachInv, Buried
<1>6. CASE RecheckHead
  <2>1. /\ next' = next + 1 /\ next = head_num /\ Unmoved /\ MidTick
        /\ UNCHANGED <<checkpoint, confirmed_through, head_num, last_saved, canon>>
    BY <1>6 DEF RecheckHead, tracker, config, outside, MidTick, ReachInv
  <2>2. CASE pc' = "save" /\ UNCHANGED branch
    BY <1>1, <1>3, <2>1, <2>2 DEF ReachInv, Buried, Unmoved
  <2>3. CASE pc' = "walk" /\ branch' = <<BlockRefAt(head_num)>>
    <3>1. BlockRefAt(head_num).number = head_num /\ head_num <= NodeHead
      BY <1>1, <1>6, ReadNumber DEF RecheckHead
    <3>2. branch' # <<>> /\ Len(branch') = 1 /\ branch'[1].number = head_num  BY <2>3, <3>1
    <3> QED  BY <1>1, <1>3, <2>1, <2>3, <3>1, <3>2 DEF ReachInv, Buried
  <2> QED  BY <1>6, <2>2, <2>3 DEF RecheckHead
<1>7. CASE WalkBack
  <2> DEFINE found == BlockRefAt(Last(branch).number - 1)
  <2>1. /\ pc' = pc /\ pc = "walk" /\ branch' = Append(branch, found) /\ MidTick /\ branch # <<>>
        /\ UNCHANGED <<checkpoint, confirmed_through, head_num, next, last_saved, canon>>
    BY <1>7 DEF WalkBack, tracker, config, outside, MidTick, TypeInv, BranchInv
  <2>2. found \in Blocks /\ found.number <= NodeHead
    <3>1. Known(Last(branch).number - 1)  BY <1>7 DEF WalkBack
    <3> QED  BY <1>1, <3>1, ReadBlock, ReadNumber
  <2> HIDE DEF found
  <2>3. /\ branch' # <<>> /\ branch'[1] = branch[1] /\ Len(branch') = Len(branch) + 1
        /\ \A i \in 1..Len(branch) : branch'[i] = branch[i]
        /\ branch'[Len(branch) + 1] = found /\ Len(branch) \in Nat
    BY <1>1, <2>1, <2>2
  <2>4. \A i \in 1..Len(branch') : branch'[i].number <= NodeHead
    <3> TAKE i \in 1..Len(branch')
    <3>1. CASE i = Len(branch) + 1  BY <2>2, <2>3, <3>1
    <3>2. CASE i \in 1..Len(branch)  BY <2>3, <3>2 DEF ReachInv
    <3> QED  BY <2>3, <3>1, <3>2
  <2> QED  BY <1>1, <1>3, <2>1, <2>3, <2>4 DEF ReachInv, Buried, MidTick
<1>8. CASE ObserveNext
  <2> DEFINE fed == Last(branch)
             rest == Front(branch)
  <2>1. /\ T!Observe(fed) /\ branch' = rest /\ MidTick /\ branch # <<>>
        /\ pc \in {"walk", "observe", "transfers"}
        /\ pc' = AfterObserve(rest) \/ pc' = "transfers"
        /\ UNCHANGED <<checkpoint, head_num, next, last_saved, canon>>
    BY <1>8 DEF ObserveNext, config, outside, MidTick, TypeInv, BranchInv
  <2>2. fed \in Blocks /\ rest \in Seq(Blocks)  BY <1>1, <2>1, FrontBlocks
  <2>3. /\ Len(rest) = Len(branch) - 1 /\ Len(branch) \in Nat /\ Len(branch) > 0
        /\ \A i \in 1..Len(rest) : rest[i] = branch[i]
        /\ fed = branch[Len(branch)] /\ (rest = <<>> => fed = branch[1])
        /\ (rest # <<>> => rest[1] = branch[1])
    BY <1>1, <2>1, FrontFacts
  <2> HIDE DEF fed, rest
  <2>4. /\ confirmed_through' \in Int /\ fed.number \in Nat
        /\ confirmed_through' >= fed.number - Confirmations
        /\ confirmed_through' <= confirmed_through \/ confirmed_through' = fed.number - Confirmations
    BY <2>1, <2>2, MarkAfter
  <2>5. branch[1].number = next - 1 /\ fed.number <= NodeHead
    <3>1. branch[1].number = next - 1  BY <2>1 DEF ReachInv
    <3>2. Len(branch) \in 1..Len(branch)  BY <2>3
    <3> QED  BY <2>3, <3>1, <3>2 DEF ReachInv
  <2>6. Buried(confirmed_through', NodeHead)
    <3>1. confirmed_through' \in Nat \cup {NoHeight}
      <4>1. TrackerInv'  BY TrackerInvNext DEF TypeInv
      <4>2. TrackerInv' => (confirmed_through \in Nat \cup {NoHeight})'  BY TrackerTypes, PTL
      <4> QED  BY <4>1, <4>2
    <3>2. Buried(confirmed_through, NodeHead)  BY DEF ReachInv
    <3> SUFFICES ASSUME confirmed_through' # NoHeight
                 PROVE  confirmed_through' + Confirmations <= NodeHead
      BY DEF Buried
    <3>3. confirmed_through' \in Nat  BY <3>1
    <3>4. CASE confirmed_through' = fed.number - Confirmations  BY <1>1, <2>4, <2>5, <3>4
    <3>5. CASE confirmed_through' <= confirmed_through
      <4>1. confirmed_through \in Nat /\ confirmed_through # NoHeight
        BY <1>1, <3>3, <3>5 DEF NoHeight, T!NoHeight
      <4>2. confirmed_through + Confirmations <= NodeHead  BY <3>2, <4>1 DEF Buried
      <4>3. \A x, y, n, h \in Nat : x <= y /\ y + n <= h => x + n <= h  OBVIOUS
      <4> QED  BY <1>1, <3>3, <3>5, <4>1, <4>2, <4>3
    <3> QED  BY <2>4, <3>4, <3>5
  <2>7. IF rest # <<>> THEN rest[1].number = next - 1
                       ELSE confirmed_through' >= next - 1 - Confirmations
    BY <2>3, <2>4, <2>5
  <2>8. /\ pc' = "fetch" => next' <= head_num'
        /\ pc' # "recheck"
        /\ pc' \in {"walk", "observe", "transfers"} =>
             /\ next' <= head_num' + 1
             /\ IF branch' # <<>> THEN branch'[1].number = next' - 1
                                  ELSE confirmed_through' >= next' - 1 - Confirmations
        /\ pc' = "save" => confirmed_through' >= head_num' - Confirmations
    BY <2>1, <2>2, <2>4, <2>7, ReachAfter
  <2>9. \A i \in 1..Len(branch') : branch'[i].number <= NodeHead
    <3> TAKE i \in 1..Len(branch')
    <3>1. i \in 1..Len(branch) /\ branch'[i] = branch[i]  BY <2>1, <2>3
    <3> QED  BY <3>1 DEF ReachInv
  <2>10. Buried(checkpoint, NodeHead) /\ head_num <= NodeHead /\ Buried(checkpoint, head_num)
    BY <2>1 DEF ReachInv
  <2> QED  BY <1>3, <2>1, <2>6, <2>8, <2>9, <2>10 DEF ReachInv, Buried
<1>9. CASE FetchTransfers
  <2>1. /\ pc = "transfers" /\ pc' = AfterObserve(branch) /\ MidTick
        /\ UNCHANGED <<checkpoint, confirmed_through, branch, head_num, next, last_saved, canon>>
    BY <1>9 DEF FetchTransfers, tracker, tick, config, outside, MidTick
  <2>2. IF branch # <<>> THEN branch[1].number = next - 1
                         ELSE confirmed_through' >= next - 1 - Confirmations
    BY <2>1 DEF ReachInv
  <2>3. confirmed_through' \in Int  BY <1>1, <2>1 DEF NoHeight, T!NoHeight
  <2>4. /\ pc' = "fetch" => next' <= head_num'
        /\ pc' # "recheck"
        /\ pc' \in {"walk", "observe", "transfers"} =>
             /\ next' <= head_num' + 1
             /\ IF branch' # <<>> THEN branch'[1].number = next' - 1
                                  ELSE confirmed_through' >= next' - 1 - Confirmations
        /\ pc' = "save" => confirmed_through' >= head_num' - Confirmations
    BY <1>1, <2>1, <2>2, <2>3, ReachAfter
  <2> QED  BY <1>3, <2>1, <2>4 DEF ReachInv, Buried
<1>10. CASE Save
  <2>1. /\ pc' = "send" /\ (checkpoint' = checkpoint \/ checkpoint' = confirmed_through)
        /\ UNCHANGED <<confirmed_through, branch, canon>>
    BY <1>10 DEF Save, tracker, tick
  <2> QED  BY <1>3, <2>1 DEF ReachInv, Buried, MidTick
<1>11. CASE Send \/ Sleep
  <2>1. pc' \in {"send", "poll"} /\ UNCHANGED <<checkpoint, confirmed_through, branch, canon>>
    BY <1>11 DEF Send, Sleep, tracker, tick, outside
  <2> QED  BY <1>3, <2>1 DEF ReachInv, Buried, MidTick
<1>12. CASE SendRefused \/ Fail \/ Crash
  <2>1. Stop /\ UNCHANGED <<checkpoint, canon>>
    BY <1>12 DEF SendRefused, Fail, Crash, outside
  <2> QED  BY <1>3, <2>1 DEF Stop, ReachInv, Buried, MidTick
<1>13. CASE Resume
  <2>1. pc' = "poll" /\ UNCHANGED <<checkpoint, confirmed_through, branch, canon>>
    BY <1>13 DEF Resume, tracker, tick
  <2> QED  BY <1>3, <2>1 DEF ReachInv, Buried, MidTick
<1>14. CASE Receive \/ Hangup
  <2>1. UNCHANGED <<checkpoint, confirmed_through, branch, canon, pc, next, head_num, last_saved>>
    BY <1>14 DEF Receive, Hangup, tracker, tick, config
  <2> QED  BY <1>3, <2>1 DEF ReachInv, Buried, MidTick, Unmoved
<1>15. CASE NodeMoves
  <2>1. UNCHANGED <<checkpoint, confirmed_through, branch, pc, next, head_num, last_saved>>
    BY <1>15 DEF NodeMoves, tracker, tick, config
  <2>2. NodeHead' >= NodeHead /\ NodeHead' \in Nat
    <3>1. Len(canon') >= Len(canon) /\ canon' \in Chains  BY <1>15 DEF NodeMoves
    <3>2. Len(canon) \in Nat /\ Len(canon') \in Nat  BY <1>1, <3>1, ChainsAssumption
    <3>3. NodeHead' = Len(canon') - 1 /\ NodeHead = Len(canon) - 1  BY DEF NodeHead
    <3>4. NodeHead' \in Nat
      <4>1. canon' # <<>> /\ canon' \in Seq(Blocks)  BY <3>1, ChainsAssumption
      <4> QED  BY <3>3, <4>1
    <3> QED  BY <3>1, <3>2, <3>3, <3>4
  <2>3. \A height \in Nat \cup {NoHeight} : Buried(height, NodeHead) => Buried(height, NodeHead')
    BY <1>1, <2>2 DEF Buried, NoHeight, T!NoHeight
  <2>4. Buried(checkpoint', NodeHead') /\ Buried(confirmed_through', NodeHead')
    BY <1>1, <2>1, <2>3 DEF ReachInv
  <2>5. \A i \in 1..Len(branch') : branch'[i].number <= NodeHead'
    <3> TAKE i \in 1..Len(branch')
    <3>1. branch[i].number <= NodeHead /\ branch[i] \in Blocks  BY <1>1, <2>1 DEF ReachInv
    <3> QED  BY <1>1, <1>2, <2>1, <2>2, <3>1
  <2>6. MidTick' => head_num' <= NodeHead' /\ Buried(checkpoint', head_num')
    BY <1>1, <2>1, <2>2 DEF ReachInv, MidTick
  <2> QED  BY <2>1, <2>4, <2>5, <2>6 DEF ReachInv, Unmoved, Buried
<1>16. CASE UNCHANGED vars
  <2>1. UNCHANGED <<checkpoint, confirmed_through, branch, canon, pc, next, head_num, last_saved>>
    BY <1>16 DEF vars, tracker, tick, config, outside
  <2> QED  BY <1>3, <2>1 DEF ReachInv, Buried, MidTick, Unmoved
<1> QED
  BY <1>4, <1>5, <1>6, <1>7, <1>8, <1>9, <1>10, <1>11, <1>12, <1>13, <1>14, <1>15, <1>16
  DEF Next, Run

\* What a step does to the checkpoint.
LEMMA CheckpointUp ==
  ASSUME AdvanceInv, [Next]_vars
  PROVE  checkpoint' = checkpoint \/ checkpoint' >= checkpoint
<1> USE DEF AdvanceInv
<1>1. CASE Save
  <2>1. CASE Unsaved /\ store = "durable"
    <3>1. checkpoint' = confirmed_through /\ confirmed_through # NoHeight
          /\ last_saved # confirmed_through /\ pc = "save"
      BY <1>1, <2>1 DEF Save, Unsaved
    <3>2. confirmed_through >= head_num - Confirmations /\ Buried(checkpoint, head_num)
      BY <3>1 DEF ReachInv, Unmoved, MidTick
    <3>3. /\ Confirmations \in Nat /\ head_num \in Nat
          /\ confirmed_through \in Nat \cup {NoHeight} /\ checkpoint \in Nat \cup {NoHeight}
      BY TrackerTypes, TrackerAssumptions DEF TypeInv, TypeOK
    <3> QED  BY <3>1, <3>2, <3>3 DEF Buried, NoHeight, T!NoHeight
  <2>2. CASE ~(Unsaved /\ store = "durable")
    BY <1>1, <2>2 DEF Save
  <2> QED  BY <2>1, <2>2
<1>2. CASE PollHead \/ FetchNext \/ RecheckHead \/ WalkBack \/ ObserveNext \/ FetchTransfers
  BY <1>2 DEF PollHead, FetchNext, RecheckHead, WalkBack, ObserveNext, FetchTransfers, outside
<1>3. CASE Send \/ Sleep \/ SendRefused \/ Fail \/ Crash
  BY <1>3 DEF Send, Sleep, SendRefused, Fail, Crash, outside
<1>4. CASE Resume \/ Receive \/ Hangup \/ NodeMoves \/ UNCHANGED vars
  BY <1>4 DEF Resume, Receive, Hangup, NodeMoves, vars, outside
<1> QED  BY <1>1, <1>2, <1>3, <1>4 DEF Next, Run

\* As long as the node's head never moves down, the saved checkpoint never does
\* either, however deep the reorgs and whatever fails: a restarted poller, whose
\* tracker starts without a watermark, saves nothing below what it resumed from.
THEOREM CheckpointOnlyAdvances ==
  "shrink" \notin Faults => (Spec => CheckpointAdvances)
<1> SUFFICES ASSUME "shrink" \notin Faults PROVE Spec => CheckpointAdvances
  OBVIOUS
<1>1. Init => AdvanceInv
  <2>1. Init => TypeInv  BY TypesInit
  <2>2. Init => SavedInv  BY DEF Init, T!Init, SavedInv, NoHeight
  <2>3. Init => ReachInv
    BY DEF Init, T!Init, ReachInv, Buried, MidTick, NoHeight
  <2> QED  BY <2>1, <2>2, <2>3 DEF AdvanceInv
<1>2. AdvanceInv /\ [Next]_vars => AdvanceInv'
  BY TypesNext, SavedInvNext, ReachInvNext DEF AdvanceInv
<1>3. AdvanceInv /\ [Next]_vars => [checkpoint' >= checkpoint]_checkpoint
  BY CheckpointUp
<1> QED  BY <1>1, <1>2, <1>3, PTL DEF Spec, CheckpointAdvances
=============================================================================
