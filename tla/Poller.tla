------------------------------- MODULE Poller -------------------------------
(***************************************************************************)
(* The live-tailing loop of the indexer (chain-indexer/src/poller.rs) with *)
(* the parties around it: the node it polls over RPC, the Tracker it feeds,*)
(* the checkpoint it resumes from and the channel to its consumer.         *)
(*                                                                         *)
(* One action is the code between two awaits of Poller::run, so whatever   *)
(* the other parties do falls between two actions. The node shows one      *)
(* canonical chain at a time, out of Chains, and may replace it; each call *)
(* of the source reads the chain of that moment. A block stands for the    *)
(* transfers in it.                                                        *)
(***************************************************************************)
EXTENDS Integers, Sequences, FiniteSets, SequencesExt

CONSTANTS
  Hash, Blocks, Confirmations, Window,  \* of the tracker
  Chains,       \* the chains the node may show, each from block 0 to its head
  StartBlock,   \* first block to index on a cold start
  ChannelSize,  \* capacity of the mpsc channel
  MaxReorg,     \* most blocks the node replaces at once between two ticks
  MidReorg,     \* and while a tick is under way (growing it always may)
  Stores,       \* the checkpoints that may be used, out of StoreKinds
  Faults        \* what the parties around the poller may do, out of FaultKinds

StoreKinds ==
  { "durable",  \* keeps what is saved
    "none" }    \* NoCheckpoint

FaultKinds ==
  { "shrink",   \* the head moves down
    "error",    \* a call of the source or of the checkpoint fails
    "crash",    \* the process dies: poller, channel and consumer session
    "hangup" }  \* the consumer drops its receiver

ASSUME ChainsAssumption ==
  \A c \in Chains :
    /\ c \in Seq(Blocks) /\ c # <<>>
    /\ \A i \in 1..Len(c) : c[i].number = i - 1
    /\ \A i \in 1..(Len(c) - 1) : c[i + 1].parent_hash = c[i].hash
\* A hash commits to its block: the code compares nothing else.
ASSUME HashAssumption == \A a, b \in Blocks : a.hash = b.hash => a = b
ASSUME StartBlockAssumption == StartBlock \in Nat
ASSUME ChannelSizeAssumption == ChannelSize \in Nat \ {0}
ASSUME FaultsAssumption ==
  /\ Faults \subseteq FaultKinds /\ Stores \subseteq StoreKinds
  /\ MaxReorg \in Nat /\ MidReorg \in Nat

VARIABLES
  canon,                                   \* the node's canonical chain
  chain, confirmed_through, update, live,  \* the tracker
  pc,           \* where the poller's task is: "down" or the await it is at
  start_block, last_saved,                 \* fields of Poller
  next, head_num,  \* the loop of advance: the block to fetch, the last one
  branch,       \* feed: blocks still to be fed, the oldest last
  msgs,         \* messages of this tick not sent yet
  store,        \* which checkpoint is used
  checkpoint,   \* durable: the height saved, or NoHeight
  channel,      \* messages sent and not received
  listening,    \* the receiver has not been dropped
  delivered,    \* durable, the consumer's: blocks it holds as confirmed
  lost          \* history: blocks whose Confirmed message was dropped unreceived

T == INSTANCE Tracker

\* What Tracker assumes of its constants.
ASSUME TrackerAssumptions ==
  /\ Blocks \subseteq T!BlockRef
  /\ Confirmations \in Nat /\ Window \in Nat /\ Window > Confirmations

tracker == <<chain, confirmed_through, update, live>>
tick    == <<next, head_num, branch>>
config  == <<start_block, last_saved>>
outside == <<canon, store, checkpoint, channel, listening, delivered>>
vars    == <<tracker, tick, config, outside, pc, msgs, lost>>

NoHeight == T!NoHeight

Confirmed(b) == [kind |-> "confirmed", block |-> b]
Reorged(orphaned) == [kind |-> "reorged", orphaned |-> orphaned]

IndexerMessage ==
  [kind : {"confirmed"}, block : Blocks] \cup [kind : {"reorged"}, orphaned : SUBSET Blocks]

-----------------------------------------------------------------------------
(* The node *)

NodeHead == Len(canon) - 1

Known(number) == number \in 0..NodeHead
BlockRefAt(number) == canon[number + 1]

\* Blocks of c that are not blocks of d.
ReorgDepth(c, d) == Len(c) - Cardinality({i \in DOMAIN c \cap DOMAIN d : c[i] = d[i]})

NodeMoves ==
  /\ \E c \in Chains \ {canon} :
       /\ ReorgDepth(canon, c) <= IF pc \in {"poll", "down"} THEN MaxReorg ELSE MidReorg
       /\ "shrink" \in Faults \/ Len(c) >= Len(canon)
       /\ canon' = c
  /\ UNCHANGED <<tracker, tick, config, pc, msgs, store, checkpoint, channel, listening, delivered, lost>>

-----------------------------------------------------------------------------
(* Poller::advance *)

\* self.source.head_number() and the choice between the three cases of a tick.
ColdStart ==
  /\ chain = <<>>
  /\ next' = start_block
  /\ pc' = IF start_block <= NodeHead THEN "fetch" ELSE "save"

\* Mutant of HeadGrew: only the new head is fetched.
HeadGrewToHead ==
  /\ chain # <<>> /\ NodeHead > Last(chain).number
  /\ next' = NodeHead
  /\ pc' = "fetch"

HeadGrew ==
  /\ chain # <<>> /\ NodeHead > Last(chain).number
  /\ next' = Last(chain).number + 1
  /\ pc' = "fetch"

HeadDidNotGrow ==
  /\ chain # <<>> /\ NodeHead <= Last(chain).number
  /\ next' = NodeHead
  /\ pc' = "recheck"

PollHead ==
  /\ pc = "poll"
  /\ ColdStart \/ HeadGrew \/ HeadDidNotGrow
  /\ head_num' = NodeHead
  /\ UNCHANGED <<tracker, branch, config, outside, msgs, lost>>

\* The loops over new heights: fetch one block, to be passed to feed.
FetchNext ==
  /\ pc = "fetch"
  /\ Known(next)
  /\ branch' = <<BlockRefAt(next)>>
  /\ next' = next + 1
  /\ pc' = "walk"
  /\ UNCHANGED <<tracker, head_num, config, outside, msgs, lost>>

\* Mutant of Unchanged: hashes not compared.
UnchangedByNumber(head) == T!BlockAt(head_num) # {}

\* The head did not grow: it is passed to feed only if its hash has changed.
Unchanged(head) == \E b \in T!BlockAt(head_num) : b.hash = head.hash

RecheckHead ==
  /\ pc = "recheck"
  /\ Known(head_num)
  /\ LET head == BlockRefAt(head_num) IN
       IF Unchanged(head)
         THEN pc' = "save" /\ UNCHANGED branch
         ELSE pc' = "walk" /\ branch' = <<head>>
  /\ next' = next + 1
  /\ UNCHANGED <<tracker, head_num, config, outside, msgs, lost>>

-----------------------------------------------------------------------------
(* Poller::feed *)

\* Mutants of Connects: hashes not compared, and the wrong one compared.
ConnectsByNumber(tip) ==
  \/ tip.number = 0
  \/ T!BlockAt(tip.number - 1) = {}
  \/ \E b \in T!BlockAt(tip.number - 1) : b.number + 1 = tip.number

ConnectsAtOwnHash(tip) ==
  \/ tip.number = 0
  \/ T!BlockAt(tip.number - 1) = {}
  \/ \E b \in T!BlockAt(tip.number - 1) : b.hash = tip.hash

\* The walk back ends: genesis, a parent not retained, or one that agrees.
Connects(tip) ==
  \/ tip.number = 0
  \/ T!BlockAt(tip.number - 1) = {}
  \/ \E b \in T!BlockAt(tip.number - 1) : b.hash = tip.parent_hash

WalkBack ==
  /\ pc = "walk"
  /\ ~Connects(Last(branch))
  /\ Known(Last(branch).number - 1)
  /\ branch' = Append(branch, BlockRefAt(Last(branch).number - 1))
  /\ UNCHANGED <<tracker, next, head_num, config, outside, pc, msgs, lost>>

\* Mutant of AfterObserve: the tick ends with the block, not with the head.
AfterObserveOne(rest) == IF rest # <<>> THEN "observe" ELSE "save"

\* Where the task goes once the blocks `rest' of the branch are left to feed.
AfterObserve(rest) ==
  IF rest # <<>> THEN "observe" ELSE IF next <= head_num THEN "fetch" ELSE "save"

ObserveNext ==
  /\ pc = "observe" \/ (pc = "walk" /\ Connects(Last(branch)))
  /\ T!Observe(Last(branch))
  /\ branch' = Front(branch)
  /\ msgs' = IF update'.reorged = {} THEN msgs ELSE Append(msgs, Reorged(update'.reorged))
  /\ pc' = IF update'.confirmed = {} THEN AfterObserve(branch') ELSE "transfers"
  /\ UNCHANGED <<next, head_num, config, outside, lost>>

\* Mutant of Transfers: one block too many.
TransfersAndNext(first, last) ==
  SubSeq(canon, first + 1, IF last < NodeHead THEN last + 2 ELSE NodeHead + 1)

\* self.source.transfers(first, last): what the canonical chain has there now.
Transfers(first, last) ==
  SubSeq(canon, first + 1, IF last <= NodeHead THEN last + 1 ELSE NodeHead + 1)

\* They are fetched from the first block of the update to the last.
FetchTransfers ==
  /\ pc = "transfers"
  /\ \E first, last \in update.confirmed :
       /\ \A b \in update.confirmed : b.number \in first.number..last.number
       /\ LET found == Transfers(first.number, last.number) IN
            msgs' = msgs \o [i \in 1..Len(found) |-> Confirmed(found[i])]
  /\ pc' = AfterObserve(branch)
  /\ UNCHANGED <<tracker, tick, config, outside, lost>>

-----------------------------------------------------------------------------
(* The end of advance, and Poller::run *)

\* Mutant of Unsaved: only progress is saved.
UnsavedIfHigher == last_saved < confirmed_through

\* There is a watermark, and it is not the one saved last.
Unsaved == confirmed_through # NoHeight /\ last_saved # confirmed_through

Save ==
  /\ pc = "save"
  /\ IF Unsaved
       THEN /\ checkpoint' = IF store = "durable" THEN confirmed_through ELSE checkpoint
            /\ last_saved' = confirmed_through
       ELSE UNCHANGED <<checkpoint, last_saved>>
  /\ pc' = "send"
  /\ UNCHANGED <<tracker, tick, start_block, canon, store, channel, listening, delivered, msgs, lost>>

Send ==
  /\ pc = "send" /\ msgs # <<>>
  /\ listening /\ Len(channel) < ChannelSize
  /\ channel' = Append(channel, Head(msgs))
  /\ msgs' = Tail(msgs)
  /\ UNCHANGED <<tracker, tick, config, pc, canon, store, checkpoint, listening, delivered, lost>>

\* All sent: sleep until the next tick.
Sleep ==
  /\ pc = "send" /\ msgs = <<>>
  /\ pc' = "poll"
  /\ UNCHANGED <<tracker, tick, config, outside, msgs, lost>>

\* What has been saved as done, and not received.
InFlight ==
  {b \in Blocks : Confirmed(b) \in Range(channel) \/ (pc = "send" /\ Confirmed(b) \in Range(msgs))}

\* Poller::run returns, or dies: the poller and its tracker are dropped.
Stop ==
  /\ pc' = "down"
  /\ msgs' = <<>>
  /\ chain' = <<>> /\ confirmed_through' = NoHeight
  /\ update' = T!NoUpdate /\ live' = {}
  /\ next' = 0 /\ head_num' = 0 /\ branch' = <<>>
  /\ start_block' = StartBlock /\ last_saved' = NoHeight

\* send fails because the receiver was dropped: run returns Ok.
SendRefused ==
  /\ pc = "send" /\ msgs # <<>> /\ ~listening
  /\ Stop
  /\ lost' = lost \cup InFlight
  /\ UNCHANGED outside

\* An error of the source or the checkpoint: run returns Err. A block the chain
\* has lost since the tick began is such an error.
Asked ==
  CASE pc \in {"fetch", "recheck"} -> next
    [] pc = "walk"                 -> Last(branch).number - 1
    [] OTHER                       -> 0

Fail ==
  /\ \/ pc \in {"poll", "fetch", "recheck", "transfers"}
     \/ pc = "walk" /\ ~Connects(Last(branch))
     \/ pc = "save" /\ Unsaved
  /\ "error" \in Faults \/ ~Known(Asked)
  /\ Stop
  /\ UNCHANGED <<outside, lost>>

\* Mutants of ResumeAt: off by one, either way.
ResumeAtSaved == IF checkpoint = NoHeight THEN StartBlock ELSE checkpoint
ResumePastNext == IF checkpoint = NoHeight THEN StartBlock ELSE checkpoint + 2

\* Poller::resume continues just past the height saved. (With NoCheckpoint nothing
\* is, and this is Poller::new.)
ResumeAt == IF checkpoint = NoHeight THEN StartBlock ELSE checkpoint + 1

\* A restart: a new poller and a new channel, once the messages of the old
\* channel have been received.
Resume ==
  /\ pc = "down" /\ channel = <<>>
  /\ start_block' = ResumeAt
  /\ last_saved' = checkpoint
  /\ listening' = TRUE
  /\ pc' = "poll"
  /\ UNCHANGED <<tracker, tick, canon, store, checkpoint, channel, delivered, msgs, lost>>

Crash ==
  /\ "crash" \in Faults /\ pc # "down"
  /\ Stop
  /\ channel' = <<>> /\ listening' = FALSE
  /\ lost' = lost \cup InFlight
  /\ UNCHANGED <<canon, store, checkpoint, delivered>>

-----------------------------------------------------------------------------
(* The consumer *)

\* A Reorged message retracts by block number.
Applied(held, m) ==
  IF m.kind = "confirmed"
    THEN held \cup {m.block}
    ELSE {b \in held : \A o \in m.orphaned : o.number # b.number}

Receive ==
  /\ listening /\ channel # <<>>
  /\ delivered' = Applied(delivered, Head(channel))
  /\ channel' = Tail(channel)
  /\ UNCHANGED <<tracker, tick, config, pc, msgs, canon, store, checkpoint, listening, lost>>

Hangup ==
  /\ "hangup" \in Faults /\ listening
  /\ listening' = FALSE /\ channel' = <<>>
  /\ lost' = lost \cup {b \in Blocks : Confirmed(b) \in Range(channel)}
  /\ UNCHANGED <<tracker, tick, config, pc, msgs, canon, store, checkpoint, delivered>>

-----------------------------------------------------------------------------
Init ==
  /\ canon \in Chains
  /\ T!Init
  /\ pc = "down"
  /\ start_block = StartBlock /\ last_saved = NoHeight
  /\ next = 0 /\ head_num = 0 /\ branch = <<>>
  /\ msgs = <<>>
  /\ store \in Stores /\ checkpoint = NoHeight
  /\ channel = <<>> /\ listening = FALSE
  /\ delivered = {} /\ lost = {}

Run ==
  \/ PollHead \/ FetchNext \/ RecheckHead \/ WalkBack \/ ObserveNext
  \/ FetchTransfers \/ Save \/ Send \/ Sleep \/ SendRefused

Next == Run \/ Resume \/ Receive \/ Fail \/ Crash \/ Hangup \/ NodeMoves

Spec == Init /\ [][Next]_vars
FairSpec == Spec /\ WF_vars(Run) /\ WF_vars(Resume) /\ WF_vars(Receive)

-----------------------------------------------------------------------------
(* Properties *)

\* The types, the tracker's included; the channel never holds more than its capacity.
TypeOK ==
  /\ T!TypeOK
  /\ canon \in Chains
  /\ pc \in {"down", "poll", "fetch", "recheck", "walk", "observe", "transfers", "save", "send"}
  /\ start_block \in Nat /\ next \in Nat /\ head_num \in Nat
  /\ {last_saved, checkpoint} \subseteq Nat \cup {NoHeight}
  /\ branch \in Seq(Blocks)
  /\ msgs \in Seq(IndexerMessage)
  /\ channel \in Seq(IndexerMessage) /\ Len(channel) <= ChannelSize
  /\ listening \in BOOLEAN
  /\ store \in Stores
  /\ delivered \subseteq Blocks /\ lost \subseteq Blocks

\* A tick is over, its messages are received and the chain has not moved since.
Settled == pc = "poll" /\ chain # <<>> /\ channel = <<>> /\ Last(chain) = Last(canon)

DueBlocks == {b \in Range(canon) : b.number \in StartBlock..confirmed_through}

\* No confirmed block is missing downstream once a tick has settled.
NothingSkipped == Settled => DueBlocks \subseteq delivered

\* Whatever fails, what a consumer misses once a tick has settled was between the
\* saved checkpoint and it when one of the two went away; and without a checkpoint,
\* where a restart indexes anew (poller.rs:41-42), it misses nothing.
OnlyInFlightIsLost ==
  Settled /\ listening => DueBlocks \subseteq delivered \cup (IF store = "durable" THEN lost ELSE {})

\* Nothing off the canonical chain, or not confirmed, is left downstream.
NothingStale == Settled => delivered \subseteq DueBlocks

\* With a checkpoint, a block the consumer already holds as confirmed is not
\* confirmed again.
NoReconfirm ==
  store = "durable" /\ channel # <<>> /\ Head(channel).kind = "confirmed" => Head(channel).block \notin delivered

\* No message retracts a block the consumer holds as confirmed.
ConfirmedIsFinal ==
  channel # <<>> /\ Head(channel).kind = "reorged"
    => \A o \in Head(channel).orphaned, b \in delivered : o.number # b.number

\* The transfers fetched, by number and after the headers, are those of the very
\* blocks that were confirmed, although the chain moves in between: a block with N
\* on top is not replaced any more (poller.rs:190-195).
TransfersAreOfConfirmed ==
  [][pc = "transfers" /\ pc' \notin {"transfers", "down"}
       => msgs' \in {msgs \o <<Confirmed(b)>> : b \in update.confirmed}]_<<pc, msgs>>

\* Nothing below the configured floor is confirmed.
FloorRespected == \A b \in delivered : b.number >= StartBlock

\* The checkpoint only moves up while no reorg is deeper than N: a restart never
\* leaves it lower than it was, although the fresh tracker starts below it.
CheckpointAdvances == [][checkpoint' >= checkpoint]_checkpoint

\* Between two ticks the checkpoint is the watermark, one that a reorg pulled down
\* included (comment at poller.rs:116-119).
CheckpointIsWatermark ==
  store = "durable" /\ pc \in {"send", "poll"} /\ confirmed_through # NoHeight
    => checkpoint = confirmed_through

\* The tracker is only ever fed under its contract (tracker.rs:71-73).
FeedsUnderContract ==
  [][\/ \E b \in Blocks : T!FedUnderContract(b) /\ T!Observe(b)
     \/ chain' = <<>>]_tracker

Feed == INSTANCE ConfirmedFeed WITH live <- delivered

\* What the consumer holds is one chain at every moment, also between the
\* messages of one tick: a height is retracted before it is confirmed anew.
DeliversFeed == Feed!Spec

\* Once the chain rests, what the consumer holds up to its head comes to be, for
\* good, the blocks of it up to the watermark, all that have N blocks on top among
\* them. (A head that only lags retracts nothing above it.)
EventuallyDelivered ==
  \A c \in Chains :
    <>[](canon = c) =>
      <>[](/\ {b \in delivered : b.number < Len(c)} = DueBlocks
           /\ confirmed_through >= Len(c) - 1 - Confirmations)
=============================================================================
