------------------------------ MODULE Tracker ------------------------------
(***************************************************************************)
(* The confirmation tracker of the indexer (chain-indexer/src/tracker.rs): *)
(* it is fed block headers, keeps a window of the most recent ones, rolls  *)
(* back the tail a fork orphans and reports the blocks that have just got  *)
(* their N confirmations.                                                  *)
(*                                                                         *)
(* An Option<u64> height is an integer here, with NoHeight (-1) for None.  *)
(* Every use the code makes of the Option agrees with that order: nothing  *)
(* is confirmed yet is "below block 0".                                    *)
(***************************************************************************)
EXTENDS Integers, Sequences

CONSTANTS
  Hash,           \* block hashes
  Blocks,         \* the headers the tracker may be fed
  Confirmations,  \* N: blocks on top of a block that make it confirmed
  Window          \* most recent blocks retained

NoHeight == -1

BlockRef == [number : Nat, hash : Hash, parent_hash : Hash]

ASSUME BlocksAssumption == Blocks \subseteq BlockRef
ASSUME ConfirmationsAssumption == Confirmations \in Nat
\* The assertion of Tracker::with_window.
ASSUME WindowAssumption == Window \in Nat /\ Window > Confirmations

VARIABLES
  chain,              \* retained blocks, oldest first
  confirmed_through,  \* watermark: highest height reported as confirmed
  update,             \* what the last call of observe returned
  live                \* history: blocks reported confirmed, not retracted since

vars == <<chain, confirmed_through, update, live>>

-----------------------------------------------------------------------------
(* Tracker::observe *)

\* Mutant of AttachesTo: hashes not compared.
AttachesByNumber(top, b) == top.number + 1 = b.number

\* b goes directly on top of `top'.
AttachesTo(top, b) == top.number + 1 = b.number /\ top.hash = b.parent_hash

\* Mutant of StopsAt: an `if' for the `while', at most one block popped.
StopsAtFirst(k, b) ==
  k = IF chain # <<>> /\ ~AttachesTo(chain[Len(chain)], b) THEN Len(chain) - 1 ELSE Len(chain)

\* The rollback loop stops with the first k blocks of the chain left: b
\* attaches to the k-th (or none is left) and to none of those popped before.
StopsAt(k, b) ==
  /\ k > 0 => AttachesTo(chain[k], b)
  /\ \A i \in (k + 1)..Len(chain) : ~AttachesTo(chain[i], b)

\* Mutants of PulledBack: the pull-back left out, and short by one.
PulledBackNever(mark, lowest) == mark
PulledBackTo(mark, lowest) == IF mark > lowest THEN lowest ELSE mark

\* The watermark once `lowest' is the lowest block orphaned.
PulledBack(mark, lowest) == IF mark > lowest - 1 THEN lowest - 1 ELSE mark

\* Mutants of Ripe: the range ends one block early, and one late.
RipeBelow(held, mark, confirmed_max) ==
  {held[i] : i \in {j \in 1..Len(held) : held[j].number \in (mark + 1)..(confirmed_max - 1)}}
RipeAbove(held, mark, confirmed_max) ==
  {held[i] : i \in {j \in 1..Len(held) : held[j].number \in (mark + 1)..(confirmed_max + 1)}}

\* The blocks of `held' past the watermark that have enough blocks on top.
Ripe(held, mark, confirmed_max) ==
  {held[i] : i \in {j \in 1..Len(held) : held[j].number \in (mark + 1)..confirmed_max}}

\* The watermark after the confirmation pass.
Raised(mark, confirmed_max) == IF confirmed_max > mark THEN confirmed_max ELSE mark

\* Mutant of Trimmed: one block too many kept.
TrimmedLate(held) ==
  IF Len(held) > Window + 1 THEN SubSeq(held, Len(held) - Window, Len(held)) ELSE held

\* The `Window' most recent blocks of `held'.
Trimmed(held) ==
  IF Len(held) > Window THEN SubSeq(held, Len(held) - Window + 1, Len(held)) ELSE held

Observe(b) ==
  \E k \in 0..Len(chain) :
    /\ StopsAt(k, b)
    /\ LET orphaned      == {chain[i] : i \in (k + 1)..Len(chain)}
           held          == Append(SubSeq(chain, 1, k), b)
           mark          == IF k < Len(chain)
                              THEN PulledBack(confirmed_through, chain[k + 1].number)
                              ELSE confirmed_through
           confirmed_max == b.number - Confirmations  \* negative: nothing is deep enough
           confirmed     == Ripe(held, mark, confirmed_max)
       IN /\ chain' = Trimmed(held)
          /\ confirmed_through' = Raised(mark, confirmed_max)
          /\ update' = [confirmed |-> confirmed, reorged |-> orphaned]
          /\ live' = (live \ orphaned) \cup confirmed

\* Tracker::block_at: the retained block at a height, if any (as a set).
BlockAt(number) == {chain[i] : i \in {j \in 1..Len(chain) : chain[j].number = number}}

-----------------------------------------------------------------------------
(* The tracker on its own: fed anything, and fed under its contract. *)

NoUpdate == [confirmed |-> {}, reorged |-> {}]

Init ==
  /\ chain = <<>>
  /\ confirmed_through = NoHeight
  /\ update = NoUpdate
  /\ live = {}

Next == \E b \in Blocks : Observe(b)

Spec == Init /\ [][Next]_vars

\* The contract of observe: b is the first block, or extends a block still
\* retained, or takes the place of the oldest retained block (the fork is right
\* below the window, on the block below it, if that was confirmed).
FedUnderContract(b) ==
  \/ chain = <<>>
  \/ \E i \in 1..Len(chain) : AttachesTo(chain[i], b)
  \/ /\ chain # <<>>
     /\ b.number = chain[1].number
     /\ \A c \in live : c.number + 1 = b.number => c.hash = b.parent_hash

ContractNext == \E b \in Blocks : FedUnderContract(b) /\ Observe(b)

ContractSpec == Init /\ [][ContractNext]_vars

-----------------------------------------------------------------------------
(* Properties *)

\* The types, and a window that is never exceeded.
TypeOK ==
  /\ chain \in Seq(Blocks)
  /\ Len(chain) <= Window
  /\ confirmed_through \in Int /\ confirmed_through >= NoHeight
  /\ update \in [confirmed : SUBSET Blocks, reorged : SUBSET Blocks]
  /\ live \subseteq Blocks

\* Whatever is fed, the retained blocks are one unbroken chain: the rollback
\* never leaves a block on top of one that is not its parent, nor does trimming.
ChainLinked ==
  \A i \in 1..(Len(chain) - 1) : AttachesTo(chain[i], chain[i + 1])

\* Whatever is fed, one observe confirms at most one block, so what it confirms
\* is a contiguous range of heights, as the poller relies on when it fetches their
\* transfers in a single call (comment at poller.rs:190).
ConfirmsOneAtATime ==
  \A a, b \in update.confirmed : a = b

\* Under the contract, what downstream holds as confirmed is one chain of blocks
\* without a gap or a duplicate, up to the watermark: no height is confirmed
\* twice without a retraction in between, and none is skipped.
LiveIsOneChain ==
  /\ \A a, b \in live : a.number = b.number => a = b
  /\ \A a, b \in live : a.number + 1 = b.number => a.hash = b.parent_hash
  /\ \A a \in live : \A n \in a.number..confirmed_through :
       \E b \in live : b.number = n

\* Under the contract, downstream and tracker agree on the retained blocks: one
\* is confirmed downstream exactly when it is at or below the watermark.
LiveMatchesWatermark ==
  /\ \A i \in 1..Len(chain) : chain[i].number <= confirmed_through <=> chain[i] \in live
  /\ \A b \in live : b.number <= confirmed_through

\* Under the contract, a block leaves the window only by being orphaned or after
\* it was confirmed (tracker.rs:38-39: a block survives until confirmed).
SurvivesUntilConfirmed ==
  [][\A i \in 1..Len(chain) :
       \/ \E j \in 1..Len(chain') : chain'[j] = chain[i]
       \/ chain[i] \in update'.reorged
       \/ chain[i] \in live']_vars

Feed == INSTANCE ConfirmedFeed

\* Under the contract, every retraction of a confirmed block is reported, and
\* what is retracted is the top of what is live, never something below it.
ImplementsFeed == Feed!Spec
=============================================================================
