# fintrails in TLA+

Specifications, model checks and proofs for the three crates of the workspace:
`chain-indexer` (tail a chain, wait for confirmations, survive reorgs), `ledger`
(double-entry journal with idempotency keys) and `recon` (turn a confirmed
transfer into a ledger transaction). File names below are relative to
`src/crates/chain-indexer/src/` unless they name a crate.

## 1. The system

| part | source | state | operations | talks to |
|---|---|---|---|---|
| confirmation tracker | `tracker.rs` | `chain` (window of headers), `confirmed_through` (watermark) | `observe`; reads `head`, `block_at`, `confirmed_height` | called by the poller, synchronous |
| live poller | `poller.rs` | `start_block`, `last_saved`, its tracker; locals of a tick: messages, branch | `resume`, `advance`, `feed`, `run` | source and checkpoint by async calls, consumer by an mpsc channel |
| checkpoint | `checkpoint.rs` | one height, durable | `load`, `save` | called by the poller |
| block source | `source.rs` | none (the node's chain is outside); locals of a backfill: window, events | `head_number`, `block_ref`, `transfers`; backfill `fetch_transfers*`, `block_windows` | JSON-RPC node |
| retry layer | `retry.rs` | attempt counter of a call | `with_retry`, `delay_for`, `RetryingSource` | wraps a source or a backfill |
| error types | `error.rs` of each crate | none | `is_retryable` | retry layer |
| ledger core | `ledger/src/transaction.rs`, `balance.rs` | none | `Transaction::new`, `reverse`, `balance_of` | callers, store |
| ledger store | `ledger/src/store.rs` | `journal`, `keys` | `append`, `balance` | callers |
| reconciliation | `recon/src/reconcile.rs` | none | `event_to_transaction`, `idempotency_key` | indexer events in, ledger transactions out |

Only the indexer is concurrent: `Poller::run` is one task, but every `await` in it
(head, block, transfers, save, send, sleep) lets the node reorganise, the consumer
act, or the process die. The ledger is sequential; what is hard about it is
repeated calls and the ends of the integer range.

What makes each part correct:

* tracker: the retained headers are one chain; fed under its contract, what it has
  reported confirmed and not reported orphaned is one chain up to the watermark, a
  block is dropped only after it was confirmed or orphaned, only the top is retracted.
* poller: it keeps the tracker's contract; after a settled tick the consumer holds
  exactly the blocks of the canonical chain that have N blocks on top, none twice;
  this happens eventually once the chain rests; a restart neither skips nor repeats.
* checkpoint: it equals the watermark between ticks and never moves back while no
  reorg is deeper than N.
* ledger: transactions net to zero per asset, balances of an asset sum to zero, a key
  has one body for ever and repeated calls count once.
* backfill and retry: however many windows and attempts it takes, the caller is answered
  once, with the whole range or with an error; windows fit at the ends of the integer
  range; a transient error comes back only once the retries are spent.
* reconciliation: whatever is delivered again or retracted, the balances that can be read
  are those of the transfers confirmed now; its transactions cannot wrap and can all be
  reversed.

## 2. Modules

| module | what it is |
|---|---|
| `Tracker` | `tracker.rs`. `Observe(b)` is one call of `observe`. Two specifications: `Spec` feeds any block in any order, `ContractSpec` only what `FedUnderContract` allows |
| `ConfirmedFeed` | abstract: what downstream holds is one chain, changed only at its top |
| `Poller` | `poller.rs` with `T == INSTANCE Tracker`, the node, the checkpoint, the channel and a consumer |
| `Backfill` | `retry.rs` around the backfill of `source.rs` |
| `RangeRead` | abstract: a range is read in one step |
| `Ledger` | `transaction.rs`, `balance.rs`, `store.rs` of the ledger |
| `Books` | abstract: what the trait `LedgerStore` promises |
| `Sums` | the sums of `balance_of`, by a recursive function, for `Ledger` and `Pipeline` |
| `Pipeline` | `recon/src/reconcile.rs` between the indexer, as `ConfirmedFeed`, and `L == INSTANCE Ledger` |
| `MCTracker`, `MCPoller`, `MCBackfill`, `MCLedger`, `MCPipeline` | small block trees, chains, ranges, requests and logs for TLC |
| `TrackerProofs`, `TrackerContractProofs`, `PollerProofs`, `PollerFeedProofs`, `BackfillProofs`, `LedgerProofs`, `PipelineProofs` | theorems and proofs; `PollerFeedProofs` has what needs limits on the node |
| `SumProofs` | lemmas on induction over the naturals, recursive functions and sums |

How they compose: `Poller` instantiates `Tracker` and is shown to implement
`ConfirmedFeed`; `Pipeline` takes `ConfirmedFeed` for the indexer, so the chain to
the balances goes through that abstraction. `Backfill` stands alone, as
`fetch_transfers` does in the code.

Definitions whose comment says "Mutant of X" are deliberately wrong variants of X:
exchanging X for one of them must break the property it is listed with in `PROJECT.json`.

### Tracker

`chain` and `confirmed_through` are the fields; `update` is the last return value, as
sets of blocks (the vectors are sorted by height and never hold a block twice, which
`ChainLinked` gives); `live` is a history variable, the blocks reported confirmed and
not reported orphaned since. `Option<u64>` is an integer with -1 for `None`. The
rollback loop is the choice of how many blocks stay (`StopsAt`), which is the loop's
exit condition and the negation of it for everything popped. Heights are unbounded.

### Poller

`pc` names the await the task is at, and one action is the code up to the next one:

| `pc` | action | code |
|---|---|---|
| down | `Resume` | `Poller::resume`, 59-76 |
| poll | `PollHead` = `ColdStart`, `HeadGrew` or `HeadDidNotGrow` | head number and `match`, 82-105 |
| fetch | `FetchNext` | `block_ref` in the loops over new heights, 88-99 |
| recheck | `RecheckHead` | head at the same or a lower height, 104-113 |
| walk | `WalkBack`, or `ObserveNext` once it connects | walk to the fork, 158-179 |
| observe | `ObserveNext` | feed the branch, oldest first, 183-189 |
| transfers | `FetchTransfers` | transfers of what was confirmed, 190-195 |
| save | `Save` | checkpoint, 116-126 |
| send | `Send`, `Sleep`, `SendRefused` | `run`, 141-146 |
| any call | `Fail` | `?` out of `run`, 139-141 |
| any | `Crash` | the process dies |

The node, the consumer and the process are not code of the repository. The node
(`NodeMoves`) shows one of `Chains` at a time; it may change between any two actions, and
each call reads the chain of that moment. `Faults` says what else it and the others may do,
so that a run can ask a question of one kind of trouble. `MaxReorg` bounds the blocks the
node replaces at once between two ticks, `MidReorg` those it replaces while a tick is under
way; it may grow at any time. `Stores` says which checkpoints are tried: one that is
durable, or `NoCheckpoint`, with which `Resume` is `Poller::new`. A block asked for that the
chain no longer has is an error, as in `RpcBlockSource::block_ref`. The consumer adds what a
`Confirmed` message carries and drops every block whose number a `Reorged` message names
(doc of `IndexerMessage`). A crash loses poller, channel and receiver; the checkpoint and
what the consumer holds are durable. After `run` has returned, a restart waits until the
consumer has read what is left in the old channel. A block stands for its transfers, so a
message is a confirmed block or the set of orphaned ones. `lost` is a history variable: the
blocks whose `Confirmed` message was between the saved checkpoint and the consumer when one
of the two went away.

### Backfill

`phase` is where the task is: about to call the closure (`call`), in a call of
`eth_getLogs` (`fetch`), in a sleep of `with_retry` (`sleep`), or answered (`done`).

| `phase` | action | code |
|---|---|---|
| call | `Begin` | `http_provider`, start of `fetch_transfers_chunked` and `block_windows`, `source.rs` 72-118 |
| fetch | `FetchWindow` | a window is read and decoded; next window or done, `source.rs` 119-147 |
| fetch | `DecodeFails`, `CallFails` | `?` in `fetch_transfers_with` and `log_to_event` |
| sleep | `Wake` | `retry.rs` 54-56 |
| any | `Grow` | the chain grows (external) |

The windows are not laid out beforehand as the vector `block_windows` builds; one is
computed when the loop gets to it, from the same locals. A u64 is `0..MaxHeight`,
a u32 factor `0..MaxFactor` (`saturating_pow` is a recursive function that doubles and
saturates), a `Duration` `0..MaxDuration`. The decoding of a log is the
choice of which block, if any, has a log that cannot be decoded or lacks a field. A range
that fits one window is what `RetryingSource::transfers` does; `MaxRetries = 0` is the
backfill without `with_retry`.

### Ledger

A transaction is the sequence of its postings. `Post` is a caller that builds a
transaction and appends it, `Storno` one that reverses a transaction of the journal and
appends that; both may repeat at will and under any key. `Half` is 2^127 in the code.
`Wraps` tells a release build, where the unchecked sum in `Transaction::new` wraps, from
a debug build, where it panics and the caller has no transaction. `reverse` and
`balance_of` are checked in both. Journal positions are counted from 1.

### Pipeline

`Confirm`, `Retract` and `Redeliver` are the indexer: it amends the feed and puts the
messages of that on the channel (`Redeliver` is what a restart of `Poller::new` causes).
`Ingest` is `event_to_transaction` and `append` under `idempotency_key`, as the end-to-end
test of `recon` composes them; the test's helper panics on an error, the consumer of the
model goes on with the next message. `ReverseOne` and `ReorgDone` are a consumer that answers a
`Reorged` message as its doc asks (`poller.rs:18-20`), with `Transaction::reverse`; the
repository has no such program yet, so all three are external. A value is a u256, an amount an
i128 of `-Half..Half - 1`; what does not fit is refused and the ledger left alone.
The reversals of one message come in any order. A balance is a checked fold over the
journal (`Fits`), so it may overflow on the way, and for good, while the sum of all
postings is small: reversing a debit before the credit it followed is enough.
`LedgerFollowsFeed` is about the balances that can be read.
The feed waits until the channel is empty: the consumer is its only reader and keeps no
clock, so what it computes does not depend on how far the feed is ahead. `MinedAgain`
says whether a transaction that was retracted may come back in another block.

## 3. Runs

All passing runs finish with the whole state space of their bounds.

| run | asks | bounds |
|---|---|---|
| `tracker_contract` | under the contract: types, one chain retained and one confirmed, exact watermark, nothing dropped unconfirmed, one confirmation per call, implements `ConfirmedFeed` | all chains of a binary tree of height 5, N = 2, window 3 (the tightest allowed) |
| `poller_reorgs` | reorgs between ticks, deeper than N but inside the window, and a head that may lag: nothing skipped or stale, checkpoint equals watermark, contract kept, implements `ConfirmedFeed`; the consumer gets the confirmed blocks once the chain rests | forks at heights 2 and 3, heads 2 to 5, N = 1, window 4, start block 1, reorgs of up to 3 blocks; fair |
| `poller_crash` | errors, crashes, hang-ups, a head replaced in mid-tick, with a checkpoint and without: nothing lost but what was in flight, nothing stale, repeated or retracted, the transfers fetched are those of the blocks confirmed, checkpoint only advances | same forks, heads 0 to 5, N = 2, window 3, reorgs of up to 2 = N blocks, of 1 in mid-tick |
| `backfill` | calls fail, logs do not decode, the chain grows: windows fit, retries are spent, sleeps grow, implements `RangeRead`, is answered | heights of 3 bits, 37 requests, 2 sets of flaws, 3 retries, base delay 2, ceilings of 3 (factor), 5 (product) and 4 (delay); fair |
| `ledger_books` | overflow checks on: types, one key per transaction, each transaction nets to zero, balances sum to zero, an overflow stays, implements `Books` | 3 keys, 2 accounts, 2 assets, 3-bit amounts, 8 requests |
| `pipeline` | blocks confirmed, delivered again, retracted: types, mirrored legs, nothing refused, balances that can be read follow the feed | 4 blocks on 2 branches, 7 transfers, 3-bit amounts, 4-bit values, overflow checks off |

Why these are enough. The tracker compares only neighbours, head - N and the window's
end, so every case needs a chain slightly longer than the window, a fork below the
watermark, at it and above it, and a watermark pulled down and raised again: height 5
with N = 2 and window 3 has them all. For the poller, forks at two heights give walks
of zero, one and more steps; a channel of capacity 1 makes `Send` wait in every tick
with two messages. For the ledger, 3 bits are the least that tell the two ends of the
range from small amounts; the requests include a payment, a list that nets to zero only
across assets, one that overflows on its way to zero, one that cannot be reversed and
one that is zero once wrapped. For the backfill, the ranges have one, two and more windows,
end at the largest height, at the head and above it, are empty or single blocks, with
spans from 0 to the whole range, and an error falls on every window and every attempt;
the delays are 2, 4 and 4: before the third retry the factor 4 is cut to 3, the product 6
to 5 and the delay to 4, so a factor or a product that wraps gives 0 and a missing clamp 5.
(The ceiling of the product never shows by itself: it is not below that of the delay.)
For the pipeline, the blocks hold a transaction of two transfers, transfers to oneself, of
nothing, of the largest amount and of one more, and an account's balance goes both ways;
the build is the one that wraps, where an error would go unnoticed. The widths are so small
that a balance does overflow in the middle of some reversals: in the run an account may
have become unreadable, and most often all of them can be read.

Deadlock is checked except in `backfill`, which is one call and ends when it is
answered, and in `pipeline`, where the few transactions can all be retracted and not mined
again. Symmetry is not used: hashes are paths and chains are
ordered, and the ledger run has a temporal property.

### Disagreements the runs show

| run | what the code does | what it says |
|---|---|---|
| `poller_midwalk` | parents are fetched by number; a reorg during the walk gives a branch that does not link, the tracker drains its chain, raises the watermark over the gap, and retracted heights are never confirmed again | contract at `tracker.rs:71-72`, `poller.rs:181-182` |
| `poller_crash_skips` | the checkpoint is saved before the messages are sent: a crash in between skips them | `poller.rs:56-58`, `checkpoint.rs:18` |
| `poller_floor` | a first tick with the head below `start_block + N` saves head - N; a restart begins below the floor | `poller.rs:33`, `86` |
| `poller_resume_lag` | a restart against a lagging head lowers the checkpoint; the next one confirms again | `poller.rs:56-58` |
| `ledger_wraps` | postings that sum to zero only after wrapping are accepted in a release build | `transaction.rs:11-13` |
| `pipeline_remined` | a transaction mined again after a reorg has a key that is taken: appending it is a no-op after its reversal, the balances miss it for good | `recon/src/reconcile.rs:35-37`, `event.rs:8-9` |

Each of these runs allows only the trouble its row names. In particular the reorgs of
`poller_midwalk` and `poller_crash_skips` are never deeper than N, and
`poller_resume_lag` has a single chain.

Two more were met and have no run of their own. A head that lags below the oldest retained
block counts as changed (`poller.rs:106-109`) although it is the block fed before, and
feeding it drains the tracker: confirmed blocks are retracted without a reorg, against
`poller.rs:102-103` and `tracker.rs:22-23`. No run has it: in `poller_reorgs` the window
holds every head there is, in `poller_crash` the head does not go down. The bounds of
`poller_resume_lag` with N = 1, window 2 and `Faults = {"shrink"}` do: TLC finds
`ConfirmedIsFinal` violated there, and `DeliversFeed` too, as a head that lags below the
window twice has a block retracted whose successor stays with the consumer; `NothingSkipped`
holds, so what was retracted comes back. A block the node does not have yet is an
`IncompleteLog` (`source.rs:58`), which `error.rs:29-31` calls deterministic and not worth a
retry, although a lagging replica has it a moment later.

### Fairness

`FairSpec` of `Poller` has weak fairness of `Run` (the task is scheduled while it can
move, and its RPC calls answer), of `Resume` (the operator restarts it) and of `Receive`
(the consumer reads). Nothing is assumed of the node: `EventuallyDelivered` is
conditional on the chain resting. In `poller_reorgs` no call fails: nothing moves in
mid-tick, so a block that is asked for is there.

`FairSpec` of `Backfill` has weak fairness of the task: every call of the provider is
answered, with logs or an error, and every sleep ends. The code sets no timeout of its
own, so this is an assumption about the provider. It does not say that a call ever
succeeds.

## 4. Proofs

All proofs are checked by TLAPS with Z3, Zenon and LS4, for all values of the constants
that meet the named assumptions.

`TrackerProofs` is about `Spec`, any block at any time. `AnyInv` is inductive: types,
`ChainLinked`, `Numbered` (linked blocks have consecutive heights, so a height says where
a block is in the window) and `HeadRipe` (the watermark is at least head - N). The last
is what makes `OneConfirmationAtATime` true: only the height head - N can be new above
the watermark. Its theorems: `TypeCorrect`, `ChainStaysLinked`,
`OneConfirmationAtATime`.

`TrackerContractProofs` is about `ContractSpec`. `LiveIsOneChain` is not inductive by
itself, because a rollback pulls the watermark to a height of the window and nothing says
that what is live there is what the window holds. `ContractInv` adds that
(`LiveMatchesWatermark`) and that live and window join: the oldest retained block sits
on the live block below it. From the invariant: `LiveStaysOneChain`, `WatermarkIsExact`,
`NothingDroppedUnconfirmed` (an action property, where window > N is used) and
`TrackerImplementsFeed` (the refinement).

`PollerProofs` is about `Spec` of `Poller`, with any node and all faults, so also where
the reorgs in mid-tick break the contract. `TrackerInv` and `BranchInv` say that what is
fed to the tracker are headers read from the node, one `observe` at a time, so that
`ObserveKeepsAnyInv` of `TrackerProofs`, brought in by INSTANCE, applies:
`TrackerStaysSound`. `SavedInv` relates `last_saved`, the checkpoint and the watermark at
each place of the task (between a save and the next tick `CheckpointIsWatermark` alone
says nothing of `last_saved`, on which the next save depends):
`CheckpointStaysWatermark`. `TypeCorrect` is inductive with `TrackerInv` and `BranchInv`.
`ContractSuffices` splits the promise of the poller in two: if `FeedsUnderContract` holds
of a behaviour, `ContractInv` of `TrackerContractProofs` is kept by every step and every
restart, and what the tracker reports is one chain. The premise is what `poller_reorgs`
checks and what a reorg during the walk breaks.

`CheckpointOnlyAdvances` (an action property) needs `ReachInv`: at its end a tick saves
either the watermark it began with or one at least N below the head it asked for, and what
was saved before is N below that head too. Without it a fresh tracker after a restart could
save a watermark below the checkpoint. Premise: the head never moves down.

`PollerFeedProofs` proves the rest about `Poller`, each theorem under a named premise on
the node:

| premise | meaning | satisfied by |
|---|---|---|
| `CalmTicks` | in mid-tick the node only grows, or replaces its head by one as high | all runs but `poller_midwalk` |
| `ForksInWindow` | no fork is older than the window and the head not below it; assumed at every state | every state of `poller_reorgs` |
| `Undisturbed` | no error, crash or hang-up, no block replaced in mid-tick | `poller_reorgs` |
| `Shallow` | the head never moves down, reorgs are no deeper than N, of one block in mid-tick | `poller_crash` |
| `SavedAboveFloor` | the checkpoint is not saved below `StartBlock`; assumed at every state | `StartBlock = 0`, or no checkpoint |

| theorem | premise | states |
|---|---|---|
| `AlwaysUnderContract` | `CalmTicks`, `ForksInWindow` | `FeedsUnderContract` |
| `LiveStaysOneChain` | `CalmTicks`, `ForksInWindow` | what the tracker reports is one chain, through all restarts |
| `TransfersMatch` | `CalmTicks`, mid-tick reorgs no deeper than N | `TransfersAreOfConfirmed` |
| `PollerDeliversFeed` | `Undisturbed`, `ForksInWindow` | `DeliversFeed`, the refinement of `ConfirmedFeed` through the channel |
| `SettledIsExact` | `Undisturbed`, `ForksInWindow` | `NothingSkipped` and `NothingStale`, however deep the reorgs |
| `ShallowUnderContract` | `Shallow` | `FeedsUnderContract` |
| `ConfirmedStaysFinal` | `Shallow` | `ConfirmedIsFinal` |
| `NothingReconfirmed` | `Shallow` | `NoReconfirm` |
| `OnlyInFlightLost` | `Shallow` | `OnlyInFlightIsLost` |
| `FailuresSkipNothing` | `Shallow`, errors the only fault | `NothingSkipped` |
| `NothingLeftStale` | `Shallow`, `SavedAboveFloor` | `NothingStale` and `FloorRespected` |

The premises are what the code leaves to the node and its operator, and the runs that
expect a violation show that they are needed: `poller_midwalk` breaks `CalmTicks`,
`poller_crash_skips` has a crash, `poller_floor` breaks `SavedAboveFloor`,
`poller_resume_lag` lets the head move down.

The argument. `TickInv` says how the locals of a tick fit each other and the tracker: the
branch is linked, ends one above the tracker's head or at the block to replace, and what
the walk has still to read is the parent of what it read last (`WalkInv`). From it each call
of `observe` is under the contract, so `ContractInv` is kept. `GroundInv` says that the
node's chain still has at least the parent of every block of the branch (the block itself
when nothing is replaced in mid-tick), and that a block just confirmed
is deeper than the node may reach in mid-tick; so the transfers fetched by number are its
own. For the refinement, `FlowInv` says that the messages under way, channel first, lead
from what the consumer holds to what is live, each of them amending a chain only at its top
(`Leads`). `LowInv` says where indexing began: nothing below `start_block` is live, and the
window begins at it or sits on a live block, which makes what is live exactly the canonical
blocks from `start_block` to the watermark once the tracker's head is canonical.

With faults a `FlowInv` cannot be kept, because messages are dropped and after a restart the
fresh tracker knows nothing of what the consumer holds. Under `Shallow` the argument goes by
finality instead: `FinalInv` (what is live or has been reported has N blocks on top of it in
the node's chain, for ever after, and the tracker is not ahead of the node), `ReadInv` (a
retained block at the height of a reported one is that block, and a block read is canonical
or above all that was reported, so nothing reported can be orphaned), `IssueInv` (with a
checkpoint, what is sent is at most as high as it, and what is reported is live or below
`start_block`, so nothing is reported twice) and `OrderInv` (no message under way clashes
with what is held when it is received, earlier messages counted). None of them is inductive
alone; `SafeInv` is all of them with the types, `ReachInv`, `TickInv`, `GroundInv`,
`ContractInv` and `LowInv`. On top of it `LiveCovered` and `SavedCovered` say where every
live block and every height saved is: downstream, under way, or lost with the channel; and
`FloorInv` that nothing reported is below `StartBlock`. All were checked by TLC on
`poller_crash` and variants of it before they were proved.

`BackfillProofs`: the loop invariant is `ReadSoFar` (before the window at `start`, the
events are exactly the blocks of the range below it) together with the types, which bound
the attempts, and with what an answer may be (`AnswerFits`). From it `TypeCorrect`,
`WindowsAlwaysFit`, `RetriesAreSpent` and `BackfillImplementsRangeRead` (the refinement of
`RangeRead`; every step but the answer is a stutter). `BackoffOnlyGrows` (an action property)
needs that the last sleep was no longer than the next one (`DelayInv`), and that `DelayFor`
grows with the attempt although factor, product and ceiling saturate (`DelayGrows`).

`LedgerProofs`: every step either records one body under a fresh key or leaves the store
alone (`CallLemma`). From it `TypeCorrect`, `KeysAreExact` and `StoreKeepsPromise` (the
refinement of `Books`); `TransactionsNetToZero` and `BooksAlwaysClose` for a build with
overflow checks (`~Wraps`; `ledger_wraps` shows the other), and `OverflowIsForEver` for
both. `BooksAlwaysClose` holds of any finite set of accounts: the sum over the accounts of
their sums over the journal is the sum over the journal of what nets to zero.

`PipelineProofs`: `LedgerInv` says that every transaction of the journal is a pair of
opposite legs inside the width, -2^127 excluded; so are the reversals, and no conversion
leads out of it. From it `TypeCorrect` and `EntriesMirror`. As long as no retracted
transaction is mined again (`~MinedAgain`; `pipeline_remined` shows the rest),
`NoTransferRefused` and `BalancesFollowFeed`. Their invariant `FollowInv` has in it which
logs the ledger stands for at this moment (the consumer's `held`; `HeldInv`), that the sums
of the postings are the sums of their effects (`SumsInv`, also where a balance cannot be
read any more), and what is still on the channel between them and the feed (`ChannelInv`);
that a log is booked at most once
follows from the keys, because a chain holds a transaction hash and log index once
(`ChainAssumption`, which also has a log carry the height of the block it is in).

`SumProofs`: the induction theorems of the library take an operator as a parameter, which
the provers cannot instantiate. A set of naturals takes its place (`SetInduction`, from the
least element of its complement), and from it come the existence of functions defined by
recursion (`Recursion`) and the laws of sums the ledger's proofs need.

Assumptions: `BlocksAssumption`, `ConfirmationsAssumption`, `WindowAssumption` (the
assertion of `Tracker::with_window`), `TrackerAssumptions` (the same in `Poller`),
`ChainsAssumption` (the node shows chains of linked headers from block 0),
`HashAssumption` (a hash determines its block), `StartBlockAssumption`,
`ChannelSizeAssumption`, `FaultsAssumption`, `AccountsAssumption` (finitely many accounts),
`WidthAssumption`, `RequestsAssumption`, `HeightsAssumption`, `FlawsAssumption`,
`PolicyAssumption`, `LogsAssumption`, `ChainAssumption`. TLC evaluates them in every run.

Only model-checked: liveness (`EventuallyDelivered`, `EventuallyAnswered`), which needs
ENABLED and is out of reach of the installed provers. Every other property of a passing run
is stated by a theorem. Where a theorem has a premise, what holds beyond it is open, except
where a run shows a violation.

## 5. Not modelled, and limits

* Crate roots (`lib.rs`): declarations only.
* `RetryingSource` under the poller: in `Poller` an error of the source is a call whose
  retries are spent.
* A backfill over a chain that reorganises or over replicas at different heads: excluded
  by the doc of `fetch_transfers` (`source.rs:89-90`).
* RPC encoding, what a log decodes to, `Display`, error texts: data with no state.
* A checkpoint whose `save` has an effect and reports an error all the same: in `Poller`
  a failed `save` saves nothing.
* `u64` block heights do not wrap in the models of tracker and poller.
* A block without transfers is not told from one with some; the transfers of a block are
  one message.
* Reorgs deeper than the window, and of block 0, are outside the runs: the code documents
  the first as its limit, and the second does not happen.
* The restart waits for the old channel to be read; a consumer that reads two channels at
  once is not modelled.

## 6. Plan

Done: 1 `Tracker`, `ConfirmedFeed` and their proofs; 2 `Poller` and its proofs; 3
`Ledger`, `Books` and their proofs; 4 `Backfill`, `RangeRead` and their proofs, with
`retry.rs`; 5 `Pipeline` and its proofs; 6 the poller without a checkpoint.

The set of runs is kept small: two runs of earlier versions were dropped once others
answered their question (the tracker fed anything at all: `TrackerProofs` has it for every
block; failed calls alone: `poller_crash`).

Done since: 7 the proofs about `Poller` under limits on the node (`PollerFeedProofs`), the
sums of ledger and pipeline (`SumProofs`) and the backoff.

To come: the refinement `DeliversFeed` with failed calls and restarts (`FlowInv` across a
restart, under `Shallow` and without a crash), premises of the pipeline weaker than
`~MinedAgain`, and that an account whose traffic stays inside the width can always be read.
