------------------------------ MODULE Backfill ------------------------------
(***************************************************************************)
(* A caller reads the transfers of a range of blocks: with_retry           *)
(* (chain-indexer/src/retry.rs) around fetch_transfers                     *)
(* (chain-indexer/src/source.rs), which reads one window after the other.  *)
(* A range of a single window is RetryingSource::transfers, no retries at  *)
(* all is the plain backfill.                                              *)
(*                                                                         *)
(* One action is the code between two awaits: an eth_getLogs call or a     *)
(* sleep. Each call reads the chain of that moment, which grows meanwhile. *)
(* A block stands for the transfers in it. A u64 is an integer of          *)
(* 0..MaxHeight; sums leave that range only where the code lets them.      *)
(***************************************************************************)
EXTENDS Integers, Sequences

CONSTANTS
  MaxHeight,    \* u64::MAX
  Requests,     \* what callers ask for
  Flaws,        \* per block, what keeps its logs from being decoded, if anything
  MaxRetries,   \* of the RetryPolicy, as are the two delays
  BaseDelay, MaxDelay,
  MaxFactor,    \* u32::MAX
  MaxDuration   \* Duration::MAX

FlawKinds == {"decode", "incomplete"}
Errors    == FlawKinds \cup {"rpc", "url"}
Heights   == 0..MaxHeight

ASSUME HeightsAssumption == MaxHeight \in Nat
\* A caller's url parses or not.
ASSUME RequestsAssumption ==
  Requests \subseteq [from : Heights, to : Heights, max_span : Heights, url : BOOLEAN]
ASSUME FlawsAssumption == Flaws \subseteq [Heights -> FlawKinds \cup {"none"}]
ASSUME PolicyAssumption ==
  /\ MaxRetries \in Nat /\ MaxFactor \in Nat \ {0} /\ MaxDuration \in Nat
  /\ BaseDelay \in 0..MaxDuration /\ MaxDelay \in 0..MaxDuration

VARIABLES
  request, flaw,  \* the call's arguments and the logs of the blocks
  head,           \* the head of the chain
  known,          \* history: the head when the call was made
  phase,          \* where the task is: "call", "fetch", "sleep" or "done"
  attempt,        \* local of with_retry
  start, events,  \* locals of block_windows and fetch_transfers_chunked
  delay,          \* the last sleep
  answer          \* what the caller gets

vars == <<request, flaw, head, known, phase, attempt, start, events, delay, answer>>

Lesser(a, b) == IF a < b THEN a ELSE b

-----------------------------------------------------------------------------
(* block_windows *)

\* Mutants of Span and SaturatingAdd: a span of 0 let through; an addition that wraps.
SpanUnclamped(max_span) == max_span
WrappingAdd(a, b) == (a + b) % (MaxHeight + 1)

Span(max_span) == IF max_span = 0 THEN 1 ELSE max_span
SaturatingAdd(a, b) == Lesser(a + b, MaxHeight)

\* The window that begins at `start', an inclusive range.
WindowEnd == Lesser(SaturatingAdd(start, Span(request.max_span) - 1), request.to)
Window == start..WindowEnd

-----------------------------------------------------------------------------
(* RetryPolicy *)

\* Mutant of Factor: the power wraps.
FactorWrapping(n) == (2 ^ n) % (MaxFactor + 1)

\* 2u32.saturating_pow(n)
Factor(n) ==
  LET power[i \in 0..MaxRetries] == IF i = 0 THEN 1 ELSE Lesser(2 * power[i - 1], MaxFactor)
  IN power[n]

\* Mutants of DelayFor: not clamped; the product wraps.
DelayForUnclamped(n) == Lesser(BaseDelay * Factor(n), MaxDuration)
DelayForWrapping(n) == Lesser((BaseDelay * Factor(n)) % (MaxDuration + 1), MaxDelay)

\* base_delay * 2^n, saturating, clamped to max_delay.
DelayFor(n) == Lesser(Lesser(BaseDelay * Factor(n), MaxDuration), MaxDelay)

Retryable(error) == error = "rpc"

-----------------------------------------------------------------------------
(* with_retry around fetch_transfers *)

Answered(outcome, result) ==
  /\ phase' = "done"
  /\ answer' = [outcome |-> outcome, events |-> result]
  /\ UNCHANGED <<attempt, start, events, delay>>

\* Mutants of MayRetry: one attempt too few, and one too many.
MayRetryLess(error) == Retryable(error) /\ attempt + 1 < MaxRetries
MayRetryMore(error) == Retryable(error) /\ attempt <= MaxRetries

MayRetry(error) == Retryable(error) /\ attempt < MaxRetries

\* The attempt fails. (What it had read, a local, is out of use from here on.)
Failed(error) ==
  \/ /\ MayRetry(error)
     /\ phase' = "sleep"
     /\ delay' = DelayFor(attempt)
     /\ UNCHANGED <<attempt, start, events, answer>>
  \/ ~MayRetry(error) /\ Answered(error, <<>>)

\* The sleep is over. Mutant of NextAttempt: not counted.
NextAttemptSame == attempt
NextAttempt == attempt + 1

Wake ==
  /\ phase = "sleep"
  /\ attempt' = NextAttempt
  /\ phase' = "call"
  /\ UNCHANGED <<request, flaw, head, known, start, events, delay, answer>>

\* The closure is called: the provider is built and the windows are laid out.
Begin ==
  /\ phase = "call"
  /\ \/ ~request.url /\ Failed("url")
     \/ request.url /\ request.from > request.to /\ Answered("ok", <<>>)
     \/ /\ request.url /\ request.from <= request.to
        /\ phase' = "fetch"
        /\ start' = request.from /\ events' = <<>>
        /\ UNCHANGED <<attempt, delay, answer>>
  /\ UNCHANGED <<request, flaw, head, known>>

\* The blocks of a window that the chain has, in order; and the first that cannot
\* be decoded.
Found(first, last) == [i \in 1..(Lesser(last, head) - first + 1) |-> first + i - 1]

Flawed(n) == n \in Window /\ n <= head /\ flaw[n] # "none"
FirstFlawed(n) == Flawed(n) /\ \A m \in Window : m < n => ~Flawed(m)

\* Mutant of Collected: one block of overlap.
CollectedOverlap(found) == IF events # <<>> THEN Append(events, start - 1) \o found ELSE found

Collected(found) == events \o found

\* get_logs is answered and every log decoded: on to the next window, or done.
FetchWindow ==
  /\ phase = "fetch"
  /\ \A n \in Window : ~Flawed(n)
  /\ LET read == Collected(Found(start, WindowEnd)) IN
       \/ WindowEnd = request.to /\ Answered("ok", read)
       \/ /\ WindowEnd # request.to
          /\ start' = WindowEnd + 1
          /\ events' = read
          /\ UNCHANGED <<phase, attempt, delay, answer>>
  /\ UNCHANGED <<request, flaw, head, known>>

\* get_logs is answered, and log_to_event refuses one of the logs.
DecodeFails ==
  /\ phase = "fetch"
  /\ \E n \in Window : FirstFlawed(n) /\ Failed(flaw[n])
  /\ UNCHANGED <<request, flaw, head, known>>

\* get_logs fails.
CallFails ==
  /\ phase = "fetch"
  /\ Failed("rpc")
  /\ UNCHANGED <<request, flaw, head, known>>

\* External: the chain grows.
Grow ==
  /\ head < MaxHeight
  /\ head' = head + 1
  /\ UNCHANGED <<request, flaw, known, phase, attempt, start, events, delay, answer>>

Init ==
  /\ request \in Requests /\ flaw \in Flaws
  /\ head \in Heights /\ known = head
  /\ phase = "call" /\ attempt = 0
  /\ start = 0 /\ events = <<>>
  /\ delay = 0
  /\ answer = [outcome |-> "none", events |-> <<>>]

Task == Begin \/ FetchWindow \/ DecodeFails \/ CallFails \/ Wake

Next == Task \/ Grow

Spec == Init /\ [][Next]_vars

\* Every call of the provider is answered in the end, and every sleep ends.
FairSpec == Spec /\ WF_vars(Task)

-----------------------------------------------------------------------------
(* Properties *)

\* The types; no attempt is made beyond the budget.
TypeOK ==
  /\ request \in Requests /\ flaw \in Flaws
  /\ head \in Heights /\ known \in 0..head
  /\ phase \in {"call", "fetch", "sleep", "done"}
  /\ attempt \in 0..MaxRetries
  /\ start \in Heights
  /\ events \in Seq(Heights)
  /\ answer.outcome \in Errors \cup {"none", "ok"} /\ answer.events \in Seq(Heights)

\* Every window asked for is inside the range, not empty and no wider than the
\* span, at u64::MAX and with a span of 0 too: each of them makes progress.
WindowsFit ==
  phase = "fetch" =>
    /\ request.from <= start /\ start <= WindowEnd /\ WindowEnd <= request.to
    /\ WindowEnd = start \/ WindowEnd - start < request.max_span

\* A transport failure reaches the caller only once all retries are spent
\* (comment at retry.rs:42-45: never swallowed, nor given up early).
SpendsItsRetries == answer.outcome = "rpc" => attempt = MaxRetries

\* The sleeps of a call never get shorter, however many, nor longer than the ceiling
\* (retry.rs:31-33).
BackoffNeverShrinks == [][delay' \in delay..MaxDelay]_vars

Ideal == INSTANCE RangeRead

\* However many windows and attempts it takes, the caller is answered once, with an
\* error or with the whole range: no window is lost, repeated or left over from an
\* attempt that failed half way.
ImplementsRangeRead == Ideal!Spec

\* The caller is answered, whatever fails.
EventuallyAnswered == <>(phase = "done")
=============================================================================
