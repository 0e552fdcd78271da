------------------------------ MODULE RangeRead ------------------------------
(***************************************************************************)
(* What a backfill promises its caller (chain-indexer/src/source.rs,       *)
(* fetch_transfers): one answer to one request, either an error or the     *)
(* transfers of the whole range in ascending order, as if it had been read *)
(* in a single step. A block stands for the transfers in it.               *)
(***************************************************************************)
EXTENDS Integers, Sequences

CONSTANTS Errors

VARIABLES
  request,  \* the range asked for, inclusive
  known,    \* the head of the chain when the request was made
  answer    \* the outcome, and with "ok" the blocks read

NoAnswer == [outcome |-> "none", events |-> <<>>]

Ascending(events) == \A i, j \in 1..Len(events) : i < j => events[i] < events[j]

\* All the range had when it was asked for, nothing twice, nothing from outside.
\* (What the chain grows by in the meantime may be in it or not.)
Reads(events) ==
  /\ Ascending(events)
  /\ \A i \in 1..Len(events) : events[i] \in request.from..request.to
  /\ \A n \in request.from..request.to : n <= known => \E i \in 1..Len(events) : events[i] = n

Init == answer = NoAnswer

Read ==
  /\ answer = NoAnswer
  /\ \/ answer'.outcome = "ok" /\ Reads(answer'.events)
     \/ answer'.outcome \in Errors /\ answer'.events = <<>>
  /\ UNCHANGED <<request, known>>

Next == Read

Spec == Init /\ [][Next]_<<request, known, answer>>
=============================================================================
