------------------------------ MODULE Pipeline ------------------------------
(***************************************************************************)
(* The three crates put together: what the indexer delivers, as            *)
(* ConfirmedFeed has it, is turned into ledger transactions                *)
(* (recon/src/reconcile.rs), appended under the key of each log the way    *)
(* recon's end-to-end test does it, and reversed when the indexer retracts *)
(* the block.                                                              *)
(*                                                                         *)
(* The consumer takes the messages one by one. It is the only reader of    *)
(* its channel, so the feed may wait until the channel is empty.           *)
(***************************************************************************)
EXTENDS Sums

CONSTANTS
  Blocks,      \* of the chain: number, hash, parent_hash
  Logs,        \* the transfers in each block
  Addresses, Token,
  Half,        \* 2^127; a value is a u256
  Wraps,       \* built without overflow checks
  MinedAgain   \* a retracted transaction may be mined again

ChainEvent ==
  [tx_hash : STRING, log_index : Nat, block_number : Nat,
   from : Addresses, to : Addresses, value : Nat]

Events == UNION {Range(Logs[b]) : b \in Blocks}

ASSUME LogsAssumption == Logs \in [Blocks -> Seq(ChainEvent)]
ASSUME WidthAssumption == Half \in Nat \ {0}

-----------------------------------------------------------------------------
(* reconcile.rs *)

\* Mutants of idempotency_key: one part of it left out.
KeyOfTx(event)  == [kind |-> "transfer", tx_hash |-> event.tx_hash, log_index |-> 0]
KeyOfLog(event) == [kind |-> "transfer", tx_hash |-> "", log_index |-> event.log_index]

idempotency_key(event) ==
  [kind |-> "transfer", tx_hash |-> event.tx_hash, log_index |-> event.log_index]

\* External: the key of the reversal.
storno_key(event) ==
  [kind |-> "storno", tx_hash |-> event.tx_hash, log_index |-> event.log_index]

\* Mutant of Convertible: a cast.
ConvertibleAlways(value) == TRUE

\* The u256 is an i128 too.
Convertible(value) == value <= Half - 1

Leg(account, amount) == [account |-> account, asset |-> Token, amount |-> amount]

\* The sender is debited, the receiver credited.
Mirror(event) == << Leg(event.from, -event.value), Leg(event.to, event.value) >>

VARIABLES
  live,     \* the indexer's: blocks it has delivered as confirmed, not retracted since
  channel,  \* its messages, not yet received
  held,     \* the consumer's: events ingested, not retracted since
  journal, keys, answer   \* the ledger's

Keys == {idempotency_key(e) : e \in Events} \cup {storno_key(e) : e \in Events}

L == INSTANCE Ledger WITH Accounts <- Addresses, Assets <- {Token}, Requests <- {}

Feed == INSTANCE ConfirmedFeed

\* External: a log says which block it is from, and a chain holds each log once. Two
\* branches may hold the same one.
ASSUME ChainAssumption ==
  /\ \A b \in Blocks : b.number \in Nat
  /\ \A b \in Blocks : \A i \in 1..Len(Logs[b]) : Logs[b][i].block_number = b.number
  /\ \A S \in SUBSET Blocks : Feed!IsChain(S) =>
       \A b, c \in S : \A i \in 1..Len(Logs[b]), j \in 1..Len(Logs[c]) :
         Logs[b][i].tx_hash = Logs[c][j].tx_hash /\ Logs[b][i].log_index = Logs[c][j].log_index
           => b = c /\ i = j

ledger == <<journal, keys, answer>>
vars   == <<live, channel, held, ledger>>

-----------------------------------------------------------------------------
(* The indexer *)

Confirmed(event)  == [kind |-> "confirmed", event |-> event]
Reorged(orphaned) == [kind |-> "reorged", orphaned |-> orphaned]

Messages(b) == [i \in 1..Len(Logs[b]) |-> Confirmed(Logs[b][i])]

Retracted(event) == keys[storno_key(event)] # L!Absent

\* A block is confirmed.
Confirm ==
  /\ channel = <<>>
  /\ \E b \in Blocks \ live :
       /\ live' = live \cup {b}
       /\ MinedAgain \/ \A i \in 1..Len(Logs[b]) : ~Retracted(Logs[b][i])
       /\ channel' = Messages(b)
  /\ Feed!Amend
  /\ UNCHANGED <<held, ledger>>

\* Confirmed blocks are orphaned.
Retract ==
  /\ channel = <<>>
  /\ \E lowest \in live :
       LET orphaned == {b \in live : b.number >= lowest.number} IN
         live' = live \ orphaned /\ channel' = <<Reorged(orphaned)>>
  /\ UNCHANGED <<held, ledger>>

\* The indexer has restarted without a checkpoint: what it had delivered comes again.
Redeliver ==
  /\ channel = <<>>
  /\ \E b \in live : channel' = Messages(b)
  /\ UNCHANGED <<live, held, ledger>>

-----------------------------------------------------------------------------
(* The consumer *)

\* ingest: event_to_transaction, then append under the key of the event.
Ingest ==
  /\ channel # <<>> /\ Head(channel).kind = "confirmed"
  /\ LET event == Head(channel).event IN
       \/ /\ ~Convertible(event.value)
          /\ L!Refused(idempotency_key(event), <<>>, "amount_overflow")
          /\ UNCHANGED held
       \/ /\ Convertible(event.value)
          /\ L!Post(idempotency_key(event), Mirror(event))
          /\ held' = IF answer'.outcome = "ok" THEN held \cup {event} ELSE held
  /\ channel' = Tail(channel)
  /\ UNCHANGED live

\* What a Reorged message names, by block number, and the consumer holds.
Orphaned == {e \in held : \E b \in Head(channel).orphaned : b.number = e.block_number}

\* External: the consumer reverses the transaction of one orphaned event.
ReverseOne ==
  /\ channel # <<>> /\ Head(channel).kind = "reorged"
  /\ \E event \in Orphaned :
       /\ L!Storno(storno_key(event), keys[idempotency_key(event)])
       /\ held' = held \ {event}
  /\ UNCHANGED <<live, channel>>

\* External: all of them are reversed.
ReorgDone ==
  /\ channel # <<>> /\ Head(channel).kind = "reorged"
  /\ Orphaned = {}
  /\ channel' = Tail(channel)
  /\ UNCHANGED <<live, held, ledger>>

Init ==
  /\ Feed!Init
  /\ channel = <<>>
  /\ held = {}
  /\ L!Init

Next == Confirm \/ Retract \/ Redeliver \/ Ingest \/ ReverseOne \/ ReorgDone

Spec == Init /\ [][Next]_vars

-----------------------------------------------------------------------------
(* Properties *)

\* The types; what is held has a transaction in the journal.
TypeOK ==
  /\ live \subseteq Blocks
  /\ channel \in Seq([kind : {"confirmed"}, event : Events]
                       \cup [kind : {"reorged"}, orphaned : SUBSET Blocks])
  /\ held \subseteq Events
  /\ keys \in [Keys -> 0..Len(journal)]
  /\ \A e \in held : keys[idempotency_key(e)] # L!Absent

\* Every transaction that reconciliation writes, or that reverses one, is two legs
\* that mirror each other inside the width, -2^127 excluded: none wraps or panics
\* when it is summed, whatever the build, and each can be reversed
\* (reconcile.rs:11-13, "by construction").
MirrorEntries ==
  \A i \in 1..Len(journal) :
    /\ Len(journal[i]) = 2
    /\ journal[i][1].amount = -journal[i][2].amount
    /\ journal[i][1].asset = journal[i][2].asset
    /\ journal[i][2].amount \in (1 - Half)..(Half - 1)

\* No transfer that fits an i128 is refused: not as a conflict with another log, not
\* as unbalanced, not by a panic; nor is a reversal.
NothingRefused == answer.outcome \in {"none", "ok", "amount_overflow"}

\* What the transfers of the confirmed blocks amount to for an account.
Effect(event, account) ==
  (IF event.to = account THEN event.value ELSE 0) - (IF event.from = account THEN event.value ELSE 0)

LiveTransfers == {e \in UNION {Range(Logs[b]) : b \in live} : Convertible(e.value)}

\* When all messages are received, a balance that can be read is the one of the blocks
\* confirmed right now: delivered once or several times, each log counts once, and not
\* at all once its block is retracted (reconcile.rs:35-37, exactly-once). It cannot be
\* read once its sum has overflowed on the way, which a reversal can do (balance.rs:34).
LedgerFollowsFeed ==
  channel = <<>> =>
    \A account \in Addresses :
      L!Fits(Folded(journal, account, Token)) =>
        Total(Folded(journal, account, Token))
          = SumFunction([e \in LiveTransfers |-> Effect(e, account)])
=============================================================================
