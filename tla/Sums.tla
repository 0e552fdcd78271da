-------------------------------- MODULE Sums --------------------------------
(***************************************************************************)
(* Adding up postings the way the ledger does (ledger/src/balance.rs): one *)
(* amount after the other, in the order of the journal. The sums are those *)
(* of arithmetic; what does not fit an i128 is for the users to say.       *)
(***************************************************************************)
EXTENDS Integers, Sequences, SequencesExt

\* What the sum is after none, the first, the first two, ... of the amounts.
Running(amounts) ==
  LET sum[n \in 0..Len(amounts)] == IF n = 0 THEN 0 ELSE sum[n - 1] + amounts[n]
  IN sum

Total(amounts) == Running(amounts)[Len(amounts)]

\* The amounts of some accounts in an asset. A posting that does not count adds
\* nothing.
Amounts(postings, accounts, asset) ==
  [i \in 1..Len(postings) |->
    IF postings[i].account \in accounts /\ postings[i].asset = asset THEN postings[i].amount ELSE 0]

\* balance_of: what it folds.
Folded(txs, account, asset) == Amounts(FlattenSeq(txs), {account}, asset)
=============================================================================
