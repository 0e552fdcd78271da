------------------------------- MODULE Ledger -------------------------------
(***************************************************************************)
(* The double-entry ledger (ledger/src/transaction.rs, balance.rs and      *)
(* store.rs): transactions that net to zero per asset, their reversals, an *)
(* append-only journal under idempotency keys, and derived balances.       *)
(*                                                                         *)
(* A transaction is the sequence of its postings. An i128 is an integer of *)
(* -Half..Half - 1. The sum in Transaction::new is an unchecked addition:  *)
(* Wraps tells a build where it wraps (release) from one where it panics.  *)
(***************************************************************************)
EXTENDS Sums

CONSTANTS
  Keys, Accounts, Assets,
  Requests,  \* lists of postings that callers submit
  Half,      \* 2^127
  Wraps      \* built without overflow checks

ASSUME AccountsAssumption == IsFiniteSet(Accounts)
ASSUME WidthAssumption == Half \in Nat \ {0} /\ Wraps \in BOOLEAN

Amount  == (-Half)..(Half - 1)
Posting == [account : Accounts, asset : Assets, amount : Amount]

ASSUME RequestsAssumption == Requests \subseteq Seq(Posting)

VARIABLES
  journal,  \* the transactions appended
  keys,     \* where in the journal the transaction of each key is, or Absent
  answer    \* the last call: its key, its body and its outcome

vars == <<journal, keys, answer>>

Absent == 0

-----------------------------------------------------------------------------
(* Sums *)

\* Mutant of Fits: only the end result matters.
FitsInTotal(amounts) == Total(amounts) \in Amount

\* No sum on the way leaves the width: then the balance is the total, else Overflow.
Fits(amounts) == \A n \in 0..Len(amounts) : Running(amounts)[n] \in Amount

-----------------------------------------------------------------------------
(* Transaction *)

\* Mutant of Legs: the assets not kept apart.
LegsOfAll(postings, asset) == [i \in 1..Len(postings) |-> postings[i].amount]

\* What Transaction::new adds up for an asset.
Legs(postings, asset) == Amounts(postings, Accounts, asset)

\* Mutant of Panics: overflow checks switched off.
PanicsNever(postings) == FALSE

Panics(postings) == ~Wraps /\ \E asset \in Assets : ~Fits(Legs(postings, asset))

\* Every sum is zero, up to wrapping.
Balanced(postings) == \A asset \in Assets : Total(Legs(postings, asset)) % (2 * Half) = 0

\* Mutant of Reversible: the negation unchecked.
ReversibleAlways(tx) == TRUE

\* Every amount has a counterpart to negate it to.
Reversible(tx) == \A i \in 1..Len(tx) : tx[i].amount # -Half

Reversal(tx) == [i \in 1..Len(tx) |-> [tx[i] EXCEPT !.amount = -@]]

-----------------------------------------------------------------------------
(* InMemoryStore *)

Answered(key, body, outcome) == answer' = [key |-> key, body |-> body, outcome |-> outcome]

\* Mutants of NextIndex and SameBody: taken after the push; any body a replay.
NextIndexAfterPush == Len(journal) + 2
SameBodyByKey(key, tx) == TRUE

NextIndex == Len(journal) + 1
SameBody(key, tx) == journal[keys[key]] = tx

AppendNew(key, tx) ==
  /\ keys[key] = Absent
  /\ keys' = [keys EXCEPT ![key] = NextIndex]
  /\ journal' = Append(journal, tx)
  /\ Answered(key, tx, "ok")

AppendAgain(key, tx) ==
  /\ keys[key] # Absent
  /\ Answered(key, tx, IF SameBody(key, tx) THEN "ok" ELSE "conflict")
  /\ UNCHANGED <<journal, keys>>

AppendTo(key, tx) == AppendNew(key, tx) \/ AppendAgain(key, tx)

\* The caller gets no transaction to append.
Refused(key, body, outcome) == Answered(key, body, outcome) /\ UNCHANGED <<journal, keys>>

\* A caller builds a transaction and appends it.
Post(key, postings) ==
  \/ postings = <<>> /\ Refused(key, postings, "empty")
  \/ Panics(postings) /\ Refused(key, postings, "panic")
  \/ ~Panics(postings) /\ ~Balanced(postings) /\ Refused(key, postings, "unbalanced")
  \/ /\ postings # <<>> /\ ~Panics(postings) /\ Balanced(postings)
     /\ AppendTo(key, postings)

\* A caller reverses the i-th transaction of the journal and appends the reversal.
Storno(key, i) ==
  \/ ~Reversible(journal[i]) /\ Refused(key, journal[i], "overflow")
  \/ Reversible(journal[i]) /\ AppendTo(key, Reversal(journal[i]))

Init ==
  /\ journal = <<>>
  /\ keys = [key \in Keys |-> Absent]
  /\ answer = [key |-> "none", body |-> <<>>, outcome |-> "none"]

Next ==
  \E key \in Keys :
    \/ \E postings \in Requests : Post(key, postings)
    \/ \E i \in 1..Len(journal) : Storno(key, i)

Spec == Init /\ [][Next]_vars

-----------------------------------------------------------------------------
(* Properties *)

\* The types: every amount that gets into the journal keeps its width.
TypeOK ==
  /\ journal \in Seq(Seq(Posting) \ {<<>>})
  /\ keys \in [Keys -> 0..Len(journal)]
  /\ DOMAIN answer = {"key", "body", "outcome"}

\* Every transaction of the journal is the one of exactly one key: no append is
\* double-counted, none is out of reach of a replay.
EachKeyOwnsOne ==
  /\ \A i \in 1..Len(journal) : \E key \in Keys : keys[key] = i
  /\ \A key, other \in Keys : keys[key] = keys[other] /\ keys[key] # Absent => key = other

\* Whoever holds a transaction holds postings that net to zero per asset
\* (transaction.rs:11-13), the sums being those of arithmetic.
JournalBalances ==
  \A i \in 1..Len(journal), asset \in Assets : Total(Legs(journal[i], asset)) = 0

\* Across all accounts the balances of an asset sum to zero, whenever all of
\* them can be read.
BooksClose ==
  \A asset \in Assets :
    (\A account \in Accounts : Fits(Folded(journal, account, asset)))
      => SumFunction([account \in Accounts |-> Total(Folded(journal, account, asset))]) = 0

\* A balance that overflowed can never be read again, even once the transactions
\* that made it overflow are reversed: the journal only grows, and the fold meets
\* the overflow before their reversals (balance.rs:34).
OverflowSticks ==
  [][\A account \in Accounts, asset \in Assets :
       ~Fits(Folded(journal, account, asset)) => ~Fits(Folded(journal', account, asset))]_journal

Entries == [key \in Keys |-> IF keys[key] = Absent THEN <<>> ELSE journal[keys[key]]]

Promise == INSTANCE Books WITH Bodies <- Seq(Posting) \ {<<>>}, entries <- Entries

\* Calls repeated at will count once, and a key is never given another body: the
\* store keeps the promise of its trait.
ImplementsBooks == Promise!Spec
=============================================================================
