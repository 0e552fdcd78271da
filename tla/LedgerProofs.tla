---------------------------- MODULE LedgerProofs ----------------------------
(***************************************************************************)
(* What holds of the ledger store for every set of keys and requests and   *)
(* every integer width. A step either leaves the store alone, or appends   *)
(* one transaction under a key that had none (CallLemma); the theorems     *)
(* follow from these two cases.                                            *)
(***************************************************************************)
EXTENDS Ledger, SumProofs

\* The bodies a transaction may have.
Body == Seq(Posting) \ {<<>>}

\* The reversal of a transaction is a transaction.
LEMMA ReversalType ==
  ASSUME NEW tx \in Body, Reversible(tx)
  PROVE  Reversal(tx) \in Body
<1>1. tx \in Seq(Posting) /\ tx # <<>>
  BY DEF Body
<1>2. Len(tx) \in Nat /\ Len(tx) # 0
  BY <1>1
<1>3. ASSUME NEW i \in 1..Len(tx)
      PROVE  [tx[i] EXCEPT !.amount = -@] \in Posting
  <2>1. tx[i] \in Posting
    BY <1>1, <1>3
  <2>2. tx[i].amount \in Amount /\ tx[i].amount # -Half
    BY <2>1, <1>3 DEF Posting, Reversible
  <2>3. -tx[i].amount \in Amount
    BY <2>2, WidthAssumption DEF Amount
  <2> QED
    BY <2>1, <2>3 DEF Posting
<1>4. Reversal(tx) \in [1..Len(tx) -> Posting]
  BY <1>3 DEF Reversal
<1>5. Reversal(tx) \in Seq(Posting) /\ Len(Reversal(tx)) = Len(tx)
  BY <1>2, <1>4
<1> QED
  BY <1>2, <1>5 DEF Body

\* A call that appends a transaction under a key that has none.
Recorded(key, tx) ==
  /\ keys[key] = Absent
  /\ keys' = [keys EXCEPT ![key] = NextIndex]
  /\ journal' = Append(journal, tx)
  /\ Answered(key, tx, "ok")

\* A call that leaves the store alone: refused, or answered by what it holds.
Left(key, tx) ==
  /\ UNCHANGED <<journal, keys>>
  /\ \E outcome \in {"ok", "conflict", "empty", "panic", "unbalanced", "overflow"} :
       /\ Answered(key, tx, outcome)
       /\ outcome = "ok" => keys[key] # Absent /\ SameBody(key, tx)
       /\ outcome = "conflict" => keys[key] # Absent /\ ~SameBody(key, tx)

\* AppendTo is one of the two.
LEMMA AppendLemma ==
  ASSUME NEW key \in Keys, NEW tx, AppendTo(key, tx)
  PROVE  Recorded(key, tx) \/ Left(key, tx)
<1>1. CASE AppendNew(key, tx)
  BY <1>1 DEF AppendNew, Recorded
<1>2. CASE AppendAgain(key, tx)
  BY <1>2 DEF AppendAgain, Left
<1> QED
  BY <1>1, <1>2 DEF AppendTo

\* What a call may record: what Transaction::new let through, or a reversal.
Written(tx) ==
  \/ ~Panics(tx) /\ Balanced(tx)
  \/ \E i \in 1..Len(journal) : Reversible(journal[i]) /\ tx = Reversal(journal[i])

\* Every step of the store is one of the two, and what it records is a body.
LEMMA CallLemma ==
  ASSUME TypeOK, Next
  PROVE  \E key \in Keys :
           \/ \E tx \in Body : Recorded(key, tx) /\ Written(tx)
           \/ \E tx : Left(key, tx)
<1>1. PICK key \in Keys :
        \/ \E postings \in Requests : Post(key, postings)
        \/ \E i \in 1..Len(journal) : Storno(key, i)
  BY DEF Next
<1>2. ASSUME NEW body, NEW outcome \in {"empty", "panic", "unbalanced", "overflow"},
             Refused(key, body, outcome)
      PROVE  Left(key, body)
  BY <1>2 DEF Refused, Left
<1>3. CASE \E postings \in Requests : Post(key, postings)
  <2>1. PICK postings \in Requests : Post(key, postings)
    BY <1>3
  <2>2. CASE /\ postings # <<>> /\ ~Panics(postings) /\ Balanced(postings)
             /\ AppendTo(key, postings)
    <3>1. postings \in Body /\ Written(postings)
      BY <2>2, RequestsAssumption DEF Body, Written
    <3> QED
      BY <2>2, <3>1, AppendLemma
  <2>3. CASE \E outcome \in {"empty", "panic", "unbalanced"} : Refused(key, postings, outcome)
    BY <2>3, <1>2
  <2> QED
    BY <2>1, <2>2, <2>3 DEF Post
<1>4. CASE \E i \in 1..Len(journal) : Storno(key, i)
  <2>1. PICK i \in 1..Len(journal) : Storno(key, i)
    BY <1>4
  <2>2. CASE Refused(key, journal[i], "overflow")
    BY <2>2, <1>2
  <2>3. CASE Reversible(journal[i]) /\ AppendTo(key, Reversal(journal[i]))
    <3>1. journal[i] \in Body
      BY DEF TypeOK, Body
    <3>2. Reversal(journal[i]) \in Body /\ Written(Reversal(journal[i]))
      BY <2>3, <3>1, ReversalType DEF Written
    <3> QED
      BY <2>3, <3>2, AppendLemma
  <2> QED
    BY <2>1, <2>2, <2>3 DEF Storno
<1> QED
  BY <1>1, <1>3, <1>4

-----------------------------------------------------------------------------
LEMMA InitType == Init => TypeOK
<1> SUFFICES ASSUME Init PROVE TypeOK
  OBVIOUS
<1>1. journal \in Seq(Seq(Posting) \ {<<>>}) /\ Len(journal) = 0
  BY DEF Init
<1>2. keys \in [Keys -> 0..Len(journal)]
  BY <1>1 DEF Init, Absent
<1>3. DOMAIN answer = {"key", "body", "outcome"}
  BY DEF Init
<1> QED
  BY <1>1, <1>2, <1>3 DEF TypeOK

\* What a recorded transaction does to the journal and to the index of its key.
LEMMA RecordedLemma ==
  ASSUME TypeOK, NEW key \in Keys, NEW tx \in Body, Recorded(key, tx)
  PROVE  /\ Len(journal) \in Nat
         /\ journal' \in Seq(Body)
         /\ Len(journal') = Len(journal) + 1
         /\ \A i \in 1..Len(journal) : journal'[i] = journal[i]
         /\ journal'[Len(journal) + 1] = tx
         /\ keys[key] = 0
         /\ keys' \in [Keys -> 0..Len(journal')]
         /\ keys'[key] = Len(journal) + 1
         /\ \A other \in Keys : other # key => keys'[other] = keys[other]
<1>1. journal \in Seq(Body) /\ Len(journal) \in Nat
  BY DEF TypeOK, Body
<1>2. journal' = Append(journal, tx)
  BY DEF Recorded
<1>3. keys \in [Keys -> 0..Len(journal)] /\ keys' = [keys EXCEPT ![key] = Len(journal) + 1]
  BY DEF TypeOK, Recorded, NextIndex
<1>4. keys[key] = 0
  BY DEF Recorded, Absent
<1>5. Len(journal') = Len(journal) + 1 /\ journal' \in Seq(Body)
  BY <1>1, <1>2
<1>6. journal'[Len(journal) + 1] = tx /\ \A i \in 1..Len(journal) : journal'[i] = journal[i]
  BY <1>1, <1>2
<1>7. keys' \in [Keys -> 0..Len(journal')]
  BY <1>1, <1>3, <1>5
<1> QED
  BY <1>1, <1>3, <1>4, <1>5, <1>6, <1>7

LEMMA StepType == TypeOK /\ [Next]_vars => TypeOK'
<1> SUFFICES ASSUME TypeOK, [Next]_vars PROVE TypeOK'
  OBVIOUS
<1>1. CASE UNCHANGED vars
  BY <1>1 DEF TypeOK, vars
<1>2. ASSUME NEW key \in Keys, NEW tx \in Body, Recorded(key, tx) PROVE TypeOK'
  <2>1. DOMAIN answer' = {"key", "body", "outcome"}
    BY <1>2 DEF Recorded, Answered
  <2> QED
    BY <1>2, <2>1, RecordedLemma DEF TypeOK, Body
<1>3. ASSUME NEW key \in Keys, NEW tx, Left(key, tx) PROVE TypeOK'
  <2>1. DOMAIN answer' = {"key", "body", "outcome"}
    BY <1>3 DEF Left, Answered
  <2>2. journal' = journal /\ keys' = keys
    BY <1>3 DEF Left
  <2> QED
    BY <2>1, <2>2 DEF TypeOK
<1> QED
  BY <1>1, <1>2, <1>3, CallLemma

\* The types hold, whatever is posted and reversed, so no amount of the journal is
\* ever outside its width (transaction.rs:65-91).
THEOREM TypeCorrect == Spec => []TypeOK
<1> QED
  BY InitType, StepType, PTL DEF Spec

-----------------------------------------------------------------------------
LEMMA StepKeys == TypeOK /\ EachKeyOwnsOne /\ [Next]_vars => EachKeyOwnsOne'
<1> SUFFICES ASSUME TypeOK, EachKeyOwnsOne, [Next]_vars PROVE EachKeyOwnsOne'
  OBVIOUS
<1>1. CASE UNCHANGED vars
  BY <1>1 DEF EachKeyOwnsOne, vars
<1>2. ASSUME NEW key \in Keys, NEW tx \in Body, Recorded(key, tx) PROVE EachKeyOwnsOne'
  <2>1. ASSUME NEW i \in 1..Len(journal')
        PROVE  \E owner \in Keys : keys'[owner] = i
    <3>1. CASE i = Len(journal) + 1
      BY <1>2, <3>1, RecordedLemma
    <3>2. CASE i \in 1..Len(journal)
      <4>1. PICK owner \in Keys : keys[owner] = i
        BY <3>2 DEF EachKeyOwnsOne
      <4>2. owner # key
        BY <1>2, <3>2, <4>1, RecordedLemma
      <4> QED
        BY <1>2, <4>1, <4>2, RecordedLemma
    <3> QED
      BY <1>2, <2>1, <3>1, <3>2, RecordedLemma
  <2>2. ASSUME NEW one \in Keys, NEW other \in Keys,
               keys'[one] = keys'[other], keys'[one] # Absent
        PROVE  one = other
    <3>1. \A k \in Keys : keys[k] \in 0..Len(journal)
      BY DEF TypeOK
    <3>2. \A k \in Keys : keys[k] # Len(journal) + 1
      BY <1>2, <3>1, RecordedLemma
    <3>3. CASE one = key \/ other = key
      BY <1>2, <2>2, <3>2, <3>3, RecordedLemma
    <3>4. CASE one # key /\ other # key
      BY <1>2, <2>2, <3>4, RecordedLemma DEF EachKeyOwnsOne
    <3> QED
      BY <3>3, <3>4
  <2> QED
    BY <2>1, <2>2 DEF EachKeyOwnsOne, Absent
<1>3. ASSUME NEW key \in Keys, NEW tx, Left(key, tx) PROVE EachKeyOwnsOne'
  BY <1>3 DEF Left, EachKeyOwnsOne
<1> QED
  BY <1>1, <1>2, <1>3, CallLemma

\* Every transaction of the journal belongs to exactly one key (store.rs:36-50).
THEOREM KeysAreExact == Spec => []EachKeyOwnsOne
<1>1. Init => EachKeyOwnsOne
  BY DEF Init, EachKeyOwnsOne, Absent
<1> QED
  BY <1>1, InitType, StepType, StepKeys, PTL DEF Spec

-----------------------------------------------------------------------------
LEMMA InitRefines == Init => Promise!Init
<1> SUFFICES ASSUME Init PROVE Promise!Init
  OBVIOUS
<1>1. Entries = [key \in Keys |-> <<>>]
  BY DEF Init, Entries
<1>2. answer.outcome = "none"
  BY DEF Init
<1> QED
  BY <1>1, <1>2 DEF Promise!Init

LEMMA StepRefines == TypeOK /\ TypeOK' /\ [Next]_vars => [Promise!Next]_<<Entries, answer>>
<1> SUFFICES ASSUME TypeOK, TypeOK', [Next]_vars
             PROVE  Promise!Call \/ UNCHANGED <<Entries, answer>>
  BY DEF Promise!Next
<1>1. CASE UNCHANGED vars
  BY <1>1 DEF vars, Entries
<1>2. Entries' \in [Keys -> Body \cup {<<>>}]
  <2>1. ASSUME NEW key \in Keys, keys'[key] # Absent PROVE journal'[keys'[key]] \in Body
    BY <2>1 DEF TypeOK, Body, Absent
  <2> QED
    BY <2>1 DEF Entries
<1>3. ASSUME NEW key \in Keys, NEW tx \in Body, Recorded(key, tx) PROVE Promise!Call
  <2>1. answer'.key = key /\ answer'.body = tx /\ answer'.outcome = "ok"
    BY <1>3 DEF Recorded, Answered
  <2>2. Entries[key] = <<>> /\ Entries'[key] = tx
    BY <1>3, RecordedLemma DEF Entries, Absent
  <2>3. ASSUME NEW other \in Keys, other # key PROVE Entries'[other] = Entries[other]
    <3>1. keys'[other] = keys[other] /\ keys[other] \in 0..Len(journal)
      BY <1>3, <2>3, RecordedLemma DEF TypeOK
    <3> QED
      BY <1>3, <3>1, RecordedLemma DEF Entries, Absent
  <2> QED
    BY <1>2, <2>1, <2>2, <2>3 DEF Promise!Call, Body
<1>4. ASSUME NEW key \in Keys, NEW tx, Left(key, tx) PROVE Promise!Call
  <2>1. Entries' = Entries
    BY <1>4 DEF Left, Entries
  <2>2. answer'.key = key /\ answer'.body = tx
    BY <1>4 DEF Left, Answered
  <2>3. answer'.outcome = "ok" => Entries[key] = tx
    BY <1>4 DEF Left, Answered, Entries, SameBody
  <2>4. answer'.outcome = "conflict" => Entries[key] # tx /\ keys[key] # Absent
    BY <1>4 DEF Left, Answered, Entries, SameBody
  <2>5. keys[key] # Absent => Entries[key] # <<>>
    BY DEF Entries, TypeOK, Absent
  <2> QED
    BY <1>2, <2>1, <2>2, <2>3, <2>4, <2>5 DEF Promise!Call, Body
<1> QED
  BY <1>1, <1>3, <1>4, CallLemma

\* The store keeps the promise of its trait (store.rs:10-13): an accepted key keeps
\* its body, and repeating a call changes nothing.
THEOREM StoreKeepsPromise == Spec => ImplementsBooks
<1> QED
  BY InitType, StepType, InitRefines, StepRefines, PTL DEF Spec, ImplementsBooks, Promise!Spec

-----------------------------------------------------------------------------
(* What transactions net to *)

LEMMA PostingAmounts == \A p \in Posting : p.amount \in Int
BY WidthAssumption DEF Posting, Amount

\* The reversal of a transaction moves the opposite of what it moved.
LEMMA AmountsReversed ==
  ASSUME NEW tx \in Seq(Posting), Reversal(tx) \in Seq(Posting), NEW accounts, NEW asset
  PROVE  Total(Amounts(tx, accounts, asset)) + Total(Amounts(Reversal(tx), accounts, asset)) = 0
<1> DEFINE a == Amounts(tx, accounts, asset)
           b == Amounts(Reversal(tx), accounts, asset)
<1>1. a \in Seq(Int) /\ b \in Seq(Int) /\ Len(a) = Len(tx) /\ Len(b) = Len(Reversal(tx))
  BY PostingAmounts, AmountsType
<1>2. Len(Reversal(tx)) = Len(tx) /\ Len(tx) \in Nat
  BY DEF Reversal
<1>3. ASSUME NEW i \in 1..Len(tx) PROVE b[i] = -a[i]
  <2>1. tx[i] \in Posting  OBVIOUS
  <2>2. /\ Reversal(tx)[i].account = tx[i].account /\ Reversal(tx)[i].asset = tx[i].asset
        /\ Reversal(tx)[i].amount = -tx[i].amount
    BY <2>1 DEF Reversal, Posting
  <2>3. i \in 1..Len(Reversal(tx))  BY <1>2
  <2> QED  BY <2>2, <2>3 DEF Amounts
<1> HIDE DEF a, b
<1>4. Len(a) = Len(b) /\ \A i \in 1..Len(a) : b[i] = -a[i]  BY <1>1, <1>2, <1>3
<1>5. Total(a) + Total(b) = 0  BY <1>1, <1>4, TotalOpposite
<1> QED  BY <1>5 DEF a, b

\* It nets to zero in every asset.
Nets(tx) == \A asset \in Assets : Total(Legs(tx, asset)) = 0

\* With overflow checks, what new lets through nets to zero, and so does a reversal
\* of what nets to zero.
LEMMA WrittenNets ==
  ASSUME TypeOK, JournalBalances, ~Wraps, NEW tx \in Body, Written(tx)
  PROVE  Nets(tx)
<1> SUFFICES ASSUME NEW asset \in Assets PROVE Total(Legs(tx, asset)) = 0
  BY DEF Nets
<1>1. tx \in Seq(Posting)  BY DEF Body
<1>2. CASE ~Panics(tx) /\ Balanced(tx)
  <2> DEFINE legs == Legs(tx, asset)
  <2>1. legs \in Seq(Int)  BY <1>1, PostingAmounts, AmountsType DEF Legs
  <2>2. Fits(legs) /\ Total(legs) % (2 * Half) = 0  BY <1>2 DEF Panics, Balanced
  <2> HIDE DEF legs
  <2>3. Len(legs) \in 0..Len(legs)  BY <2>1
  <2>4. Total(legs) \in Amount  BY <2>2, <2>3 DEF Fits, Total
  <2>5. Half \in Nat \ {0}  BY WidthAssumption
  <2>6. 2 * Half \in Nat \ {0} /\ Total(legs) \in Int /\ -(2 * Half) < Total(legs) /\ Total(legs) < 2 * Half
    BY <2>4, <2>5 DEF Amount
  <2> QED  BY <2>2, <2>6, ZeroModulo DEF legs
<1>3. CASE \E i \in 1..Len(journal) : Reversible(journal[i]) /\ tx = Reversal(journal[i])
  <2>1. PICK i \in 1..Len(journal) : tx = Reversal(journal[i])  BY <1>3
  <2>2. journal[i] \in Seq(Posting)  BY DEF TypeOK
  <2>3. Total(Legs(journal[i], asset)) = 0  BY DEF JournalBalances
  <2>4. Total(Legs(journal[i], asset)) + Total(Legs(tx, asset)) = 0
    BY <1>1, <2>1, <2>2, AmountsReversed DEF Legs
  <2>5. Total(Legs(tx, asset)) \in Int  BY <1>1, PostingAmounts, AmountsType, TotalType DEF Legs
  <2> QED  BY <2>3, <2>4, <2>5
<1> QED  BY <1>2, <1>3 DEF Written

LEMMA StepBalances ==
  ASSUME ~Wraps
  PROVE  TypeOK /\ JournalBalances /\ [Next]_vars => JournalBalances'
<1> SUFFICES ASSUME TypeOK, JournalBalances, [Next]_vars PROVE JournalBalances'
  OBVIOUS
<1>1. CASE UNCHANGED vars
  BY <1>1 DEF JournalBalances, vars, Legs, Amounts
<1>2. ASSUME NEW key \in Keys, NEW tx \in Body, Recorded(key, tx), Written(tx)
      PROVE  JournalBalances'
  <2>1. Nets(tx)  BY <1>2, WrittenNets
  <2> SUFFICES ASSUME NEW i \in 1..Len(journal'), NEW asset \in Assets
               PROVE  Total(Legs(journal'[i], asset)) = 0
    BY DEF JournalBalances
  <2>2. CASE i \in 1..Len(journal)
    BY <1>2, <2>2, RecordedLemma DEF JournalBalances
  <2>3. CASE i = Len(journal) + 1
    BY <1>2, <2>1, <2>3, RecordedLemma DEF Nets
  <2> QED  BY <1>2, <2>2, <2>3, RecordedLemma
<1>3. ASSUME NEW key \in Keys, NEW tx, Left(key, tx) PROVE JournalBalances'
  BY <1>3 DEF Left, JournalBalances
<1> QED  BY <1>1, <1>2, <1>3, CallLemma

\* Built with overflow checks, whoever holds a transaction holds postings that net to
\* zero in each asset, whatever is submitted and reversed (transaction.rs:11-13).
THEOREM TransactionsNetToZero == ~Wraps => (Spec => []JournalBalances)
<1> SUFFICES ASSUME ~Wraps PROVE Spec => []JournalBalances
  OBVIOUS
<1>1. Init => JournalBalances
  BY DEF Init, JournalBalances
<1>2. TypeOK /\ JournalBalances /\ [Next]_vars => JournalBalances'
  BY StepBalances
<1> QED  BY <1>1, <1>2, InitType, StepType, PTL DEF Spec

-----------------------------------------------------------------------------
(* Balances *)

\* All postings of the journal together net to zero in every asset.
AllNets == \A asset \in Assets : Total(Amounts(FlattenSeq(journal), Accounts, asset)) = 0

\* A recorded transaction adds its amounts to those folded before.
LEMMA RecordedFolds ==
  ASSUME TypeOK, NEW key \in Keys, NEW tx \in Body, Recorded(key, tx), NEW accounts, NEW asset
  PROVE  LET before == Amounts(FlattenSeq(journal), accounts, asset)
             more   == Amounts(tx, accounts, asset)
         IN  /\ before \in Seq(Int) /\ more \in Seq(Int)
             /\ Amounts(FlattenSeq(journal'), accounts, asset) = before \o more
<1>1. journal \in Seq(Seq(Posting)) /\ tx \in Seq(Posting) /\ journal' = Append(journal, tx)
  <2>1. \A i \in 1..Len(journal) : journal[i] \in Seq(Posting)  BY DEF TypeOK
  <2> QED  BY <2>1 DEF TypeOK, Body, Recorded
<1>2. /\ FlattenSeq(journal) \in Seq(Posting)
      /\ FlattenSeq(journal') = FlattenSeq(journal) \o tx
  BY <1>1, FlattenAppend
<1>3. /\ Amounts(FlattenSeq(journal), accounts, asset) \in Seq(Int)
      /\ Amounts(tx, accounts, asset) \in Seq(Int)
  BY <1>1, <1>2, PostingAmounts, AmountsType
<1>4. Amounts(FlattenSeq(journal) \o tx, accounts, asset)
        = Amounts(FlattenSeq(journal), accounts, asset) \o Amounts(tx, accounts, asset)
  <2> DEFINE flat == FlattenSeq(journal)
  <2>1. flat \in Seq(Posting) /\ tx \in Seq(Posting)  BY <1>1, <1>2
  <2>2. \A p \in Posting : p.amount \in Int  BY PostingAmounts
  <2> HIDE DEF flat
  <2>3. Amounts(flat \o tx, accounts, asset)
          = Amounts(flat, accounts, asset) \o Amounts(tx, accounts, asset)
    BY <2>1, <2>2, AmountsConcat, SMT
  <2> QED  BY <2>3 DEF flat
<1> QED  BY <1>2, <1>3, <1>4

LEMMA StepAllNets ==
  ASSUME ~Wraps
  PROVE  TypeOK /\ JournalBalances /\ AllNets /\ [Next]_vars => AllNets'
<1> SUFFICES ASSUME TypeOK, JournalBalances, AllNets, [Next]_vars PROVE AllNets'
  OBVIOUS
<1>1. CASE UNCHANGED vars
  BY <1>1 DEF AllNets, vars
<1>2. ASSUME NEW key \in Keys, NEW tx \in Body, Recorded(key, tx), Written(tx) PROVE AllNets'
  <2> SUFFICES ASSUME NEW asset \in Assets
               PROVE  Total(Amounts(FlattenSeq(journal'), Accounts, asset)) = 0
    BY DEF AllNets
  <2> DEFINE before == Amounts(FlattenSeq(journal), Accounts, asset)
             more   == Amounts(tx, Accounts, asset)
  <2>1. Nets(tx)  BY <1>2, WrittenNets
  <2>2. Total(more) = 0 /\ Total(before) = 0  BY <2>1 DEF Nets, Legs, AllNets
  <2>3. /\ before \in Seq(Int) /\ more \in Seq(Int)
        /\ Amounts(FlattenSeq(journal'), Accounts, asset) = before \o more
    BY <1>2, RecordedFolds
  <2> HIDE DEF before, more
  <2>4. Total(before \o more) = 0  BY <2>2, <2>3, TotalConcat
  <2> QED  BY <2>3, <2>4
<1>3. ASSUME NEW key \in Keys, NEW tx, Left(key, tx) PROVE AllNets'
  BY <1>3 DEF Left, AllNets
<1> QED  BY <1>1, <1>2, <1>3, CallLemma

\* The balances of a set of accounts are added up by adding up their postings.
LEMMA BalancesAddUp ==
  ASSUME TypeOK, NEW asset
  PROVE  SumFunction([account \in Accounts |-> Total(Folded(journal, account, asset))])
           = Total(Amounts(FlattenSeq(journal), Accounts, asset))
<1> DEFINE flat == FlattenSeq(journal)
           f == [account \in Accounts |-> Total(Folded(journal, account, asset))]
           h == [some \in SUBSET Accounts |-> Total(Amounts(flat, some, asset))]
<1>1. flat \in Seq(Posting)
  <2>1. \A i \in 1..Len(journal) : journal[i] \in Seq(Posting)  BY DEF TypeOK
  <2>2. journal \in Seq(Seq(Posting)) /\ <<>> \in Seq(Posting)  BY <2>1 DEF TypeOK
  <2> QED  BY <2>2, FlattenAppend
<1>2. \A account \in Accounts : f[account] = Total(Amounts(flat, {account}, asset))
  BY DEF Folded
<1> HIDE DEF flat, f
<1>3. \A some : Amounts(flat, some, asset) \in Seq(Int) /\ Len(Amounts(flat, some, asset)) = Len(flat)
  BY <1>1, PostingAmounts, AmountsType
<1>4. h[{}] = 0
  <2>1. \A i \in 1..Len(flat) : Amounts(flat, {}, asset)[i] = 0  BY DEF Amounts
  <2>2. Total(Amounts(flat, {}, asset)) = 0  BY <1>3, <2>1, TotalZero
  <2> QED  BY <2>2
<1>5. \A some \in SUBSET Accounts : h[some] \in Int
  BY <1>3, TotalType
<1>6. ASSUME NEW some \in SUBSET Accounts, NEW x \in Accounts \ some
      PROVE  h[some \cup {x}] = h[some] + f[x]
  <2> DEFINE a == Amounts(flat, some, asset)
             b == Amounts(flat, {x}, asset)
             c == Amounts(flat, some \cup {x}, asset)
  <2>1. ASSUME NEW i \in 1..Len(flat) PROVE c[i] = a[i] + b[i]
    <3>1. flat[i].amount \in Int
      <4>1. flat[i] \in Posting  BY <1>1
      <4> QED  BY <4>1, WidthAssumption DEF Posting, Amount
    <3> QED  BY <3>1 DEF Amounts
  <2>2. Total(c) = Total(a) + Total(b)
    <3>1. a \in Seq(Int) /\ b \in Seq(Int) /\ c \in Seq(Int)
      BY <1>3
    <3>2. Len(a) = Len(flat) /\ Len(b) = Len(flat) /\ Len(c) = Len(flat)
      BY <1>3
    <3> HIDE DEF a, b, c
    <3> QED  BY <2>1, <3>1, <3>2, TotalAdds
  <2>3. some \cup {x} \in SUBSET Accounts  OBVIOUS
  <2> QED  BY <1>2, <2>2, <2>3
<1> HIDE DEF h
<1>7. Additive(h, f, Accounts)  BY <1>4, <1>5, <1>6 DEF Additive
<1>8. \A x \in Accounts : f[x] \in Int  BY <1>2, <1>3, TotalType
<1>9. SumFunctionOnSet(f, Accounts) = h[Accounts]
  BY <1>7, <1>8, AccountsAssumption, SumIsAdditive
<1>10. SumFunction(f) = SumFunctionOnSet(f, Accounts)  BY DEF SumFunction, f
<1> QED  BY <1>9, <1>10 DEF h, f, flat

\* Built with overflow checks, the balances of an asset sum to zero across all
\* accounts, so money is only ever moved, for every set of accounts and any requests
\* (balance.rs:26-39).
THEOREM BooksAlwaysClose == ~Wraps => (Spec => []BooksClose)
<1> SUFFICES ASSUME ~Wraps PROVE Spec => []BooksClose
  OBVIOUS
<1>1. Init => JournalBalances /\ AllNets
  <2> SUFFICES ASSUME Init PROVE JournalBalances /\ AllNets
    OBVIOUS
  <2>1. JournalBalances  BY DEF Init, JournalBalances
  <2>2. FlattenSeq(journal) = <<>>  BY DEF Init, FlattenSeq
  <2>3. ASSUME NEW asset PROVE Total(Amounts(<<>>, Accounts, asset)) = 0
    <3>0. <<>> \in Seq(Posting) /\ Len(<<>>) = 0  OBVIOUS
    <3>1. Amounts(<<>>, Accounts, asset) \in Seq(Int) /\ Len(Amounts(<<>>, Accounts, asset)) = 0
      BY <3>0, PostingAmounts, AmountsType, Zenon
    <3> QED  BY <3>1, TotalZero
  <2> QED  BY <2>1, <2>2, <2>3 DEF AllNets
<1>2. TypeOK /\ AllNets => BooksClose
  BY BalancesAddUp DEF AllNets, BooksClose
<1>3. TypeOK /\ JournalBalances /\ [Next]_vars => JournalBalances'
  BY StepBalances
<1>4. TypeOK /\ JournalBalances /\ AllNets /\ [Next]_vars => AllNets'
  BY StepAllNets
<1> QED  BY <1>1, <1>2, <1>3, <1>4, InitType, StepType, PTL DEF Spec

\* What did not fit still does not fit once more is folded after it.
LEMMA OverflowStays ==
  ASSUME NEW before \in Seq(Int), NEW more \in Seq(Int), ~Fits(before)
  PROVE  ~Fits(before \o more)
<1>1. PICK n \in 0..Len(before) : Running(before)[n] \notin Amount  BY DEF Fits
<1>2. /\ Len(before \o more) = Len(before) + Len(more) /\ Len(more) \in Nat /\ Len(before) \in Nat
      /\ Running(before \o more)[n] = Running(before)[n]
  BY RunningConcat
<1>3. n \in 0..Len(before \o more)  BY <1>2
<1> QED  BY <1>1, <1>2, <1>3 DEF Fits

\* An account whose balance overflowed can never be read again in either build,
\* whatever is appended or reversed (balance.rs:34).
THEOREM OverflowIsForEver == Spec => OverflowSticks
<1> DEFINE Sticks == \A account \in Accounts, asset \in Assets :
    ~Fits(Folded(journal, account, asset)) => ~Fits(Folded(journal', account, asset))
<1>1. TypeOK /\ [Next]_vars => [Sticks]_journal
  <2> SUFFICES ASSUME TypeOK, [Next]_vars, journal' # journal PROVE Sticks
    OBVIOUS
  <2>1. PICK key \in Keys, tx \in Body : Recorded(key, tx)
    BY CallLemma DEF Left, vars
  <2> TAKE account \in Accounts, asset \in Assets
  <2> HAVE ~Fits(Folded(journal, account, asset))
  <2>2. PICK more \in Seq(Int) :
          /\ Folded(journal, account, asset) \in Seq(Int)
          /\ Folded(journal', account, asset) = Folded(journal, account, asset) \o more
    BY <2>1, RecordedFolds DEF Folded
  <2> QED  BY <2>2, OverflowStays
<1> QED  BY <1>1, InitType, StepType, PTL DEF Spec, OverflowSticks
=============================================================================
