--------------------------- MODULE PipelineProofs ---------------------------
(***************************************************************************)
(* Proofs about Pipeline: for every chain, every width and either build,   *)
(* what reconciliation and its reversals leave in the journal are pairs of *)
(* opposite legs.                                                          *)
(***************************************************************************)
EXTENDS Pipeline, SumProofs

Message ==
  [kind : {"confirmed"}, event : Events] \cup [kind : {"reorged"}, orphaned : SUBSET Blocks]

MirrorLeg == [account : Addresses, asset : {Token}, amount : (1 - Half)..(Half - 1)]

IsMirror(tx) ==
  /\ tx \in Seq(MirrorLeg) /\ Len(tx) = 2
  /\ tx[1].amount = -tx[2].amount

\* The journal, and the index that leads into it.
LedgerInv ==
  /\ journal \in Seq(Seq(MirrorLeg))
  /\ \A i \in 1..Len(journal) : IsMirror(journal[i])
  /\ keys \in [Keys -> 0..Len(journal)]

Inv == TypeOK /\ LedgerInv

LEMMA EventFacts ==
  ASSUME NEW event \in Events
  PROVE  /\ event \in ChainEvent
         /\ idempotency_key(event) \in Keys /\ storno_key(event) \in Keys
<1>1. PICK b \in Blocks : event \in Range(Logs[b])  BY DEF Events
<1>2. Logs[b] \in Seq(ChainEvent)  BY LogsAssumption
<1>3. event \in ChainEvent  BY <1>1, <1>2 DEF Range
<1> QED  BY <1>3 DEF Keys

\* Every message of a block carries an event of it.
LEMMA MessageFacts ==
  ASSUME NEW b \in Blocks
  PROVE  Messages(b) \in Seq(Message)
<1>1. Logs[b] \in Seq(ChainEvent) /\ Len(Logs[b]) \in Nat  BY LogsAssumption
<1>2. \A i \in 1..Len(Logs[b]) : Logs[b][i] \in Events
  BY <1>1 DEF Events, Range
<1>3. \A i \in 1..Len(Logs[b]) : Confirmed(Logs[b][i]) \in Message
  BY <1>2 DEF Confirmed, Message
<1> QED  BY <1>1, <1>3 DEF Messages

\* A transfer that fits is mirrored inside the width.
LEMMA TransferMirrors ==
  ASSUME NEW event \in Events, Convertible(event.value)
  PROVE  IsMirror(Mirror(event))
<1>1. event.from \in Addresses /\ event.to \in Addresses /\ event.value \in Nat
  BY EventFacts DEF ChainEvent
<1>2. event.value <= Half - 1 /\ Half \in Nat
  BY WidthAssumption DEF Convertible
<1>3. Leg(event.from, -event.value) \in MirrorLeg /\ Leg(event.to, event.value) \in MirrorLeg
  BY <1>1, <1>2 DEF Leg, MirrorLeg
<1>4. Leg(event.from, -event.value).amount = -(Leg(event.to, event.value).amount)
  BY DEF Leg
<1> QED  BY <1>3, <1>4 DEF IsMirror, Mirror

\* So is its reversal: no amount leaves the width when it is negated.
LEMMA ReversalMirrors ==
  ASSUME NEW tx, IsMirror(tx)
  PROVE  IsMirror(L!Reversal(tx))
<1> DEFINE back == L!Reversal(tx)
<1>1. tx \in Seq(MirrorLeg) /\ Len(tx) = 2  BY DEF IsMirror
<1>2. \A i \in 1..2 : /\ tx[i].account \in Addresses /\ tx[i].asset = Token
                      /\ tx[i].amount \in (1 - Half)..(Half - 1)
                      /\ tx[i] = [account |-> tx[i].account, asset |-> tx[i].asset,
                                  amount |-> tx[i].amount]
  <2> TAKE i \in 1..2
  <2>1. tx[i] \in MirrorLeg  BY <1>1, ElementOfSeq
  <2> QED  BY <2>1 DEF MirrorLeg
<1> DEFINE Negated(i) == [tx[i] EXCEPT !.amount = -tx[i].amount]
<1>3. back = [i \in 1..2 |-> Negated(i)]
  BY <1>1 DEF L!Reversal
<1>4. ASSUME NEW i \in 1..2
      PROVE  Negated(i) \in MirrorLeg /\ Negated(i).amount = -tx[i].amount
  <2>1. -tx[i].amount \in (1 - Half)..(Half - 1)  BY <1>2, WidthAssumption
  <2>2. Negated(i) = [account |-> tx[i].account, asset |-> tx[i].asset, amount |-> -tx[i].amount]
    BY <1>2
  <2> QED  BY <1>2, <2>1, <2>2 DEF MirrorLeg
<1> HIDE DEF back, Negated
<1>5. back \in Seq(MirrorLeg) /\ Len(back) = 2
  BY <1>3, <1>4
<1>6. back[1].amount = -tx[1].amount /\ back[2].amount = -tx[2].amount
  BY <1>3, <1>4
<1>7. tx[1].amount \in Int /\ tx[2].amount \in Int /\ tx[1].amount = -tx[2].amount
  BY <1>2, WidthAssumption DEF IsMirror
<1> QED  BY <1>5, <1>6, <1>7 DEF IsMirror, back

\* Appending such a transaction, or a replay of one, keeps the journal in shape; it
\* only grows, no key loses its transaction, and an accepted key has one.
LEMMA AppendKeepsLedger ==
  ASSUME LedgerInv, NEW key \in Keys, NEW tx, IsMirror(tx), L!AppendTo(key, tx)
  PROVE  /\ LedgerInv'
         /\ \A k \in Keys : keys[k] # L!Absent => keys'[k] # L!Absent
         /\ keys'[key] # L!Absent
<1>1. Len(journal) \in Nat /\ tx \in Seq(MirrorLeg)  BY DEF LedgerInv, IsMirror
<1>2. CASE L!AppendNew(key, tx)
  <2>1. keys' = [keys EXCEPT ![key] = Len(journal) + 1] /\ journal' = Append(journal, tx)
    BY <1>2 DEF L!AppendNew, L!NextIndex
  <2>2. /\ journal' \in Seq(Seq(MirrorLeg)) /\ Len(journal') = Len(journal) + 1
        /\ \A i \in 1..Len(journal') : journal'[i] = IF i <= Len(journal) THEN journal[i] ELSE tx
    BY <1>1, <2>1 DEF LedgerInv
  <2>3. ASSUME NEW i \in 1..Len(journal')  PROVE IsMirror(journal'[i])
    <3>1. CASE i <= Len(journal)
      <4>1. i \in 1..Len(journal) /\ journal'[i] = journal[i]  BY <1>1, <2>2, <3>1
      <4> QED  BY <4>1 DEF LedgerInv
    <3>2. CASE ~(i <= Len(journal))
      <4>1. journal'[i] = tx  BY <2>2, <3>2
      <4> QED  BY <4>1
    <3> QED  BY <3>1, <3>2
  <2>4. keys' \in [Keys -> 0..Len(journal')]
    BY <1>1, <2>1, <2>2 DEF LedgerInv
  <2>5. \A k \in Keys : keys'[k] = IF k = key THEN Len(journal) + 1 ELSE keys[k]
    BY <2>1 DEF LedgerInv
  <2>6. LedgerInv'
    BY <2>2, <2>3, <2>4 DEF LedgerInv, IsMirror, MirrorLeg
  <2> QED  BY <1>1, <2>5, <2>6 DEF L!Absent
<1>3. CASE L!AppendAgain(key, tx)
  BY <1>3 DEF L!AppendAgain, LedgerInv, IsMirror, MirrorLeg
<1> QED  BY <1>2, <1>3 DEF L!AppendTo

LEMMA InvInit ==
  Init => Inv
<1> SUFFICES ASSUME Init PROVE Inv
  OBVIOUS
<1>1. /\ journal = <<>> /\ Len(journal) = 0
      /\ keys = [key \in Keys |-> L!Absent]
      /\ channel = <<>> /\ held = {} /\ live = {}
  BY DEF Init, L!Init, Feed!Init
<1>2. keys \in [Keys -> 0..Len(journal)]
  BY <1>1 DEF L!Absent
<1>3. TypeOK
  BY <1>1, <1>2 DEF TypeOK
<1>4. LedgerInv
  BY <1>1, <1>2 DEF LedgerInv
<1> QED  BY <1>3, <1>4 DEF Inv

LEMMA InvNext ==
  Inv /\ [Next]_vars => Inv'
<1> SUFFICES ASSUME Inv, [Next]_vars PROVE Inv'
  OBVIOUS
<1>1. TypeOK /\ LedgerInv /\ channel \in Seq(Message)
  BY DEF Inv, TypeOK, Message
<1>2. ASSUME UNCHANGED <<held, ledger>>, live' \subseteq Blocks, channel' \in Seq(Message)
      PROVE  Inv'
  <2>1. TypeOK'
    BY <1>1, <1>2 DEF TypeOK, ledger, Message
  <2>2. LedgerInv'
    BY <1>1, <1>2 DEF LedgerInv, ledger
  <2> QED  BY <2>1, <2>2 DEF Inv
<1>3. live \subseteq Blocks  BY <1>1 DEF TypeOK
<1>4. CASE Confirm
  BY <1>2, <1>3, <1>4, MessageFacts DEF Confirm
<1>5. CASE Retract
  <2>1. PICK lowest \in live :
          LET orphaned == {b \in live : b.number >= lowest.number} IN
            live' = live \ orphaned /\ channel' = <<Reorged(orphaned)>>
    BY <1>5 DEF Retract
  <2> DEFINE orphaned == {b \in live : b.number >= lowest.number}
  <2>2. Reorged(orphaned) \in Message
    BY <1>3 DEF Reorged, Message
  <2>3. channel' \in Seq(Message)
    BY <2>1, <2>2
  <2> QED  BY <1>2, <1>3, <1>5, <2>1, <2>3 DEF Retract
<1>6. CASE Redeliver
  BY <1>2, <1>3, <1>6, MessageFacts DEF Redeliver
<1>7. CASE Ingest
  <2> DEFINE event == Head(channel).event
             key   == idempotency_key(event)
  <2>1. channel # <<>> /\ Head(channel) \in Message /\ Tail(channel) \in Seq(Message)
    BY <1>1, <1>7 DEF Ingest
  <2>2. event \in Events
    BY <1>7, <2>1 DEF Ingest, Message
  <2>3. key \in Keys
    BY <2>2, EventFacts
  <2>4. /\ live' \subseteq Blocks /\ channel' \in Seq(Message) /\ held \subseteq Events
        /\ \A e \in held : keys[idempotency_key(e)] # L!Absent
    BY <1>1, <1>3, <1>7, <2>1 DEF Ingest, TypeOK
  <2> HIDE DEF event
  <2>5. CASE UNCHANGED <<held, journal, keys>>
    <3>1. LedgerInv'
      BY <1>1, <2>5 DEF LedgerInv
    <3>2. TypeOK'
      BY <1>1, <2>4, <2>5 DEF TypeOK, Message
    <3> QED  BY <3>1, <3>2 DEF Inv
  <2>6. CASE /\ Convertible(event.value)
             /\ L!AppendTo(key, Mirror(event))
             /\ held' = held \/ held' = held \cup {event}
    <3>1. /\ LedgerInv'
          /\ \A k \in Keys : keys[k] # L!Absent => keys'[k] # L!Absent
          /\ keys'[key] # L!Absent
      BY <1>1, <2>2, <2>3, <2>6, TransferMirrors, AppendKeepsLedger
    <3>2. \A e \in held' : e \in Events /\ keys'[idempotency_key(e)] # L!Absent
      BY <2>2, <2>4, <2>6, <3>1, EventFacts
    <3>3. TypeOK'
      BY <2>4, <3>1, <3>2 DEF TypeOK, LedgerInv, Message
    <3> QED  BY <3>1, <3>3 DEF Inv
  <2>7. \/ UNCHANGED <<held, journal, keys>>
        \/ /\ Convertible(event.value)
           /\ L!AppendTo(key, Mirror(event))
           /\ held' = held \/ held' = held \cup {event}
    BY <1>7 DEF Ingest, L!Post, L!Refused, L!Answered, event
  <2> QED  BY <2>5, <2>6, <2>7
<1>8. CASE ReverseOne
  <2>1. PICK event \in Orphaned :
          /\ L!Storno(storno_key(event), keys[idempotency_key(event)])
          /\ held' = held \ {event}
    BY <1>8 DEF ReverseOne
  <2> DEFINE i == keys[idempotency_key(event)]
  <2>2. event \in held /\ event \in Events
    BY <1>1, <2>1 DEF Orphaned, TypeOK
  <2>3. storno_key(event) \in Keys /\ idempotency_key(event) \in Keys
    BY <2>2, EventFacts
  <2>4. i \in 1..Len(journal)
    BY <1>1, <2>2, <2>3 DEF TypeOK, LedgerInv, L!Absent
  <2>5. IsMirror(L!Reversal(journal[i]))
    BY <1>1, <2>4, ReversalMirrors DEF LedgerInv
  <2>6. /\ LedgerInv'
        /\ \A k \in Keys : keys[k] # L!Absent => keys'[k] # L!Absent
    <3>1. CASE L!Refused(storno_key(event), journal[i], "overflow")
      BY <1>1, <3>1 DEF L!Refused, LedgerInv
    <3>2. CASE L!AppendTo(storno_key(event), L!Reversal(journal[i]))
      BY <1>1, <2>3, <2>5, <3>2, AppendKeepsLedger
    <3> QED  BY <2>1, <3>1, <3>2 DEF L!Storno
  <2>7. /\ live' \subseteq Blocks /\ channel' \in Seq(Message)
        /\ \A e \in held' : e \in Events /\ keys'[idempotency_key(e)] # L!Absent
    BY <1>1, <1>3, <1>8, <2>1, <2>6, EventFacts DEF ReverseOne, TypeOK
  <2>8. TypeOK'
    BY <2>6, <2>7 DEF TypeOK, LedgerInv, Message
  <2> QED  BY <2>6, <2>8 DEF Inv
<1>9. CASE ReorgDone
  <2>1. Tail(channel) \in Seq(Message)
    BY <1>1, <1>9 DEF ReorgDone
  <2> QED  BY <1>2, <1>3, <1>9, <2>1 DEF ReorgDone
<1>10. CASE UNCHANGED vars
  BY <1>1, <1>2, <1>3, <1>10 DEF vars
<1> QED  BY <1>4, <1>5, <1>6, <1>7, <1>8, <1>9, <1>10 DEF Next

LEMMA InvHolds ==
  Spec => []Inv
BY InvInit, InvNext, PTL DEF Spec

\* The types; whatever the consumer holds has its transaction in the journal.
THEOREM TypeCorrect ==
  Spec => []TypeOK
<1>1. Inv => TypeOK  BY DEF Inv
<1> QED  BY <1>1, InvHolds, PTL

\* For every width and either build, what recon writes to the ledger are two
\* opposite legs that fit the width and can be negated: neither the unchecked sums
\* of Transaction::new nor Transaction::reverse can fail on it.
THEOREM EntriesMirror ==
  Spec => []MirrorEntries
<1>1. Inv => MirrorEntries
  <2> SUFFICES ASSUME Inv, NEW i \in 1..Len(journal)
               PROVE  /\ Len(journal[i]) = 2
                      /\ journal[i][1].amount = -journal[i][2].amount
                      /\ journal[i][1].asset = journal[i][2].asset
                      /\ journal[i][2].amount \in (1 - Half)..(Half - 1)
    BY DEF MirrorEntries
  <2>1. IsMirror(journal[i])  BY DEF Inv, LedgerInv
  <2>2. journal[i][1] \in MirrorLeg /\ journal[i][2] \in MirrorLeg
    BY <2>1 DEF IsMirror
  <2> QED  BY <2>1, <2>2 DEF IsMirror, MirrorLeg
<1> QED  BY <1>1, InvHolds, PTL

-----------------------------------------------------------------------------
(* What reconciliation writes to the ledger, added up *)

LEMMA SameSums ==
  /\ \A amounts : L!Running(amounts) = Running(amounts) /\ L!Total(amounts) = Total(amounts)
  /\ \A postings, accounts, asset :
       L!Amounts(postings, accounts, asset) = Amounts(postings, accounts, asset)
BY DEF L!Running, Running, L!Total, Total, L!Amounts, Amounts

\* The two legs of a transfer and of its reversal, as amounts.
LEMMA MirrorAmounts ==
  ASSUME NEW event \in Events, Convertible(event.value)
  PROVE  LET tx   == Mirror(event)
             back == L!Reversal(tx)
         IN  /\ tx \in Seq(MirrorLeg) /\ Len(tx) = 2
             /\ back \in Seq(MirrorLeg) /\ Len(back) = 2
             /\ tx[1] = Leg(event.from, -event.value) /\ tx[2] = Leg(event.to, event.value)
             /\ back[1] = Leg(event.from, event.value) /\ back[2] = Leg(event.to, -event.value)
<1> DEFINE tx   == Mirror(event)
           back == L!Reversal(tx)
<1>1. IsMirror(tx) /\ IsMirror(back)  BY TransferMirrors, ReversalMirrors
<1>2. tx[1] = Leg(event.from, -event.value) /\ tx[2] = Leg(event.to, event.value) /\ Len(tx) = 2
  BY DEF Mirror
<1>3. event.value \in Nat  BY EventFacts DEF ChainEvent
<1>4. back[1] = Leg(event.from, -(-event.value)) /\ back[2] = Leg(event.to, -event.value)
  BY <1>2 DEF L!Reversal, Leg
<1>5. -(-event.value) = event.value  BY <1>3
<1> QED  BY <1>1, <1>2, <1>4, <1>5 DEF IsMirror

\* Transaction::new takes both legs, and Transaction::reverse reverses them.
LEMMA MirrorAccepted ==
  ASSUME NEW event \in Events, Convertible(event.value)
  PROVE  LET tx == Mirror(event)
         IN  tx # <<>> /\ ~L!Panics(tx) /\ L!Balanced(tx) /\ L!Reversible(tx)
<1> DEFINE tx == Mirror(event)
<1>1. /\ tx \in Seq(MirrorLeg) /\ Len(tx) = 2
      /\ tx[1] = Leg(event.from, -event.value) /\ tx[2] = Leg(event.to, event.value)
  BY MirrorAmounts
<1>2. event.from \in Addresses /\ event.to \in Addresses /\ event.value \in Nat
  BY EventFacts DEF ChainEvent
<1>3. event.value <= Half - 1 /\ Half \in Nat \ {0}
  BY WidthAssumption DEF Convertible
<1> DEFINE legs == L!Legs(tx, Token)
<1> HIDE DEF tx
<1>4. legs = [i \in 1..2 |-> IF tx[i].account \in Addresses /\ tx[i].asset = Token THEN tx[i].amount ELSE 0]
  BY <1>1 DEF L!Legs, L!Amounts
<1>5. legs[1] = -event.value /\ legs[2] = event.value
  BY <1>1, <1>2, <1>4 DEF Leg
<1>6. legs \in Seq(Int) /\ Len(legs) = 2
  <2>1. \A i \in 1..2 : legs[i] \in Int
    <3>1. -event.value \in Int /\ event.value \in Int  BY <1>2
    <3>2. \A i \in 1..2 : i = 1 \/ i = 2  OBVIOUS
    <3> HIDE DEF legs
    <3> QED  BY <1>5, <3>1, <3>2
  <2>2. legs = [i \in 1..2 |-> legs[i]]  BY <1>4
  <2> HIDE DEF legs
  <2> QED  BY <2>1, <2>2
<1> HIDE DEF legs
<1>7. /\ Running(legs)[0] = 0 /\ Running(legs)[1] = -event.value
      /\ Running(legs)[2] = 0 /\ Total(legs) = 0
  <2>1. /\ Running(legs)[0] = 0 /\ Running(legs)[1] = legs[1]
        /\ Running(legs)[2] = legs[1] + legs[2] /\ Total(legs) = legs[1] + legs[2]
    BY <1>6, TwoAmounts
  <2> QED  BY <1>2, <1>5, <2>1
<1>8. L!Fits(legs)
  <2>1. \A n \in 0..2 : n = 0 \/ n = 1 \/ n = 2  OBVIOUS
  <2>2. 0 \in L!Amount /\ -event.value \in L!Amount  BY <1>2, <1>3 DEF L!Amount
  <2>3. \A n \in 0..2 : Running(legs)[n] \in L!Amount  BY <1>7, <2>1, <2>2
  <2> QED  BY <1>6, <2>3, SameSums DEF L!Fits
<1>9. tx # <<>>  BY <1>1
<1>10. ~L!Panics(tx)
  BY <1>8 DEF L!Panics, legs
<1>11. L!Balanced(tx)
  <2>1. 0 % (2 * Half) = 0  BY <1>3
  <2> QED  BY <1>7, <2>1, SameSums DEF L!Balanced, legs
<1>12. L!Reversible(tx)
  <2>1. \A i \in 1..Len(tx) : tx[i].amount \in (1 - Half)..(Half - 1)
    <3>1. \A i \in 1..Len(tx) : tx[i] \in MirrorLeg  BY <1>1, ElementOfSeq
    <3> QED  BY <3>1 DEF MirrorLeg
  <2> QED  BY <1>3, <2>1 DEF L!Reversible
<1> QED  BY <1>9, <1>10, <1>11, <1>12 DEF tx

\* They move what the transfer does, and back.
LEMMA MirrorEffect ==
  ASSUME NEW event \in Events, Convertible(event.value), NEW account
  PROVE  /\ Effect(event, account) \in Int
         /\ Total(Amounts(Mirror(event), {account}, Token)) = Effect(event, account)
         /\ Total(Amounts(L!Reversal(Mirror(event)), {account}, Token)) = -Effect(event, account)
<1>1. event.value \in Nat  BY EventFacts DEF ChainEvent
<1>2. ASSUME NEW tx, NEW amount \in Int, tx \in Seq(MirrorLeg), Len(tx) = 2,
             tx[1] = Leg(event.from, -amount), tx[2] = Leg(event.to, amount)
      PROVE  Total(Amounts(tx, {account}, Token))
               = (IF event.to = account THEN amount ELSE 0) - (IF event.from = account THEN amount ELSE 0)
  <2> DEFINE a == Amounts(tx, {account}, Token)
  <2>1. \A leg \in MirrorLeg : leg.amount \in Int  BY WidthAssumption DEF MirrorLeg
  <2>2. a \in Seq(Int) /\ Len(a) = 2  BY <1>2, <2>1, AmountsType
  <2>3. a = [i \in 1..2 |-> IF tx[i].account = account /\ tx[i].asset = Token THEN tx[i].amount ELSE 0]
    BY <1>2 DEF Amounts
  <2>4. /\ a[1] = IF event.from = account THEN -amount ELSE 0
        /\ a[2] = IF event.to = account THEN amount ELSE 0
    BY <1>2, <2>3 DEF Leg
  <2> HIDE DEF a
  <2>5. Total(a) = a[1] + a[2]  BY <2>2, TwoAmounts
  <2> QED  BY <2>4, <2>5 DEF a
<1>3. Total(Amounts(Mirror(event), {account}, Token)) = Effect(event, account)
  <2>1. /\ event.value \in Int /\ Mirror(event) \in Seq(MirrorLeg) /\ Len(Mirror(event)) = 2
        /\ Mirror(event)[1] = Leg(event.from, -event.value)
        /\ Mirror(event)[2] = Leg(event.to, event.value)
    BY <1>1, MirrorAmounts
  <2> QED  BY <1>2, <2>1, Zenon DEF Effect
<1>4. L!Reversal(Mirror(event))[1] = Leg(event.from, -(-event.value))
  <2>1. -(-event.value) = event.value  BY <1>1
  <2> QED  BY <2>1, MirrorAmounts
<1>5. Total(Amounts(L!Reversal(Mirror(event)), {account}, Token))
        = (IF event.to = account THEN -event.value ELSE 0) - (IF event.from = account THEN -event.value ELSE 0)
  <2>1. -event.value \in Int  BY <1>1
  <2> HIDE DEF Mirror, L!Reversal
  <2> QED  BY <1>2, <1>4, <2>1, MirrorAmounts
<1> QED  BY <1>1, <1>3, <1>5 DEF Effect

-----------------------------------------------------------------------------
(* What the consumer holds *)

Booked(event) == keys[idempotency_key(event)] # L!Absent

\* It is what it has booked and not reversed, each log once.
HeldInv ==
  /\ IsFiniteSet(held)
  /\ \A e \in held : /\ Convertible(e.value) /\ Booked(e) /\ ~Retracted(e)
                     /\ journal[keys[idempotency_key(e)]] = Mirror(e)
  /\ \A e, f \in held : idempotency_key(e) = idempotency_key(f) => e = f
  /\ \A e \in Events : Booked(e) /\ ~Retracted(e) =>
       \E f \in held : idempotency_key(f) = idempotency_key(e)

\* The balances are what it amounts to.
SumsInv ==
  \A account \in Addresses :
    Total(Folded(journal, account, Token)) = SumFunction([e \in held |-> Effect(e, account)])

LEMMA KeysDiffer ==
  ASSUME NEW e, NEW f
  PROVE  /\ idempotency_key(e) # storno_key(f)
         /\ idempotency_key(e) = idempotency_key(f) <=> storno_key(e) = storno_key(f)
<1>1. idempotency_key(e).kind = "transfer" /\ storno_key(f).kind = "storno"
  BY DEF idempotency_key, storno_key
<1>2. /\ idempotency_key(e).tx_hash = e.tx_hash /\ idempotency_key(f).tx_hash = f.tx_hash
      /\ idempotency_key(e).log_index = e.log_index /\ idempotency_key(f).log_index = f.log_index
      /\ storno_key(e).tx_hash = e.tx_hash /\ storno_key(f).tx_hash = f.tx_hash
      /\ storno_key(e).log_index = e.log_index /\ storno_key(f).log_index = f.log_index
  BY DEF idempotency_key, storno_key
<1>3. idempotency_key(e) = idempotency_key(f) <=> e.tx_hash = f.tx_hash /\ e.log_index = f.log_index
  BY <1>2 DEF idempotency_key
<1>4. storno_key(e) = storno_key(f) <=> e.tx_hash = f.tx_hash /\ e.log_index = f.log_index
  BY <1>2 DEF storno_key
<1>5. "transfer" # "storno"  OBVIOUS
<1>6. idempotency_key(e) # storno_key(f)  BY <1>1, <1>5, Zenon
<1> QED  BY <1>3, <1>4, <1>6

\* A new transaction adds its amounts to the balance.
LEMMA BalanceMoves ==
  ASSUME LedgerInv, NEW tx \in Seq(MirrorLeg), journal' = Append(journal, tx), NEW account
  PROVE  /\ Total(Folded(journal, account, Token)) \in Int
         /\ Total(Folded(journal', account, Token))
              = Total(Folded(journal, account, Token)) + Total(Amounts(tx, {account}, Token))
<1> DEFINE flat == FlattenSeq(journal)
<1>1. flat \in Seq(MirrorLeg) /\ FlattenSeq(journal') = flat \o tx
  BY FlattenAppend DEF LedgerInv
<1>2. \A leg \in MirrorLeg : leg.amount \in Int  BY WidthAssumption DEF MirrorLeg
<1> HIDE DEF flat
<1>3. Amounts(flat, {account}, Token) \in Seq(Int) /\ Amounts(tx, {account}, Token) \in Seq(Int)
  BY <1>1, <1>2, AmountsType, SMT
<1>4. Amounts(flat \o tx, {account}, Token)
        = Amounts(flat, {account}, Token) \o Amounts(tx, {account}, Token)
  BY <1>1, <1>2, AmountsConcat, SMT
<1>5. Total(Amounts(flat \o tx, {account}, Token))
        = Total(Amounts(flat, {account}, Token)) + Total(Amounts(tx, {account}, Token))
  BY <1>3, <1>4, TotalConcat, Zenon
<1> QED  BY <1>1, <1>3, <1>5, TotalType DEF Folded, flat

Transfers == {e \in Events : Convertible(e.value)}

\* What a set of transfers amounts to grows with each by its effect.
LEMMA EffectsGrow ==
  ASSUME NEW H, IsFiniteSet(H), H \subseteq Transfers, NEW event \in Transfers \ H, NEW account
  PROVE  /\ SumFunction([e \in H |-> Effect(e, account)]) \in Int
         /\ SumFunction([e \in H \cup {event} |-> Effect(e, account)])
              = SumFunction([e \in H |-> Effect(e, account)]) + Effect(event, account)
<1> DEFINE f == [e \in H |-> Effect(e, account)]
           g == [e \in H \cup {event} |-> Effect(e, account)]
<1>1. \A e \in H \cup {event} : Effect(e, account) \in Int
  <2> TAKE e \in H \cup {event}
  <2>1. e \in Events /\ Convertible(e.value)  BY DEF Transfers
  <2> QED  BY <2>1, MirrorEffect
<1>2. f \in [H -> Int] /\ g \in [H \cup {event} -> Int]  BY <1>1
<1>3. (\A e \in H : g[e] = f[e]) /\ g[event] = Effect(event, account)  OBVIOUS
<1>4. event \notin H  OBVIOUS
<1> HIDE DEF f, g
<1>5. SumFunction(f) \in Int  BY <1>2, FunctionSumType
<1>6. SumFunction(g) = SumFunction(f) + g[event]
  BY <1>2, <1>3, <1>4, FunctionGrows
<1> QED  BY <1>3, <1>5, <1>6 DEF f, g

\* A transfer is booked that was not.
LEMMA BookedIsHeld ==
  ASSUME Inv, HeldInv, SumsInv, NEW event \in Events, Convertible(event.value), ~Retracted(event),
         L!AppendNew(idempotency_key(event), Mirror(event)), held' = held \cup {event}
  PROVE  HeldInv' /\ SumsInv'
<1> DEFINE key == idempotency_key(event)
<1>1. /\ TypeOK /\ LedgerInv /\ held \subseteq Events /\ Len(journal) \in Nat
      /\ keys \in [Keys -> 0..Len(journal)]
  BY DEF Inv, TypeOK, LedgerInv
<1>2. /\ key \in Keys /\ keys[key] = 0
      /\ keys' = [keys EXCEPT ![key] = Len(journal) + 1] /\ journal' = Append(journal, Mirror(event))
  BY EventFacts DEF L!AppendNew, L!NextIndex, L!Absent
<1>3. Mirror(event) \in Seq(MirrorLeg)  BY MirrorAmounts
<1>4. /\ \A i \in 1..Len(journal) : journal'[i] = journal[i]
      /\ journal'[Len(journal) + 1] = Mirror(event)
  BY <1>1, <1>2, <1>3 DEF LedgerInv
<1>5. \A e \in Events : /\ idempotency_key(e) \in Keys /\ storno_key(e) \in Keys
                        /\ keys[idempotency_key(e)] \in 0..Len(journal)
  BY <1>1, EventFacts
<1>6. keys'[key] = Len(journal) + 1 /\ \A k \in Keys \ {key} : keys'[k] = keys[k]
  BY <1>1, <1>2
<1>7. \A e \in Events : Retracted(e)' <=> Retracted(e)
  BY <1>5, <1>6, KeysDiffer DEF Retracted
<1>8. \A e \in held : idempotency_key(e) # key
  BY <1>2 DEF HeldInv, Booked, L!Absent
<1>9. event \notin held  BY <1>8
<1>10. IsFiniteSet(held')  BY FS_AddElement DEF HeldInv
<1>11. ASSUME NEW e \in held'
       PROVE  /\ Convertible(e.value) /\ Booked(e)' /\ ~Retracted(e)'
              /\ journal'[keys'[idempotency_key(e)]] = Mirror(e)
  <2>1. CASE e = event
    <3>1. keys'[idempotency_key(e)] = Len(journal) + 1  BY <1>6, <2>1
    <3>2. Booked(e)'  BY <1>1, <3>1 DEF Booked, L!Absent
    <3> QED  BY <1>4, <1>7, <2>1, <3>1, <3>2
  <2>2. CASE e \in held
    <3>1. e \in Events /\ keys'[idempotency_key(e)] = keys[idempotency_key(e)]
      BY <1>1, <1>5, <1>6, <1>8, <2>2
    <3>2. /\ Convertible(e.value) /\ Booked(e) /\ ~Retracted(e)
          /\ journal[keys[idempotency_key(e)]] = Mirror(e)
      BY <2>2 DEF HeldInv
    <3>3. keys[idempotency_key(e)] \in 1..Len(journal)
      BY <1>5, <3>1, <3>2 DEF Booked, L!Absent
    <3> QED  BY <1>4, <1>7, <3>1, <3>2, <3>3 DEF Booked
  <2> QED  BY <2>1, <2>2
<1>12. \A e, f \in held' : idempotency_key(e) = idempotency_key(f) => e = f
  BY <1>8 DEF HeldInv
<1>13. ASSUME NEW e \in Events, Booked(e)', ~Retracted(e)'
       PROVE  \E f \in held' : idempotency_key(f) = idempotency_key(e)
  <2>1. CASE idempotency_key(e) = key  BY <2>1
  <2>2. CASE idempotency_key(e) # key
    <3>1. Booked(e) /\ ~Retracted(e)  BY <1>5, <1>6, <1>7, <1>13, <2>2 DEF Booked
    <3> QED  BY <3>1 DEF HeldInv
  <2> QED  BY <2>1, <2>2
<1>14. HeldInv'
  BY <1>10, <1>11, <1>12, <1>13 DEF HeldInv
<1>15. ASSUME NEW account \in Addresses
       PROVE  Total(Folded(journal', account, Token)) = SumFunction([e \in held' |-> Effect(e, account)])
  <2>1. held \subseteq Transfers /\ event \in Transfers  BY <1>1 DEF HeldInv, Transfers
  <2>2. Total(Folded(journal', account, Token))
          = Total(Folded(journal, account, Token)) + Effect(event, account)
    BY <1>1, <1>2, <1>3, BalanceMoves, MirrorEffect
  <2>3. SumFunction([e \in held \cup {event} |-> Effect(e, account)])
          = SumFunction([e \in held |-> Effect(e, account)]) + Effect(event, account)
    BY <1>1, <1>9, <2>1, EffectsGrow DEF HeldInv
  <2>4. Total(Folded(journal, account, Token)) = SumFunction([e \in held |-> Effect(e, account)])
    BY DEF SumsInv
  <2> QED  BY <2>2, <2>3, <2>4, Zenon
<1>16. SumsInv'  BY <1>15 DEF SumsInv
<1> QED  BY <1>14, <1>16

\* A transfer that is held is reversed.
LEMMA ReversedIsNot ==
  ASSUME Inv, HeldInv, SumsInv, NEW event \in held,
         L!AppendNew(storno_key(event), L!Reversal(Mirror(event))), held' = held \ {event}
  PROVE  HeldInv' /\ SumsInv'
<1> DEFINE key == storno_key(event)
           back == L!Reversal(Mirror(event))
<1>1. /\ TypeOK /\ LedgerInv /\ held \subseteq Events /\ Len(journal) \in Nat
      /\ keys \in [Keys -> 0..Len(journal)] /\ event \in Events /\ Convertible(event.value)
  BY DEF Inv, TypeOK, LedgerInv, HeldInv
<1>2. /\ key \in Keys /\ keys[key] = 0
      /\ keys' = [keys EXCEPT ![key] = Len(journal) + 1] /\ journal' = Append(journal, back)
  BY <1>1, EventFacts DEF L!AppendNew, L!NextIndex, L!Absent
<1>3. back \in Seq(MirrorLeg)  BY <1>1, MirrorAmounts
<1> HIDE DEF back
<1>4. \A i \in 1..Len(journal) : journal'[i] = journal[i]
  BY <1>1, <1>2, <1>3 DEF LedgerInv
<1>5. \A e \in Events : /\ idempotency_key(e) \in Keys /\ storno_key(e) \in Keys
                        /\ keys[idempotency_key(e)] \in 0..Len(journal)
  BY <1>1, EventFacts
<1>6. keys'[key] = Len(journal) + 1 /\ \A k \in Keys \ {key} : keys'[k] = keys[k]
  BY <1>1, <1>2
<1>7. \A e \in Events : /\ keys'[idempotency_key(e)] = keys[idempotency_key(e)]
                        /\ Booked(e)' <=> Booked(e)
  BY <1>5, <1>6, KeysDiffer DEF Booked
<1>8. \A e \in Events : Retracted(e)' <=> Retracted(e) \/ storno_key(e) = key
  <2> TAKE e \in Events
  <2>1. CASE storno_key(e) = key
    BY <1>1, <1>6, <2>1 DEF Retracted, L!Absent
  <2>2. CASE storno_key(e) # key
    BY <1>5, <1>6, <2>2 DEF Retracted
  <2> QED  BY <2>1, <2>2
<1>9. IsFiniteSet(held')  BY FS_Subset DEF HeldInv
<1>10. ASSUME NEW e \in held'
       PROVE  /\ Convertible(e.value) /\ Booked(e)' /\ ~Retracted(e)'
              /\ journal'[keys'[idempotency_key(e)]] = Mirror(e)
  <2>1. e \in held /\ e \in Events /\ e # event  BY <1>1
  <2>2. /\ Convertible(e.value) /\ Booked(e) /\ ~Retracted(e)
        /\ journal[keys[idempotency_key(e)]] = Mirror(e)
    BY <2>1 DEF HeldInv
  <2>3. storno_key(e) # key
    BY <2>1, KeysDiffer DEF HeldInv
  <2>4. keys[idempotency_key(e)] \in 1..Len(journal)
    BY <1>5, <2>1, <2>2 DEF Booked, L!Absent
  <2> QED  BY <1>4, <1>7, <1>8, <2>1, <2>2, <2>3, <2>4
<1>11. \A e, f \in held' : idempotency_key(e) = idempotency_key(f) => e = f
  BY DEF HeldInv
<1>12. ASSUME NEW e \in Events, Booked(e)', ~Retracted(e)'
       PROVE  \E f \in held' : idempotency_key(f) = idempotency_key(e)
  <2>1. Booked(e) /\ ~Retracted(e) /\ storno_key(e) # key  BY <1>7, <1>8, <1>12
  <2>2. PICK f \in held : idempotency_key(f) = idempotency_key(e)  BY <2>1 DEF HeldInv
  <2>3. f # event  BY <2>1, <2>2, KeysDiffer
  <2> QED  BY <2>2, <2>3
<1>13. HeldInv'
  BY <1>9, <1>10, <1>11, <1>12 DEF HeldInv
<1>14. ASSUME NEW account \in Addresses
       PROVE  Total(Folded(journal', account, Token)) = SumFunction([e \in held' |-> Effect(e, account)])
  <2> DEFINE rest == held \ {event}
  <2>1. /\ IsFiniteSet(rest) /\ rest \subseteq Transfers /\ event \in Transfers \ rest
        /\ rest \cup {event} = held
    BY <1>1, FS_Subset DEF HeldInv, Transfers
  <2>2. /\ Total(Folded(journal', account, Token))
             = Total(Folded(journal, account, Token)) + (-Effect(event, account))
        /\ Effect(event, account) \in Int
    <3>1. /\ Total(Amounts(back, {account}, Token)) = -Effect(event, account)
          /\ Effect(event, account) \in Int
      BY <1>1, MirrorEffect DEF back
    <3>2. Total(Folded(journal', account, Token))
            = Total(Folded(journal, account, Token)) + Total(Amounts(back, {account}, Token))
      BY <1>1, <1>2, <1>3, BalanceMoves
    <3> QED  BY <3>1, <3>2, Zenon
  <2> HIDE DEF rest
  <2>3. /\ SumFunction([e \in rest |-> Effect(e, account)]) \in Int
        /\ SumFunction([e \in rest \cup {event} |-> Effect(e, account)])
             = SumFunction([e \in rest |-> Effect(e, account)]) + Effect(event, account)
    BY <2>1, EffectsGrow
  <2>4. Total(Folded(journal, account, Token)) = SumFunction([e \in held |-> Effect(e, account)])
    BY DEF SumsInv
  <2> DEFINE before == SumFunction([e \in held |-> Effect(e, account)])
             after  == SumFunction([e \in rest |-> Effect(e, account)])
  <2>5. before = after + Effect(event, account) /\ after \in Int
    BY <2>1, <2>3, Zenon
  <2>6. held' = rest  BY DEF rest
  <2> HIDE DEF before, after
  <2>7. before + (-Effect(event, account)) = after
    BY <2>2, <2>5
  <2> QED  BY <2>2, <2>4, <2>6, <2>7, Zenon DEF before, after
<1>15. SumsInv'  BY <1>14 DEF SumsInv
<1> QED  BY <1>13, <1>15

-----------------------------------------------------------------------------
(* How far what is held has come behind what is live *)

\* The transfers on their way to the consumer.
Pending == {e \in Transfers : \E i \in 1..Len(channel) : channel[i] = Confirmed(e)}

ChannelInv ==
  /\ Feed!IsChain(live)
  /\ channel = <<>> => held = LiveTransfers
  /\ channel # <<>> /\ Head(channel).kind = "confirmed" =>
       /\ \A i \in 1..Len(channel) :
            channel[i].kind = "confirmed" /\ \E b \in live : channel[i].event \in Range(Logs[b])
       /\ \A e \in Pending : ~Retracted(e)
       /\ held \subseteq LiveTransfers /\ LiveTransfers \subseteq held \cup Pending
  /\ channel # <<>> /\ Head(channel).kind = "reorged" =>
       Tail(channel) = <<>> /\ held \ Orphaned = LiveTransfers

FollowInv == Inv /\ HeldInv /\ SumsInv /\ ChannelInv /\ NothingRefused

LEMMA LogType ==
  ASSUME NEW b \in Blocks
  PROVE  Logs[b] \in Seq(ChainEvent) /\ Len(Logs[b]) \in Nat
BY LogsAssumption

LEMMA InRange ==
  ASSUME NEW b \in Blocks, NEW e
  PROVE  e \in Range(Logs[b]) <=> \E i \in 1..Len(Logs[b]) : e = Logs[b][i]
BY LogType DEF Range

LEMMA LogFacts ==
  ASSUME NEW b \in Blocks, NEW e \in Range(Logs[b])
  PROVE  e \in Events /\ e.block_number = b.number
<1>1. PICK i \in 1..Len(Logs[b]) : e = Logs[b][i]  BY InRange
<1>2. e \in Events  BY DEF Events
<1> QED  BY <1>1, <1>2, ChainAssumption

LEMMA LiveFacts ==
  ASSUME live \subseteq Blocks, NEW e
  PROVE  e \in LiveTransfers <=> Convertible(e.value) /\ \E b \in live : e \in Range(Logs[b])
BY DEF LiveTransfers

\* A chain holds each log once.
LEMMA LiveOnce ==
  ASSUME live \subseteq Blocks, Feed!IsChain(live), NEW e \in LiveTransfers, NEW f \in LiveTransfers,
         idempotency_key(e) = idempotency_key(f)
  PROVE  e = f
<1>1. PICK b \in live : e \in Range(Logs[b])  BY LiveFacts
<1>2. PICK c \in live : f \in Range(Logs[c])  BY LiveFacts
<1> b \in Blocks /\ c \in Blocks  OBVIOUS
<1>3. PICK i \in 1..Len(Logs[b]) : e = Logs[b][i]  BY <1>1, InRange
<1>4. PICK j \in 1..Len(Logs[c]) : f = Logs[c][j]  BY <1>2, InRange
<1>5. e.tx_hash = f.tx_hash /\ e.log_index = f.log_index
  <2>1. \A g : /\ idempotency_key(g).tx_hash = g.tx_hash
             /\ idempotency_key(g).log_index = g.log_index
    BY DEF idempotency_key
  <2> QED  BY <2>1
<1>6. b = c /\ i = j
  <2>1. \A d, g \in live : \A m \in 1..Len(Logs[d]), n \in 1..Len(Logs[g]) :
          Logs[d][m].tx_hash = Logs[g][n].tx_hash /\ Logs[d][m].log_index = Logs[g][n].log_index
            => d = g /\ m = n
    BY ChainAssumption, Zenon
  <2>2. Logs[b][i].tx_hash = Logs[c][j].tx_hash /\ Logs[b][i].log_index = Logs[c][j].log_index
    BY <1>3, <1>4, <1>5
  <2> QED  BY <2>1, <2>2, Zenon
<1> QED  BY <1>3, <1>4, <1>6

\* The indexer delivers a block that is live from now on.
LEMMA BlockSent ==
  ASSUME live \subseteq Blocks, ChannelInv, channel = <<>>, UNCHANGED <<held, ledger>>,
         NEW b \in Blocks, live' = live \cup {b}, Feed!IsChain(live'), channel' = Messages(b),
         \A e \in Range(Logs[b]) : Convertible(e.value) => ~Retracted(e)
  PROVE  ChannelInv'
<1>1. held = LiveTransfers /\ held' = held /\ keys' = keys /\ live' \subseteq Blocks
  BY DEF ChannelInv, ledger
<1>2. /\ Len(channel') = Len(Logs[b]) /\ Len(Logs[b]) \in Nat
      /\ \A i \in 1..Len(Logs[b]) : channel'[i] = Confirmed(Logs[b][i])
  BY LogType DEF Messages
<1>3. \A e : e \in LiveTransfers' <=> Convertible(e.value) /\ \E c \in live' : e \in Range(Logs[c])
  BY <1>1 DEF LiveTransfers
<1>4. \A e : e \in LiveTransfers' <=> e \in LiveTransfers \/ (Convertible(e.value) /\ e \in Range(Logs[b]))
  BY <1>3, LiveFacts
<1>5. channel' \in Seq(Message)  BY MessageFacts
<1>6. CASE Len(Logs[b]) = 0
  <2>1. channel' = <<>>  BY <1>2, <1>5, <1>6
  <2>2. \A e : e \notin Range(Logs[b])
    <3> TAKE e
    <3>1. ~ \E i \in 1..Len(Logs[b]) : e = Logs[b][i]  BY <1>6
    <3> QED  BY <3>1, InRange
  <2>3. held' = LiveTransfers'  BY <1>1, <1>4, <2>2
  <2> QED  BY <2>1, <2>3 DEF ChannelInv
<1>7. CASE Len(Logs[b]) # 0
  <2>1. channel' # <<>> /\ Head(channel').kind = "confirmed"
    <3>1. 1 \in 1..Len(channel')  BY <1>2, <1>7
    <3>2. Head(channel') = channel'[1]  BY <1>5, <3>1
    <3>3. channel'[1] = Confirmed(Logs[b][1])  BY <1>2, <3>1
    <3>4. Confirmed(Logs[b][1]).kind = "confirmed"  BY DEF Confirmed
    <3> QED  BY <1>2, <1>7, <3>2, <3>3, <3>4
  <2>2. \A i \in 1..Len(channel') :
          channel'[i].kind = "confirmed" /\ \E c \in live' : channel'[i].event \in Range(Logs[c])
    <3> TAKE i \in 1..Len(channel')
    <3>1. channel'[i] = Confirmed(Logs[b][i])  BY <1>2
    <3>2. channel'[i].kind = "confirmed" /\ channel'[i].event = Logs[b][i]  BY <3>1 DEF Confirmed
    <3>3. Logs[b][i] \in Range(Logs[b])  BY <1>2, InRange
    <3> QED  BY <3>2, <3>3
  <2>3. \A e : e \in Pending' <=> e \in Transfers /\ e \in Range(Logs[b])
    <3> TAKE e
    <3>1. \A f : Confirmed(e) = Confirmed(f) <=> e = f
      <4>1. \A f : Confirmed(f).event = f  BY DEF Confirmed
      <4> QED  BY <4>1
    <3>2. (\E i \in 1..Len(channel') : channel'[i] = Confirmed(e))
             <=> \E i \in 1..Len(Logs[b]) : e = Logs[b][i]
      BY <1>2, <3>1
    <3>3. e \in Pending' <=> e \in Transfers /\ \E i \in 1..Len(channel') : channel'[i] = Confirmed(e)
      BY DEF Pending
    <3> QED  BY <3>2, <3>3, InRange
  <2>4. \A e \in Pending' : ~Retracted(e)'
    BY <1>1, <2>3 DEF Retracted, Transfers
  <2>5. held' \subseteq LiveTransfers'  BY <1>1, <1>4
  <2>6. LiveTransfers' \subseteq held' \cup Pending'
    <3>1. \A e \in Range(Logs[b]) : e \in Events  BY LogFacts
    <3> QED  BY <1>1, <1>4, <2>3, <3>1 DEF Transfers
  <2>7. Head(channel').kind # "reorged"  BY <2>1
  <2> QED  BY <2>1, <2>2, <2>4, <2>5, <2>6, <2>7 DEF ChannelInv
<1> QED  BY <1>2, <1>6, <1>7

\* Confirmed blocks are orphaned: a Reorged message names them.
LEMMA RetractFollows ==
  ASSUME Inv, ChannelInv, Retract
  PROVE  ChannelInv'
<1>1. PICK lowest \in live :
        LET orphaned == {b \in live : b.number >= lowest.number} IN
          live' = live \ orphaned /\ channel' = <<Reorged(orphaned)>>
  BY DEF Retract
<1> DEFINE orphaned == {b \in live : b.number >= lowest.number}
<1>2. /\ live \subseteq Blocks /\ lowest \in Blocks /\ held = LiveTransfers /\ held' = held
      /\ Feed!IsChain(live)
  BY DEF Retract, ChannelInv, Inv, TypeOK
<1>3. \A b \in live : b.number \in Nat  BY <1>2, ChainAssumption
<1>4. lowest.number \in Nat  BY <1>2, ChainAssumption
<1>5. \A b : b \in live' <=> b \in live /\ b.number < lowest.number
  BY <1>1, <1>3, <1>4
<1>6. Feed!IsChain(live')
  <2>1. \A a, b \in live' : a.number = b.number => a = b
    BY <1>2, <1>5 DEF Feed!IsChain
  <2>2. \A a, b \in live' : a.number + 1 = b.number => a.hash = b.parent_hash
    BY <1>2, <1>5 DEF Feed!IsChain
  <2>3. ASSUME NEW a \in live', NEW b \in live', NEW n \in a.number..b.number
        PROVE  \E c \in live' : c.number = n
    <3>1. a \in live /\ b \in live /\ b.number < lowest.number /\ a.number \in Nat /\ b.number \in Nat
      BY <1>3, <1>5
    <3>2. PICK c \in live : c.number = n  BY <1>2, <3>1 DEF Feed!IsChain
    <3>3. c.number < lowest.number  BY <1>4, <3>1, <3>2
    <3> QED  BY <1>5, <3>2, <3>3
  <2> QED  BY <2>1, <2>2, <2>3 DEF Feed!IsChain
<1>7. /\ channel' # <<>> /\ Head(channel') = Reorged(orphaned) /\ Tail(channel') = <<>>
      /\ Head(channel').kind = "reorged" /\ Head(channel').orphaned = orphaned
  BY <1>1 DEF Reorged
<1>8. held' \ Orphaned' = LiveTransfers'
  <2>1. Orphaned' = {e \in held : \E b \in orphaned : b.number = e.block_number}
    BY <1>2, <1>7 DEF Orphaned
  <2>2. live' \subseteq Blocks  BY <1>2, <1>5
  <2>3. \A e : e \in LiveTransfers' <=> Convertible(e.value) /\ \E c \in live' : e \in Range(Logs[c])
    BY DEF LiveTransfers
  <2>4. ASSUME NEW e \in held, e \notin Orphaned' PROVE e \in LiveTransfers'
    <3>1. PICK c \in live : e \in Range(Logs[c])  BY <1>2, LiveFacts
    <3>2. Convertible(e.value)  BY <1>2, LiveFacts
    <3>3. c \in Blocks /\ e.block_number = c.number  BY <1>2, <3>1, LogFacts
    <3>4. c \notin orphaned  BY <2>1, <2>4, <3>3
    <3>5. c \in live'  BY <1>1, <3>4
    <3> QED  BY <2>3, <3>1, <3>2, <3>5
  <2>5. ASSUME NEW e \in LiveTransfers' PROVE e \in held /\ e \notin Orphaned'
    <3>1. PICK c \in live' : e \in Range(Logs[c])  BY <2>3
    <3>2. c \in live /\ c.number < lowest.number /\ Convertible(e.value)  BY <1>5, <2>3
    <3>3. e \in held  BY <1>2, <3>1, <3>2, LiveFacts
    <3>4. c \in Blocks /\ e.block_number = c.number  BY <1>2, <3>1, <3>2, LogFacts
    <3>5. \A b \in orphaned : b.number # e.block_number
      BY <1>3, <1>4, <3>2, <3>4
    <3> QED  BY <2>1, <3>3, <3>5
  <2> QED  BY <1>2, <2>4, <2>5
<1>9. Head(channel').kind # "confirmed"  BY <1>7
<1> QED  BY <1>6, <1>7, <1>8, <1>9 DEF ChannelInv

\* One of them is reversed.
LEMMA ReverseFollows ==
  ASSUME FollowInv, ReverseOne
  PROVE  HeldInv' /\ SumsInv' /\ ChannelInv' /\ NothingRefused'
<1>1. PICK event \in Orphaned :
        /\ L!Storno(storno_key(event), keys[idempotency_key(event)])
        /\ held' = held \ {event}
  BY DEF ReverseOne
<1>2. /\ Inv /\ HeldInv /\ SumsInv /\ ChannelInv /\ held \subseteq Events /\ live \subseteq Blocks
      /\ event \in held /\ event \in Events
  BY DEF FollowInv, Inv, TypeOK, Orphaned
<1>3. /\ journal[keys[idempotency_key(event)]] = Mirror(event) /\ Convertible(event.value)
      /\ keys[storno_key(event)] = L!Absent
  BY <1>2 DEF HeldInv, Retracted
<1>4. L!Reversible(Mirror(event))  BY <1>2, <1>3, MirrorAccepted
<1>5. L!AppendNew(storno_key(event), L!Reversal(Mirror(event)))
  BY <1>1, <1>3, <1>4 DEF L!Storno, L!AppendTo, L!AppendAgain
<1>6. HeldInv' /\ SumsInv'
  BY <1>1, <1>2, <1>5, ReversedIsNot
<1>7. NothingRefused'
  BY <1>5 DEF L!AppendNew, L!Answered, NothingRefused
<1>8. channel' = channel /\ live' = live /\ channel # <<>> /\ Head(channel).kind = "reorged"
  BY DEF ReverseOne
<1>9. held' \ Orphaned' = held \ Orphaned
  BY <1>1, <1>8 DEF Orphaned
<1>10. Tail(channel) = <<>> /\ held \ Orphaned = LiveTransfers /\ Feed!IsChain(live)
  BY <1>2, <1>8 DEF ChannelInv
<1>11. LiveTransfers' = LiveTransfers /\ Feed!IsChain(live')
  BY <1>8, <1>10 DEF LiveTransfers
<1>12. ChannelInv'
  BY <1>8, <1>9, <1>10, <1>11 DEF ChannelInv
<1> QED  BY <1>6, <1>7, <1>12

\* None is left.
LEMMA ReorgDoneFollows ==
  ASSUME ChannelInv, ReorgDone
  PROVE  ChannelInv'
<1>1. /\ channel # <<>> /\ Head(channel).kind = "reorged" /\ Orphaned = {}
      /\ channel' = Tail(channel) /\ UNCHANGED <<live, held>>
  BY DEF ReorgDone
<1>2. channel' = <<>> /\ held' = LiveTransfers' /\ Feed!IsChain(live')
  BY <1>1 DEF ChannelInv, LiveTransfers
<1> QED  BY <1>2 DEF ChannelInv

\* A confirmed transfer is ingested: it was new, and is held from now on, or is the
\* very one that is held.
LEMMA IngestFollows ==
  ASSUME FollowInv, Ingest
  PROVE  HeldInv' /\ SumsInv' /\ ChannelInv' /\ NothingRefused'
<1> DEFINE event == Head(channel).event
           key   == idempotency_key(event)
<1>1. /\ Inv /\ HeldInv /\ SumsInv /\ ChannelInv /\ channel \in Seq(Message) /\ live \subseteq Blocks
      /\ channel # <<>> /\ Head(channel).kind = "confirmed" /\ channel' = Tail(channel) /\ live' = live
  BY DEF FollowInv, Inv, TypeOK, Message, Ingest
<1>2. /\ Feed!IsChain(live)
      /\ \A i \in 1..Len(channel) :
           channel[i].kind = "confirmed" /\ \E b \in live : channel[i].event \in Range(Logs[b])
      /\ \A e \in Pending : ~Retracted(e)
      /\ held \subseteq LiveTransfers /\ LiveTransfers \subseteq held \cup Pending
  BY <1>1 DEF ChannelInv
<1>3. /\ Len(channel) \in Nat /\ 1 \in 1..Len(channel) /\ Head(channel) = channel[1]
      /\ channel' \in Seq(Message) /\ Len(channel') = Len(channel) - 1
      /\ \A i \in 1..Len(channel') : i + 1 \in 1..Len(channel) /\ channel'[i] = channel[i + 1]
  BY <1>1
<1>4. /\ event \in Events /\ \E b \in live : event \in Range(Logs[b])
      /\ Head(channel) = Confirmed(event)
  <2>1. PICK b \in live : event \in Range(Logs[b])  BY <1>2, <1>3
  <2>2. event \in Events  BY <1>1, <2>1, LogFacts
  <2>3. Head(channel) \in Message  BY <1>1
  <2>4. Head(channel) = Confirmed(event)  BY <1>1, <2>3 DEF Message, Confirmed
  <2> QED  BY <2>1, <2>2, <2>4
<1>5. /\ Pending' \subseteq Pending /\ Pending \subseteq Pending' \cup {event}
      /\ Convertible(event.value) => event \in Pending
  <2>1. \A e : e \in Pending' <=> e \in Transfers /\ \E i \in 1..Len(channel') : channel'[i] = Confirmed(e)
    BY DEF Pending
  <2>2. Pending' \subseteq Pending  BY <1>3, <2>1 DEF Pending
  <2>3. ASSUME NEW e \in Pending, e # event PROVE e \in Pending'
    <3>1. PICK i \in 1..Len(channel) : channel[i] = Confirmed(e)  BY DEF Pending
    <3>2. Confirmed(e) # Confirmed(event)
      <4>1. Confirmed(e).event = e /\ Confirmed(event).event = event  BY DEF Confirmed
      <4> QED  BY <2>3, <4>1
    <3>3. i # 1  BY <1>3, <1>4, <3>1, <3>2
    <3>4. i - 1 \in 1..Len(channel') /\ (i - 1) + 1 = i  BY <1>3, <3>3
    <3>5. channel'[i - 1] = Confirmed(e)  BY <1>3, <3>1, <3>4
    <3> QED  BY <2>1, <3>4, <3>5 DEF Pending
  <2>4. Convertible(event.value) => event \in Pending
    BY <1>3, <1>4 DEF Pending, Transfers
  <2> QED  BY <2>2, <2>3, <2>4
<1>6. ASSUME held' \subseteq LiveTransfers, LiveTransfers \subseteq held' \cup Pending',
             \A e \in Pending' : ~Retracted(e)'
      PROVE  ChannelInv'
  <2>1. LiveTransfers' = LiveTransfers /\ Feed!IsChain(live')  BY <1>1, <1>2 DEF LiveTransfers
  <2>2. CASE channel' = <<>>
    <3>1. Pending' = {}
      <4>1. Len(channel') = 0  BY <2>2
      <4> QED  BY <4>1 DEF Pending
    <3> QED  BY <1>6, <2>1, <2>2, <3>1 DEF ChannelInv
  <2>3. CASE channel' # <<>>
    <3>1. \A i \in 1..Len(channel') :
            channel'[i].kind = "confirmed" /\ \E b \in live' : channel'[i].event \in Range(Logs[b])
      BY <1>1, <1>2, <1>3
    <3>2. 1 \in 1..Len(channel') /\ Head(channel') = channel'[1]  BY <1>3, <2>3
    <3>3. Head(channel').kind = "confirmed" /\ Head(channel').kind # "reorged"  BY <3>1, <3>2
    <3> QED  BY <1>6, <2>1, <2>3, <3>1, <3>3 DEF ChannelInv
  <2> QED  BY <2>2, <2>3
<1>7. \/ /\ ~Convertible(event.value) /\ held' = held
         /\ L!Refused(key, <<>>, "amount_overflow")
      \/ /\ Convertible(event.value)
         /\ L!AppendTo(key, Mirror(event))
         /\ held' = IF answer'.outcome = "ok" THEN held \cup {event} ELSE held
  <2>1. ASSUME Convertible(event.value), L!Post(key, Mirror(event))
        PROVE  L!AppendTo(key, Mirror(event))
    BY <1>4, <2>1, MirrorAccepted DEF L!Post
  <2> QED  BY <2>1 DEF Ingest
<1> HIDE DEF event, key
<1>8. CASE ~Convertible(event.value) /\ held' = held /\ L!Refused(key, <<>>, "amount_overflow")
  <2>1. journal' = journal /\ keys' = keys /\ answer'.outcome = "amount_overflow"
    BY <1>8 DEF L!Refused, L!Answered
  <2>2. HeldInv' /\ SumsInv'
    BY <1>1, <1>8, <2>1 DEF HeldInv, SumsInv, Booked, Retracted
  <2>3. Pending' = Pending  BY <1>5, <1>8 DEF Pending, Transfers
  <2>4. ChannelInv'  BY <1>2, <1>6, <1>8, <2>1, <2>3 DEF Retracted
  <2> QED  BY <2>1, <2>2, <2>4 DEF NothingRefused
<1>9. CASE /\ Convertible(event.value)
           /\ L!AppendTo(key, Mirror(event))
           /\ held' = IF answer'.outcome = "ok" THEN held \cup {event} ELSE held
  <2>1. event \in LiveTransfers /\ ~Retracted(event)
    BY <1>1, <1>2, <1>4, <1>5, <1>9, LiveFacts
  <2>2. CASE L!AppendNew(key, Mirror(event))
    <3>1. answer'.outcome = "ok" /\ held' = held \cup {event}
      BY <1>9, <2>2 DEF L!AppendNew, L!Answered
    <3>2. HeldInv' /\ SumsInv'
      BY <1>1, <1>4, <1>9, <2>1, <2>2, <3>1, BookedIsHeld DEF key
    <3>3. \A e \in Events : Retracted(e)' <=> Retracted(e)
      <4>1. keys \in [Keys -> 0..Len(journal)]  BY <1>1 DEF Inv, TypeOK
      <4>2. keys' = [keys EXCEPT ![key] = L!NextIndex]  BY <2>2 DEF L!AppendNew
      <4> QED  BY <4>1, <4>2, EventFacts, KeysDiffer DEF Retracted, key
    <3>4. \A e \in Pending' : ~Retracted(e)'
      BY <1>2, <1>5, <3>3 DEF Pending, Transfers
    <3>5. ChannelInv'  BY <1>2, <1>5, <1>6, <2>1, <3>1, <3>4
    <3> QED  BY <3>1, <3>2, <3>5 DEF NothingRefused
  <2>3. CASE L!AppendAgain(key, Mirror(event))
    <3>1. Booked(event) /\ journal' = journal /\ keys' = keys
      BY <2>3 DEF L!AppendAgain, Booked, key
    <3>2. PICK f \in held : idempotency_key(f) = idempotency_key(event)
      BY <1>1, <1>4, <2>1, <3>1 DEF HeldInv
    <3>3. f = event
      BY <1>1, <1>2, <2>1, <3>2, LiveOnce
    <3>4. journal[keys[key]] = Mirror(event)
      BY <1>1, <3>2, <3>3 DEF HeldInv, key
    <3>5. answer'.outcome = "ok"
      BY <2>3, <3>4 DEF L!AppendAgain, L!Answered, L!SameBody
    <3>6. held' = held  BY <1>9, <3>2, <3>3, <3>5
    <3>7. HeldInv' /\ SumsInv'
      BY <1>1, <3>1, <3>6 DEF HeldInv, SumsInv, Booked, Retracted
    <3>8. LiveTransfers \subseteq held' \cup Pending'
      BY <1>2, <1>5, <3>2, <3>3, <3>6
    <3>9. \A e \in Pending' : ~Retracted(e)'
      BY <1>2, <1>5, <3>1 DEF Retracted
    <3>10. ChannelInv'  BY <1>2, <1>6, <3>6, <3>8, <3>9
    <3> QED  BY <3>5, <3>7, <3>10 DEF NothingRefused
  <2> QED  BY <1>9, <2>2, <2>3 DEF L!AppendTo
<1> QED  BY <1>7, <1>8, <1>9

LEMMA FollowInit ==
  Init => FollowInv
<1> SUFFICES ASSUME Init PROVE FollowInv
  OBVIOUS
<1>1. /\ journal = <<>> /\ keys = [key \in Keys |-> L!Absent] /\ answer.outcome = "none"
      /\ channel = <<>> /\ held = {} /\ live = {}
  BY DEF Init, L!Init, Feed!Init
<1>2. HeldInv
  BY <1>1, FS_EmptySet, EventFacts DEF HeldInv, Booked
<1>3. SumsInv
  <2>1. Total(<<>>) = 0  BY EmptySeq, RunningRule DEF Total
  <2>2. \A account : Folded(journal, account, Token) = <<>>
    BY <1>1 DEF Folded, FlattenSeq, Amounts
  <2>3. \A f : SumFunctionOnSet(f, {}) = 0  BY SumOfNone
  <2>4. \A account : SumFunction([e \in {} |-> Effect(e, account)]) = 0
    BY <2>3 DEF SumFunction
  <2> QED  BY <1>1, <2>1, <2>2, <2>4 DEF SumsInv
<1>4. ChannelInv
  BY <1>1 DEF ChannelInv, Feed!IsChain, LiveTransfers
<1> QED  BY <1>1, <1>2, <1>3, <1>4, InvInit DEF FollowInv, NothingRefused

LEMMA FollowNext ==
  ASSUME ~MinedAgain
  PROVE  FollowInv /\ [Next]_vars => FollowInv'
<1> SUFFICES ASSUME FollowInv, [Next]_vars PROVE FollowInv'
  OBVIOUS
<1>1. /\ Inv' /\ Inv /\ HeldInv /\ SumsInv /\ ChannelInv /\ NothingRefused
      /\ live \subseteq Blocks /\ held \subseteq Events
  BY InvNext DEF FollowInv, Inv, TypeOK
<1>2. UNCHANGED <<held, ledger>> => HeldInv' /\ SumsInv' /\ NothingRefused'
  BY <1>1 DEF ledger, HeldInv, SumsInv, NothingRefused, Booked, Retracted
<1>3. CASE Confirm
  <2>1. PICK b \in Blocks \ live :
          /\ live' = live \cup {b} /\ channel' = Messages(b)
          /\ \A i \in 1..Len(Logs[b]) : ~Retracted(Logs[b][i])
    BY <1>3 DEF Confirm
  <2>2. \A e \in Range(Logs[b]) : ~Retracted(e)  BY <2>1, InRange
  <2>3. channel = <<>> /\ Feed!IsChain(live') /\ UNCHANGED <<held, ledger>>
    BY <1>3 DEF Confirm, Feed!Amend
  <2>4. ChannelInv'  BY <1>1, <2>1, <2>2, <2>3, BlockSent
  <2> QED  BY <1>1, <1>2, <2>3, <2>4 DEF FollowInv
<1>4. CASE Retract
  <2>1. UNCHANGED <<held, ledger>>  BY <1>4 DEF Retract
  <2> QED  BY <1>1, <1>2, <1>4, <2>1, RetractFollows DEF FollowInv
<1>5. CASE Redeliver
  <2>1. /\ channel = <<>> /\ live' = live /\ UNCHANGED <<held, ledger>>
        /\ \E b \in live : channel' = Messages(b)
    BY <1>5 DEF Redeliver, ledger
  <2>2. PICK b \in live : channel' = Messages(b)  BY <2>1
  <2>3. held = LiveTransfers /\ Feed!IsChain(live') /\ live' = live \cup {b} /\ b \in Blocks
    BY <1>1, <2>1, <2>2 DEF ChannelInv
  <2>4. ASSUME NEW e \in Range(Logs[b]), Convertible(e.value) PROVE ~Retracted(e)
    <3>1. e \in held  BY <1>1, <2>2, <2>3, <2>4, LiveFacts
    <3> QED  BY <1>1, <3>1 DEF HeldInv
  <2>5. ChannelInv'  BY <1>1, <2>1, <2>2, <2>3, <2>4, BlockSent
  <2> QED  BY <1>1, <1>2, <2>1, <2>5 DEF FollowInv
<1>6. CASE Ingest
  BY <1>1, <1>6, IngestFollows DEF FollowInv
<1>7. CASE ReverseOne
  BY <1>1, <1>7, ReverseFollows DEF FollowInv
<1>8. CASE ReorgDone
  <2>1. UNCHANGED <<held, ledger>>  BY <1>8 DEF ReorgDone
  <2> QED  BY <1>1, <1>2, <1>8, <2>1, ReorgDoneFollows DEF FollowInv
<1>9. CASE UNCHANGED vars
  <2>1. UNCHANGED <<live, channel, held, ledger>>  BY <1>9 DEF vars
  <2>2. ChannelInv'
    BY <1>1, <2>1 DEF ChannelInv, LiveTransfers, Pending, Orphaned, Retracted, ledger
  <2> QED  BY <1>1, <1>2, <2>1, <2>2 DEF FollowInv
<1> QED  BY <1>3, <1>4, <1>5, <1>6, <1>7, <1>8, <1>9 DEF Next

\* As long as no retracted transaction is mined again, no transfer that fits an i128
\* is refused, and every orphaned one is reversed: append never answers with a
\* conflict, Transaction::new never with an error (reconcile.rs:11-13).
THEOREM NoTransferRefused == ~MinedAgain => (Spec => []NothingRefused)
<1> SUFFICES ASSUME ~MinedAgain PROVE Spec => []NothingRefused
  OBVIOUS
<1>1. FollowInv /\ [Next]_vars => FollowInv'  BY FollowNext
<1>2. FollowInv => NothingRefused  BY DEF FollowInv
<1> QED  BY <1>1, <1>2, FollowInit, PTL DEF Spec

\* Then, too, every balance that can be read is the one of the blocks that are confirmed
\* whenever every message has been received, however many blocks there are and however
\* often they are delivered and retracted: each log counts exactly once
\* (reconcile.rs:35-37). SumsInv says the same of the sums of arithmetic, so a balance
\* that cannot be read is one whose sum overflowed on the way.
THEOREM BalancesFollowFeed == ~MinedAgain => (Spec => []LedgerFollowsFeed)
<1> SUFFICES ASSUME ~MinedAgain PROVE Spec => []LedgerFollowsFeed
  OBVIOUS
<1>1. FollowInv /\ [Next]_vars => FollowInv'  BY FollowNext
<1>2. FollowInv => LedgerFollowsFeed
  BY DEF FollowInv, ChannelInv, SumsInv, LedgerFollowsFeed
<1> QED  BY <1>1, <1>2, FollowInit, PTL DEF Spec
=============================================================================
