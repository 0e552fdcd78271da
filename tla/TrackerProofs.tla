--------------------------- MODULE TrackerProofs ---------------------------
(***************************************************************************)
(* Proofs about Tracker, for every confirmation depth, every window larger *)
(* than it and every set of headers. First what holds whatever the tracker *)
(* is fed, then what holds when it is fed under its contract.              *)
(***************************************************************************)
EXTENDS Tracker, TLAPS

-----------------------------------------------------------------------------
(* One call of observe, taken apart. *)

Orphaned(k) == {chain[i] : i \in (k + 1)..Len(chain)}
Held(k, b)  == Append(SubSeq(chain, 1, k), b)
Mark(k) ==
  IF k < Len(chain) THEN PulledBack(confirmed_through, chain[k + 1].number)
                    ELSE confirmed_through
RipeAt(k, b) == Ripe(Held(k, b), Mark(k), b.number - Confirmations)

\* observe(b) with k blocks of the chain kept.
ObserveAt(k, b) ==
  /\ StopsAt(k, b)
  /\ chain' = Trimmed(Held(k, b))
  /\ confirmed_through' = Raised(Mark(k), b.number - Confirmations)
  /\ update' = [confirmed |-> RipeAt(k, b), reorged |-> Orphaned(k)]
  /\ live' = (live \ Orphaned(k)) \cup RipeAt(k, b)

\* observe keeps some k blocks of the chain.
LEMMA ObserveSplits ==
  ASSUME NEW b, Observe(b)
  PROVE  \E k \in 0..Len(chain) : ObserveAt(k, b)
BY DEF Observe, ObserveAt, Orphaned, Held, Mark, RipeAt

\* A header has a natural number for its height.
LEMMA BlockNumber ==
  ASSUME NEW b \in Blocks
  PROVE  b.number \in Nat
BY BlocksAssumption DEF BlockRef

\* What is held before trimming: k blocks of the chain, and b on top.
LEMMA HeldFacts ==
  ASSUME chain \in Seq(Blocks), NEW k \in 0..Len(chain), NEW b \in Blocks
  PROVE  /\ Held(k, b) \in Seq(Blocks)
         /\ Len(Held(k, b)) = k + 1
         /\ \A j \in 1..k : Held(k, b)[j] = chain[j]
         /\ Held(k, b)[k + 1] = b
<1> DEFINE kept == SubSeq(chain, 1, k)
<1>1. kept \in Seq(Blocks) /\ Len(kept) = k
  OBVIOUS
<1>2. \A j \in 1..k : kept[j] = chain[j]
  OBVIOUS
<1> HIDE DEF kept
<1>3. /\ Append(kept, b) \in Seq(Blocks) /\ Len(Append(kept, b)) = k + 1
      /\ \A j \in 1..k : Append(kept, b)[j] = kept[j]
      /\ Append(kept, b)[k + 1] = b
  BY <1>1
<1> QED  BY <1>2, <1>3 DEF Held, kept

\* Trimming keeps the last blocks, as many as the window has room for.
LEMMA TrimmedFacts ==
  ASSUME NEW S, NEW held \in Seq(S)
  PROVE  LET cut == Len(held) - Len(Trimmed(held)) IN
         /\ Trimmed(held) \in Seq(S)
         /\ Len(Trimmed(held)) <= Window
         /\ cut \in 0..Len(held) /\ (cut > 0 => Len(Trimmed(held)) = Window)
         /\ \A i \in 1..Len(Trimmed(held)) : Trimmed(held)[i] = held[i + cut]
<1> USE WindowAssumption
<1>1. CASE Len(held) > Window
  <2> DEFINE first == Len(held) - Window + 1
             rest  == SubSeq(held, first, Len(held))
  <2>1. Trimmed(held) = rest  BY <1>1 DEF Trimmed
  <2>2. first \in 1..(Len(held) + 1) /\ Len(held) \in Nat  BY <1>1
  <2>3. rest \in Seq(S) /\ Len(rest) = Window  BY <2>2
  <2>4. \A i \in 1..Window : rest[i] = held[first + i - 1]  BY <2>2
  <2>5. \A i \in 1..Window : first + i - 1 = i + (Len(held) - Window)  BY <2>2
  <2> HIDE DEF rest
  <2>6. \A i \in 1..Len(rest) : rest[i] = held[i + (Len(held) - Len(rest))]
    BY <2>3, <2>4, <2>5
  <2> QED  BY <1>1, <2>1, <2>2, <2>3, <2>6
<1>2. CASE Len(held) <= Window
  <2>1. Trimmed(held) = held  BY <1>2 DEF Trimmed
  <2> QED  BY <1>2, <2>1
<1> QED  BY <1>1, <1>2

-----------------------------------------------------------------------------
(* Whatever is fed. *)

\* The heights along the chain are consecutive.
Numbered ==
  \A i, j \in 1..Len(chain) : chain[j].number - chain[i].number = j - i

\* The watermark has caught up with the head.
HeadRipe ==
  chain # <<>> => chain[Len(chain)].number - Confirmations <= confirmed_through

AnyInv == TypeOK /\ ChainLinked /\ Numbered /\ HeadRipe

\* Retained blocks are headers, and their heights are natural numbers.
LEMMA ChainFacts ==
  ASSUME TypeOK
  PROVE  /\ chain \in Seq(Blocks) /\ Len(chain) \in Nat
         /\ \A i \in 1..Len(chain) : chain[i] \in Blocks /\ chain[i].number \in Nat
<1>1. chain \in Seq(Blocks)  BY DEF TypeOK
<1>2. \A i \in 1..Len(chain) : chain[i] \in Blocks  BY <1>1
<1> QED  BY <1>1, <1>2, BlockNumber

\* Heights are consecutive in what is held, and each block is the next one's parent.
LEMMA HeldLinked ==
  ASSUME TypeOK, Numbered, ChainLinked, NEW b \in Blocks,
         NEW k \in 0..Len(chain), StopsAt(k, b)
  PROVE  /\ \A i, j \in 1..(k + 1) : Held(k, b)[j].number - Held(k, b)[i].number = j - i
         /\ \A i \in 1..k : AttachesTo(Held(k, b)[i], Held(k, b)[i + 1])
         /\ \A i \in 1..(k + 1) : Held(k, b)[i] \in Blocks /\ Held(k, b)[i].number \in Nat
<1> DEFINE held == Held(k, b)
<1>1. /\ \A j \in 1..k : held[j] = chain[j]
      /\ held[k + 1] = b
  BY HeldFacts, ChainFacts
<1>2. /\ Len(chain) \in Nat /\ b.number \in Nat
      /\ \A i \in 1..Len(chain) : chain[i] \in Blocks /\ chain[i].number \in Nat
  BY ChainFacts, BlockNumber
<1>3. k > 0 => AttachesTo(chain[k], b) /\ b.number = chain[k].number + 1
  BY DEF StopsAt, AttachesTo
<1> HIDE DEF held
<1>4. \A i \in 1..(k + 1) : held[i] \in Blocks /\ held[i].number \in Nat
  BY <1>1, <1>2
<1>5. \A i, j \in 1..k : chain[j].number - chain[i].number = j - i
  <2> SUFFICES ASSUME NEW i \in 1..k, NEW j \in 1..k
               PROVE  chain[j].number - chain[i].number = j - i
    OBVIOUS
  <2>1. i \in 1..Len(chain) /\ j \in 1..Len(chain)  BY <1>2
  <2> QED  BY <2>1 DEF Numbered
<1>6. ASSUME NEW i \in 1..(k + 1), NEW j \in 1..(k + 1)
      PROVE  held[j].number - held[i].number = j - i
  <2>1. CASE i \in 1..k /\ j \in 1..k
    BY <2>1, <1>1, <1>5
  <2>2. CASE i \in 1..k /\ j = k + 1
    <3>1. k \in 1..k /\ k > 0  BY <2>2
    <3>2. chain[k].number - chain[i].number = k - i  BY <2>2, <3>1, <1>5
    <3>3. chain[i].number \in Nat /\ chain[k].number \in Nat  BY <2>2, <3>1, <1>2
    <3>4. held[i] = chain[i] /\ held[j] = b  BY <2>2, <1>1
    <3>5. b.number = chain[k].number + 1 /\ k \in Int  BY <3>1, <1>3
    <3> QED  BY <2>2, <3>2, <3>3, <3>4, <3>5
  <2>3. CASE i = k + 1 /\ j \in 1..k
    <3>1. k \in 1..k /\ k > 0  BY <2>3
    <3>2. chain[k].number - chain[j].number = k - j  BY <2>3, <3>1, <1>5
    <3>3. chain[j].number \in Nat /\ chain[k].number \in Nat  BY <2>3, <3>1, <1>2
    <3>4. held[j] = chain[j] /\ held[i] = b  BY <2>3, <1>1
    <3>5. b.number = chain[k].number + 1 /\ k \in Int  BY <3>1, <1>3
    <3> QED  BY <2>3, <3>2, <3>3, <3>4, <3>5
  <2>4. CASE i = k + 1 /\ j = k + 1
    BY <2>4, <1>4
  <2> QED  BY <2>1, <2>2, <2>3, <2>4
<1>7. ASSUME NEW i \in 1..k
      PROVE  AttachesTo(held[i], held[i + 1])
  <2>1. CASE i = k
    BY <2>1, <1>1, <1>3
  <2>2. CASE i < k
    <3>1. i \in 1..(Len(chain) - 1) /\ i + 1 \in 1..k  BY <2>2, <1>2
    <3> QED  BY <3>1, <1>1 DEF ChainLinked
  <2> QED  BY <2>1, <2>2
<1> QED  BY <1>4, <1>6, <1>7 DEF held

\* The watermark after the roll-back.
LEMMA MarkFacts ==
  ASSUME TypeOK, NEW k \in 0..Len(chain)
  PROVE  /\ Mark(k) \in Int /\ Mark(k) >= NoHeight /\ Mark(k) <= confirmed_through
         /\ k = Len(chain) => Mark(k) = confirmed_through
         /\ k < Len(chain) => \/ Mark(k) = chain[k + 1].number - 1
                              \/ /\ Mark(k) = confirmed_through
                                 /\ confirmed_through < chain[k + 1].number
<1>1. confirmed_through \in Int /\ confirmed_through >= NoHeight  BY DEF TypeOK
<1>2. CASE k = Len(chain)
  BY <1>1, <1>2, ChainFacts DEF Mark
<1>3. CASE k < Len(chain)
  <2>1. k + 1 \in 1..Len(chain)  BY <1>3, ChainFacts
  <2>2. chain[k + 1].number \in Nat  BY <2>1, ChainFacts
  <2> QED  BY <1>1, <1>3, <2>2 DEF Mark, PulledBack, NoHeight
<1> QED  BY <1>2, <1>3, ChainFacts

\* The chain after a call is the held blocks without the first few, cut off only
\* to fit the window.
LEMMA ChainAfter ==
  ASSUME TypeOK, NEW b \in Blocks, NEW k \in 0..Len(chain), ObserveAt(k, b)
  PROVE  \E cut \in 0..k :
           /\ chain' \in Seq(Blocks) /\ Len(chain') = k + 1 - cut /\ Len(chain') <= Window
           /\ cut > 0 => Len(chain') = Window
           /\ \A i \in 1..Len(chain') : chain'[i] = Held(k, b)[i + cut]
<1> DEFINE held == Held(k, b)
           cut  == Len(held) - Len(Trimmed(held))
<1>1. held \in Seq(Blocks) /\ Len(held) = k + 1  BY HeldFacts, ChainFacts
<1>2. chain' = Trimmed(held)  BY DEF ObserveAt
<1> HIDE DEF held
<1>3. /\ Trimmed(held) \in Seq(Blocks) /\ Len(Trimmed(held)) <= Window
      /\ cut \in 0..Len(held) /\ (cut > 0 => Len(Trimmed(held)) = Window)
      /\ \A i \in 1..Len(Trimmed(held)) : Trimmed(held)[i] = held[i + cut]
  BY <1>1, TrimmedFacts
<1>4. Len(Trimmed(held)) \in Nat /\ Len(held) \in Nat  BY <1>1, <1>3
<1>5. cut \in 0..k  BY <1>1, <1>3, <1>4, WindowAssumption, ConfirmationsAssumption
<1>6. Len(Trimmed(held)) = k + 1 - cut  BY <1>1, <1>4
<1> QED  BY <1>2, <1>3, <1>5, <1>6 DEF held

\* One observe keeps the invariant, and confirms at most one block.
LEMMA ObserveKeepsAnyInv ==
  ASSUME AnyInv, NEW b \in Blocks, Observe(b)
  PROVE  AnyInv' /\ ConfirmsOneAtATime'
<1> USE DEF AnyInv
<1>1. PICK k \in 0..Len(chain) : ObserveAt(k, b)  BY ObserveSplits
<1>2. PICK cut \in 0..k :
           /\ chain' \in Seq(Blocks) /\ Len(chain') = k + 1 - cut /\ Len(chain') <= Window
           /\ cut > 0 => Len(chain') = Window
           /\ \A i \in 1..Len(chain') : chain'[i] = Held(k, b)[i + cut]
  BY <1>1, ChainAfter
<1> DEFINE held == Held(k, b)
<1>3. /\ \A i, j \in 1..(k + 1) : held[j].number - held[i].number = j - i
      /\ \A i \in 1..k : AttachesTo(held[i], held[i + 1])
      /\ \A i \in 1..(k + 1) : held[i] \in Blocks /\ held[i].number \in Nat
  BY <1>1, HeldLinked DEF ObserveAt
<1>4. held[k + 1] = b /\ Len(held) = k + 1  BY HeldFacts, ChainFacts
<1>5. b.number \in Nat  BY BlockNumber
<1>6. /\ Mark(k) \in Int /\ Mark(k) >= NoHeight
      /\ confirmed_through' = Raised(Mark(k), b.number - Confirmations)
  BY <1>1, MarkFacts DEF ObserveAt
<1>7. update' = [confirmed |-> RipeAt(k, b), reorged |-> Orphaned(k)]
  BY <1>1 DEF ObserveAt
<1> HIDE DEF held
<1>8. RipeAt(k, b) = {held[i] : i \in {j \in 1..(k + 1) :
                        held[j].number \in (Mark(k) + 1)..(b.number - Confirmations)}}
  BY <1>4 DEF RipeAt, Ripe, held
<1>9. TypeOK'
  <2>1. RipeAt(k, b) \subseteq Blocks  BY <1>3, <1>8
  <2>2. Orphaned(k) \subseteq Blocks  BY ChainFacts DEF Orphaned
  <2>3. live' \subseteq Blocks  BY <1>1, <2>1 DEF ObserveAt, TypeOK
  <2>4. confirmed_through' \in Int /\ confirmed_through' >= NoHeight
    <3>1. b.number - Confirmations \in Int  BY <1>5, ConfirmationsAssumption
    <3> QED  BY <3>1, <1>6 DEF Raised, NoHeight
  <2> QED  BY <1>2, <1>7, <2>1, <2>2, <2>3, <2>4 DEF TypeOK
<1>10. ChainLinked'
  <2>1. \A i \in 1..(Len(chain') - 1) :
          i \in 1..Len(chain') /\ i + 1 \in 1..Len(chain') /\ i + cut \in 1..k
    BY <1>2
  <2>2. \A i \in 1..(Len(chain') - 1) :
          chain'[i] = held[i + cut] /\ chain'[i + 1] = held[i + cut + 1]
    BY <1>2, <2>1 DEF held
  <2> QED  BY <1>3, <2>1, <2>2 DEF ChainLinked, AttachesTo
<1>11. Numbered'
  <2> SUFFICES ASSUME NEW i \in 1..Len(chain'), NEW j \in 1..Len(chain')
               PROVE  chain'[j].number - chain'[i].number = j - i
    BY DEF Numbered
  <2>1. i + cut \in 1..(k + 1) /\ j + cut \in 1..(k + 1)  BY <1>2
  <2>2. held[j + cut].number - held[i + cut].number = (j + cut) - (i + cut)
    BY <1>3, <2>1
  <2>3. chain'[i] = held[i + cut] /\ chain'[j] = held[j + cut]  BY <1>2 DEF held
  <2> QED  BY <2>2, <2>3
<1>12. HeadRipe'
  <2>1. Len(chain') \in 1..Len(chain') /\ Len(chain') + cut = k + 1  BY <1>2
  <2>2. chain'[Len(chain')] = b  BY <1>2, <1>4, <2>1 DEF held
  <2>3. b.number - Confirmations <= confirmed_through'
    BY <1>5, <1>6, ConfirmationsAssumption DEF Raised
  <2> QED  BY <2>2, <2>3 DEF HeadRipe
<1>13. ConfirmsOneAtATime'
  <2> SUFFICES ASSUME NEW i \in 1..(k + 1), NEW j \in 1..(k + 1),
                      held[i].number \in (Mark(k) + 1)..(b.number - Confirmations),
                      held[j].number \in (Mark(k) + 1)..(b.number - Confirmations)
               PROVE  i = j
    BY <1>7, <1>8 DEF ConfirmsOneAtATime
  <2>1. CASE k = 0
    BY <2>1
  <2>2. CASE k > 0
    <3>1. k \in 1..Len(chain) /\ Len(chain) \in 1..Len(chain) /\ chain # <<>>
      BY <2>2, ChainFacts
    <3>2. b.number = chain[k].number + 1 /\ chain[k].number \in Nat
      BY <1>1, <2>2, <3>1, ChainFacts DEF ObserveAt, StopsAt, AttachesTo
    <3>3. /\ chain[Len(chain)].number \in Nat
          /\ chain[Len(chain)].number - chain[k].number = Len(chain) - k
      BY <3>1, ChainFacts DEF Numbered
    <3>4. chain[Len(chain)].number - Confirmations <= confirmed_through
      BY <3>1 DEF HeadRipe
    <3>5. k < Len(chain) => chain[k + 1].number - chain[k].number = 1 /\ chain[k + 1].number \in Nat
      <4> SUFFICES ASSUME k < Len(chain)
                   PROVE  chain[k + 1].number - chain[k].number = 1 /\ chain[k + 1].number \in Nat
        OBVIOUS
      <4>1. k + 1 \in 1..Len(chain)  BY ChainFacts
      <4>2. chain[k + 1].number - chain[k].number = (k + 1) - k  BY <4>1, <3>1 DEF Numbered
      <4> QED  BY <4>1, <4>2, ChainFacts
    <3>6. b.number - Confirmations <= Mark(k) + 1
      <4>1. confirmed_through \in Int /\ Len(chain) \in Nat  BY ChainFacts DEF TypeOK
      <4>2. \/ k = Len(chain) /\ Mark(k) = confirmed_through
            \/ k < Len(chain) /\ Mark(k) = chain[k + 1].number - 1
            \/ k < Len(chain) /\ Mark(k) = confirmed_through
        BY <4>1, MarkFacts
      <4>3. CASE k = Len(chain)
        <5>1. Mark(k) = confirmed_through /\ chain[k].number - Confirmations <= confirmed_through
          BY <4>1, <4>2, <4>3, <3>4
        <5>2. \A x, y, n, w \in Int : y - n <= w /\ x = y + 1 => x - n <= w + 1
          OBVIOUS
        <5>3. chain[k].number \in Int /\ b.number \in Int /\ Confirmations \in Int
          BY <3>2, <1>5, ConfirmationsAssumption
        <5> QED  BY <5>1, <5>2, <5>3, <4>1, <3>2
      <4>4. CASE k < Len(chain)
        <5>1. chain[k + 1].number = b.number
          <6>1. \A x, y, h \in Int : x - y = 1 /\ h = y + 1 => x = h
            OBVIOUS
          <6>2. chain[k + 1].number \in Int /\ chain[k].number \in Int /\ b.number \in Int
            BY <4>4, <3>2, <3>5, <1>5
          <6> QED  BY <4>4, <3>2, <3>5, <6>1, <6>2
        <5>2. b.number - Confirmations <= confirmed_through
          <6>1. chain[Len(chain)].number >= b.number
            <7>1. \A x, y \in Int : x - y = Len(chain) - k => x >= y + 1
              BY <4>1, <4>4
            <7>2. chain[Len(chain)].number \in Int /\ chain[k].number \in Int
              BY <3>2, <3>3
            <7>3. chain[Len(chain)].number >= chain[k].number + 1
              BY <7>1, <7>2, <3>3
            <7> QED  BY <7>3, <3>2
          <6>2. \A x, y, n, w \in Int : x >= y /\ x - n <= w => y - n <= w
            OBVIOUS
          <6>3. chain[Len(chain)].number \in Int /\ b.number \in Int /\ Confirmations \in Int
            BY <3>3, <1>5, ConfirmationsAssumption
          <6> QED  BY <6>1, <6>2, <6>3, <4>1, <3>4
        <5> QED  BY <4>1, <4>2, <4>4, <5>1, <5>2, <1>5, ConfirmationsAssumption
      <4> QED  BY <4>3, <4>4, <4>1
    <3>7. held[i].number = held[j].number
      <4>1. b.number - Confirmations \in Int /\ Mark(k) \in Int
        BY <1>5, <1>6, ConfirmationsAssumption
      <4> QED  BY <4>1, <3>6
    <3>8. held[j].number - held[i].number = j - i  BY <1>3
    <3> QED  BY <3>7, <3>8, <1>3
  <2> QED  BY <2>1, <2>2
<1> QED  BY <1>9, <1>10, <1>11, <1>12, <1>13

\* Types, and a window never exceeded, whatever is fed; with them the invariant.
LEMMA AnyInvInit ==
  Init => AnyInv /\ ConfirmsOneAtATime
<1> SUFFICES ASSUME Init PROVE AnyInv /\ ConfirmsOneAtATime
  OBVIOUS
<1>1. chain = <<>> /\ Len(chain) = 0  BY DEF Init
<1>2. TypeOK
  BY <1>1, WindowAssumption, ConfirmationsAssumption DEF Init, TypeOK, NoUpdate, NoHeight
<1>3. ChainLinked /\ Numbered /\ HeadRipe  BY <1>1 DEF ChainLinked, Numbered, HeadRipe
<1>4. ConfirmsOneAtATime  BY DEF Init, NoUpdate, ConfirmsOneAtATime
<1> QED  BY <1>2, <1>3, <1>4 DEF AnyInv

LEMMA AnyInvNext ==
  AnyInv /\ ConfirmsOneAtATime /\ [Next]_vars => AnyInv' /\ ConfirmsOneAtATime'
<1> SUFFICES ASSUME AnyInv, ConfirmsOneAtATime, [Next]_vars
             PROVE  AnyInv' /\ ConfirmsOneAtATime'
  OBVIOUS
<1>1. CASE Next
  BY <1>1, ObserveKeepsAnyInv DEF Next
<1>2. CASE UNCHANGED vars
  BY <1>2 DEF vars, AnyInv, TypeOK, ChainLinked, Numbered, HeadRipe, AttachesTo, ConfirmsOneAtATime
<1> QED  BY <1>1, <1>2

LEMMA AnyInvHolds ==
  Spec => [](AnyInv /\ ConfirmsOneAtATime)
BY AnyInvInit, AnyInvNext, PTL DEF Spec

\* The types, the window's bound included, whatever the tracker is fed.
THEOREM TypeCorrect ==
  Spec => []TypeOK
<1>1. AnyInv => TypeOK  BY DEF AnyInv
<1> QED  BY <1>1, AnyInvHolds, PTL

\* Whatever the tracker is fed, what it retains is one chain: observe leaves no
\* block on top of one that is not its parent.
THEOREM ChainStaysLinked ==
  Spec => []ChainLinked
<1>1. AnyInv => ChainLinked  BY DEF AnyInv
<1> QED  BY <1>1, AnyInvHolds, PTL

\* Whatever the tracker is fed, an observe confirms at most one block.
THEOREM OneConfirmationAtATime ==
  Spec => []ConfirmsOneAtATime
BY AnyInvHolds, PTL
=============================================================================
