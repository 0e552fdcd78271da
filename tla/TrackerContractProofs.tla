----------------------- MODULE TrackerContractProofs -----------------------
(***************************************************************************)
(* Proofs about the tracker fed under its contract: what downstream holds  *)
(* as confirmed is at all times one chain without a gap, the watermark     *)
(* tells exactly which retained blocks are in it, no block is dropped from *)
(* the window before it was confirmed, and so ContractSpec implements      *)
(* ConfirmedFeed.                                                          *)
(*                                                                         *)
(* None of these is inductive alone. A roll-back to the bottom of the      *)
(* window lands on blocks the tracker no longer holds, so the invariant    *)
(* also says how the live blocks below the window fit under it.            *)
(***************************************************************************)
EXTENDS TrackerProofs, SequenceTheorems

-----------------------------------------------------------------------------
(* The inductive invariant. *)

\* Before the first block nothing is confirmed.
EmptyMeansFresh == chain = <<>> => live = {} /\ confirmed_through = NoHeight

WatermarkBelowHead == chain # <<>> => confirmed_through <= chain[Len(chain)].number

\* The window reaches down to the watermark: no height between is lost.
OldestIsNear == live # {} => chain[1].number <= confirmed_through + 1

\* The live block just below the window is the parent of its oldest block.
LinkBelow ==
  chain # <<>> =>
    \A a \in live : a.number + 1 = chain[1].number => a.hash = chain[1].parent_hash

\* The live blocks that are not below the window are in it.
LiveInChain ==
  chain # <<>> =>
    \A a \in live : a.number >= chain[1].number => \E i \in 1..Len(chain) : chain[i] = a

ContractInv ==
  /\ AnyInv
  /\ EmptyMeansFresh /\ WatermarkBelowHead /\ OldestIsNear /\ LinkBelow /\ LiveInChain
  /\ LiveIsOneChain /\ LiveMatchesWatermark

-----------------------------------------------------------------------------
(* A call under the contract: b takes the place of the first block orphaned. *)

\* The contract fixes the height of b by the number of blocks kept.
LEMMA FedHeight ==
  ASSUME AnyInv, NEW b \in Blocks, FedUnderContract(b),
         NEW k \in 0..Len(chain), StopsAt(k, b)
  PROVE  /\ k > 0 => b.number = chain[k].number + 1
         /\ k < Len(chain) => chain[k + 1].number = b.number
         /\ k = 0 /\ chain # <<>> =>
              \A a \in live : a.number + 1 = b.number => a.hash = b.parent_hash
<1> USE DEF AnyInv
<1>1. /\ Len(chain) \in Nat
      /\ \A i \in 1..Len(chain) : chain[i].number \in Nat
  BY ChainFacts
<1>2. k > 0 => b.number = chain[k].number + 1
  BY DEF StopsAt, AttachesTo
<1>3. CASE k = 0
  <2>1. \A i \in 1..Len(chain) : ~AttachesTo(chain[i], b)
    BY <1>1, <1>3 DEF StopsAt
  <2>2. chain # <<>> => /\ b.number = chain[1].number
                        /\ \A a \in live : a.number + 1 = b.number => a.hash = b.parent_hash
    BY <2>1 DEF FedUnderContract
  <2>3. k < Len(chain) => chain # <<>>
    BY <1>1, <1>3
  <2> QED  BY <1>2, <1>3, <2>2, <2>3
<1>4. CASE k > 0
  <2>1. SUFFICES ASSUME k < Len(chain) PROVE chain[k + 1].number = b.number
    BY <1>2, <1>4
  <2>2. k \in 1..Len(chain) /\ k + 1 \in 1..Len(chain)  BY <1>1, <1>4, <2>1
  <2>3. chain[k + 1].number - chain[k].number = (k + 1) - k  BY <2>2 DEF Numbered
  <2>4. chain[k + 1].number \in Nat /\ chain[k].number \in Nat  BY <1>1, <2>2
  <2> QED  BY <1>2, <1>4, <2>3, <2>4
<1> QED  BY <1>3, <1>4

\* So the watermark is pulled back below b, and only if it was not.
LEMMA MarkUnderContract ==
  ASSUME ContractInv, NEW b \in Blocks, FedUnderContract(b),
         NEW k \in 0..Len(chain), StopsAt(k, b)
  PROVE  /\ Mark(k) \in Int /\ Mark(k) >= NoHeight
         /\ Mark(k) <= confirmed_through /\ Mark(k) < b.number
         /\ Mark(k) = confirmed_through \/ Mark(k) = b.number - 1
<1> USE DEF ContractInv, AnyInv
<1>1. b.number \in Nat /\ confirmed_through \in Int /\ Len(chain) \in Nat
  BY BlockNumber, ChainFacts DEF TypeOK
<1>2. /\ Mark(k) \in Int /\ Mark(k) >= NoHeight /\ Mark(k) <= confirmed_through
      /\ k = Len(chain) => Mark(k) = confirmed_through
      /\ k < Len(chain) => \/ Mark(k) = chain[k + 1].number - 1
                           \/ /\ Mark(k) = confirmed_through
                              /\ confirmed_through < chain[k + 1].number
  BY MarkFacts
<1>3. CASE k < Len(chain)
  <2>1. chain[k + 1].number = b.number  BY <1>3, FedHeight
  <2> QED  BY <1>1, <1>2, <1>3, <2>1
<1>4. CASE k = Len(chain) /\ k > 0
  <2>1. k \in 1..Len(chain) /\ chain # <<>>  BY <1>4
  <2>2. b.number = chain[k].number + 1 /\ chain[k].number \in Nat
    BY <1>4, <2>1, FedHeight, ChainFacts
  <2>3. confirmed_through <= chain[k].number  BY <1>4, <2>1 DEF WatermarkBelowHead
  <2> QED  BY <1>1, <1>2, <1>4, <2>2, <2>3
<1>5. CASE k = Len(chain) /\ k = 0
  <2>1. chain = <<>>  BY <1>5, ChainFacts, EmptySeq
  <2>2. confirmed_through = NoHeight  BY <2>1 DEF EmptyMeansFresh
  <2> QED  BY <1>1, <1>2, <1>5, <2>2 DEF NoHeight
<1> QED  BY <1>1, <1>3, <1>4, <1>5

-----------------------------------------------------------------------------
(* What a call under the contract does, in terms of heights. *)

\* Heights in what is held, counted down from b.
LEMMA HeldHeights ==
  ASSUME AnyInv, NEW b \in Blocks, NEW k \in 0..Len(chain), StopsAt(k, b)
  PROVE  /\ \A j \in 1..(k + 1) : /\ Held(k, b)[j] \in Blocks
                                  /\ Held(k, b)[j].number \in Nat
                                  /\ Held(k, b)[j].number = b.number - (k + 1 - j)
         /\ \A i \in 1..k : AttachesTo(Held(k, b)[i], Held(k, b)[i + 1])
         /\ \A j \in 1..k : Held(k, b)[j] = chain[j]
         /\ Held(k, b)[k + 1] = b /\ Len(Held(k, b)) = k + 1
<1> DEFINE held == Held(k, b)
<1> USE DEF AnyInv
<1>1. /\ \A i, j \in 1..(k + 1) : held[j].number - held[i].number = j - i
      /\ \A i \in 1..k : AttachesTo(held[i], held[i + 1])
      /\ \A i \in 1..(k + 1) : held[i] \in Blocks /\ held[i].number \in Nat
  BY HeldLinked
<1>2. /\ \A j \in 1..k : held[j] = chain[j]
      /\ held[k + 1] = b /\ Len(held) = k + 1
  BY HeldFacts, ChainFacts
<1>3. b.number \in Nat /\ k \in Nat  BY BlockNumber, ChainFacts
<1> HIDE DEF held
<1>4. ASSUME NEW j \in 1..(k + 1)
      PROVE  held[j].number = b.number - (k + 1 - j)
  <2>1. k + 1 \in 1..(k + 1)  BY <1>3
  <2>2. held[k + 1].number - held[j].number = (k + 1) - j  BY <1>1, <2>1
  <2>3. held[j].number \in Nat  BY <1>1
  <2> QED  BY <1>2, <1>3, <2>2, <2>3
<1> QED  BY <1>1, <1>2, <1>4 DEF held

\* Exactly the live blocks at the height of b and above are retracted.
LEMMA KeptAreBelow ==
  ASSUME ContractInv, NEW b \in Blocks, FedUnderContract(b),
         NEW k \in 0..Len(chain), StopsAt(k, b)
  PROVE  live \ Orphaned(k) = {a \in live : a.number < b.number}
<1> USE DEF ContractInv, AnyInv
<1>1. /\ Len(chain) \in Nat /\ b.number \in Nat
      /\ \A i \in 1..Len(chain) : chain[i].number \in Nat
  BY ChainFacts, BlockNumber
<1>2. ASSUME NEW a \in live, NEW i \in 1..Len(chain), chain[i] = a, i > k
      PROVE  a.number >= b.number
  <2>1. k + 1 \in 1..Len(chain)  BY <1>1, <1>2
  <2>2. chain[i].number - chain[k + 1].number = i - (k + 1)  BY <2>1 DEF Numbered
  <2>3. chain[k + 1].number = b.number  BY <2>1, FedHeight
  <2>4. chain[i].number \in Nat  BY <1>1
  <2> QED  BY <1>1, <1>2, <2>2, <2>3, <2>4
<1>3. ASSUME NEW a \in live, a.number >= b.number
      PROVE  a \in Orphaned(k)
  <2>1. chain # <<>> /\ 1 \in 1..Len(chain)
    BY <1>1, ChainFacts, EmptySeq DEF EmptyMeansFresh
  <2>2. a.number \in Nat  BY BlockNumber DEF TypeOK
  <2>3. chain[1].number <= b.number
    <3>1. CASE k = 0
      BY <1>1, <2>1, <3>1, FedHeight
    <3>2. CASE k > 0
      <4>1. k \in 1..Len(chain)  BY <1>1, <3>2
      <4>2. chain[k].number - chain[1].number = k - 1  BY <2>1, <4>1 DEF Numbered
      <4>3. b.number = chain[k].number + 1  BY <3>2, FedHeight
      <4>4. chain[k].number \in Nat /\ chain[1].number \in Nat  BY <1>1, <2>1, <4>1
      <4> QED  BY <1>1, <3>2, <4>2, <4>3, <4>4
    <3> QED  BY <1>1, <3>1, <3>2
  <2>4. a.number >= chain[1].number
    <3>1. chain[1].number \in Nat  BY <1>1, <2>1
    <3> QED  BY <1>1, <1>3, <2>2, <2>3, <3>1
  <2>5. PICK i \in 1..Len(chain) : chain[i] = a
    BY <2>1, <2>4 DEF LiveInChain
  <2>6. i > k
    <3>1. SUFFICES ASSUME i <= k PROVE FALSE
      BY <1>1
    <3>2. k \in 1..Len(chain) /\ k > 0  BY <1>1, <3>1
    <3>3. chain[k].number - chain[i].number = k - i  BY <3>2 DEF Numbered
    <3>4. b.number = chain[k].number + 1  BY <3>2, FedHeight
    <3>5. chain[k].number \in Nat /\ chain[i].number = a.number  BY <1>1, <2>5, <3>2
    <3> QED  BY <1>1, <1>3, <2>2, <3>1, <3>3, <3>4, <3>5
  <2>7. i \in (k + 1)..Len(chain)  BY <1>1, <2>6
  <2> QED  BY <2>5, <2>7 DEF Orphaned
<1>4. ASSUME NEW a \in live, a \in Orphaned(k)
      PROVE  a.number >= b.number
  <2>1. PICK i \in (k + 1)..Len(chain) : chain[i] = a  BY <1>4 DEF Orphaned
  <2>2. i \in 1..Len(chain) /\ i > k  BY <1>1, <2>1
  <2> QED  BY <1>2, <2>1, <2>2
<1>5. \A a \in live : a.number \in Nat  BY BlockNumber DEF TypeOK
<1>6. \A a \in live : a.number < b.number <=> ~(a.number >= b.number)
  BY <1>1, <1>5
<1> QED  BY <1>3, <1>4, <1>6

\* The watermark after the call, and what is live then: the live blocks up to the
\* pulled-back watermark, and the held ones above it that are deep enough.
LEMMA LiveAfter ==
  ASSUME ContractInv, NEW b \in Blocks, FedUnderContract(b),
         NEW k \in 0..Len(chain), ObserveAt(k, b)
  PROVE  /\ confirmed_through' \in Int
         /\ Mark(k) <= confirmed_through' /\ b.number - Confirmations <= confirmed_through'
         /\ confirmed_through' = Mark(k) \/ confirmed_through' = b.number - Confirmations
         /\ confirmed_through' <= b.number
         /\ \A a \in live' : a \in Blocks /\ a.number \in Nat
         /\ \A a \in live' :
              \/ a \in live /\ a.number < b.number /\ a.number <= Mark(k)
              \/ /\ \E j \in 1..(k + 1) : a = Held(k, b)[j]
                 /\ Mark(k) < a.number /\ a.number <= b.number - Confirmations
         /\ \A a \in live : a.number < b.number => a \in live'
         /\ \A j \in 1..(k + 1) :
              Mark(k) < Held(k, b)[j].number /\ Held(k, b)[j].number <= b.number - Confirmations
                => Held(k, b)[j] \in live'
<1> DEFINE held == Held(k, b)
<1> USE DEF ContractInv, AnyInv
<1>1. StopsAt(k, b)  BY DEF ObserveAt
<1>2. /\ b.number \in Nat /\ Confirmations \in Nat /\ b.number - Confirmations \in Int
      /\ confirmed_through \in Int
  BY BlockNumber, ConfirmationsAssumption DEF TypeOK
<1>3. /\ Mark(k) \in Int /\ Mark(k) <= confirmed_through /\ Mark(k) < b.number
      /\ Mark(k) = confirmed_through \/ Mark(k) = b.number - 1
  BY <1>1, MarkUnderContract
<1>4. confirmed_through' = Raised(Mark(k), b.number - Confirmations)
  BY DEF ObserveAt
<1>5. /\ confirmed_through' \in Int
      /\ Mark(k) <= confirmed_through' /\ b.number - Confirmations <= confirmed_through'
      /\ confirmed_through' = Mark(k) \/ confirmed_through' = b.number - Confirmations
      /\ confirmed_through' <= b.number
  BY <1>2, <1>3, <1>4 DEF Raised
<1>6. /\ Len(held) = k + 1
      /\ \A j \in 1..(k + 1) : held[j] \in Blocks /\ held[j].number \in Nat
  BY <1>1, HeldHeights
<1> DEFINE ripe == {held[i] : i \in {j \in 1..(k + 1) :
                      held[j].number \in (Mark(k) + 1)..(b.number - Confirmations)}}
<1>7. live' = {a \in live : a.number < b.number} \cup ripe
  <2>1. live' = (live \ Orphaned(k)) \cup RipeAt(k, b)  BY DEF ObserveAt
  <2>2. RipeAt(k, b) = ripe  BY <1>6 DEF RipeAt, Ripe
  <2>3. live \ Orphaned(k) = {a \in live : a.number < b.number}
    BY <1>1, KeptAreBelow
  <2> QED  BY <2>1, <2>2, <2>3
<1> HIDE DEF held
<1>8. \A a \in live : a \in Blocks /\ a.number \in Nat  BY BlockNumber DEF TypeOK
<1>9. ASSUME NEW a \in live, a.number < b.number
      PROVE  a.number <= Mark(k)
  <2>1. a.number <= confirmed_through  BY DEF LiveMatchesWatermark
  <2> QED  BY <1>2, <1>3, <1>8, <1>9, <2>1
<1>10. ASSUME NEW a \in ripe
       PROVE  /\ \E j \in 1..(k + 1) : a = held[j]
              /\ Mark(k) < a.number /\ a.number <= b.number - Confirmations
              /\ a \in Blocks /\ a.number \in Nat
  <2>1. PICK j \in 1..(k + 1) :
          a = held[j] /\ held[j].number \in (Mark(k) + 1)..(b.number - Confirmations)
    OBVIOUS
  <2> QED  BY <1>2, <1>3, <1>6, <2>1
<1>11. ASSUME NEW j \in 1..(k + 1),
              Mark(k) < held[j].number, held[j].number <= b.number - Confirmations
       PROVE  held[j] \in ripe
  <2>1. held[j].number \in (Mark(k) + 1)..(b.number - Confirmations)
    BY <1>2, <1>3, <1>6, <1>11
  <2> QED  BY <2>1
<1> HIDE DEF ripe
<1>12. \A a \in live' : a \in Blocks /\ a.number \in Nat  BY <1>7, <1>8, <1>10
<1>13. \A a \in live' :
         \/ a \in live /\ a.number < b.number /\ a.number <= Mark(k)
         \/ /\ \E j \in 1..(k + 1) : a = held[j]
            /\ Mark(k) < a.number /\ a.number <= b.number - Confirmations
  BY <1>7, <1>9, <1>10
<1>14. \A a \in live : a.number < b.number => a \in live'  BY <1>7
<1>15. \A j \in 1..(k + 1) :
         Mark(k) < held[j].number /\ held[j].number <= b.number - Confirmations
           => held[j] \in live'
  BY <1>7, <1>11
<1> QED  BY <1>5, <1>12, <1>13, <1>14, <1>15 DEF held

\* A held block is live after the call exactly when the new watermark covers it.
LEMMA HeldMatchesWatermark ==
  ASSUME ContractInv, NEW b \in Blocks, FedUnderContract(b),
         NEW k \in 0..Len(chain), ObserveAt(k, b), NEW j \in 1..(k + 1)
  PROVE  Held(k, b)[j].number <= confirmed_through' <=> Held(k, b)[j] \in live'
<1> DEFINE held == Held(k, b)
<1> USE DEF ContractInv, AnyInv
<1>1. StopsAt(k, b)  BY DEF ObserveAt
<1>2. /\ held[j] \in Blocks /\ held[j].number \in Nat
      /\ held[j].number = b.number - (k + 1 - j)
      /\ j \in 1..k => held[j] = chain[j]
      /\ held[k + 1] = b
  BY <1>1, HeldHeights
<1>3. /\ b.number \in Nat /\ Confirmations \in Nat /\ confirmed_through \in Int
      /\ Len(chain) \in Nat
  BY BlockNumber, ConfirmationsAssumption, ChainFacts DEF TypeOK
<1>4. /\ Mark(k) \in Int /\ Mark(k) <= confirmed_through /\ Mark(k) < b.number
      /\ Mark(k) = confirmed_through \/ Mark(k) = b.number - 1
  BY <1>1, MarkUnderContract
<1>5. /\ confirmed_through' \in Int /\ Mark(k) <= confirmed_through'
      /\ b.number - Confirmations <= confirmed_through'
      /\ confirmed_through' = Mark(k) \/ confirmed_through' = b.number - Confirmations
      /\ \A a \in live' :
           \/ a \in live /\ a.number < b.number /\ a.number <= Mark(k)
           \/ Mark(k) < a.number /\ a.number <= b.number - Confirmations
      /\ \A a \in live : a.number < b.number => a \in live'
      /\ Mark(k) < held[j].number /\ held[j].number <= b.number - Confirmations
           => held[j] \in live'
  BY LiveAfter
<1> HIDE DEF held
<1>6. ASSUME held[j] \in live'
      PROVE  held[j].number <= confirmed_through'
  <2>1. held[j].number <= Mark(k) \/ held[j].number <= b.number - Confirmations
    BY <1>5, <1>6
  <2>2. /\ held[j].number \in Int /\ b.number - Confirmations \in Int
        /\ Mark(k) \in Int /\ confirmed_through' \in Int
    BY <1>2, <1>3, <1>4, <1>5
  <2>3. Mark(k) <= confirmed_through' /\ b.number - Confirmations <= confirmed_through'
    BY <1>5
  <2> QED  BY <2>1, <2>2, <2>3
<1>7. ASSUME held[j].number <= confirmed_through'
      PROVE  held[j] \in live'
  <2>1. CASE held[j].number > Mark(k)
    BY <1>2, <1>3, <1>4, <1>5, <1>7, <2>1
  <2>2. CASE held[j].number <= Mark(k)
    <3>1. held[j].number < b.number  BY <1>2, <1>3, <1>4, <2>2
    <3>2. j \in 1..k /\ j \in 1..Len(chain)  BY <1>2, <1>3, <3>1
    <3>3. held[j] = chain[j] /\ chain[j].number <= confirmed_through
      BY <1>2, <1>3, <1>4, <2>2, <3>2
    <3>4. held[j] \in live  BY <3>2, <3>3 DEF LiveMatchesWatermark
    <3> QED  BY <1>5, <3>1, <3>4
  <2> QED  BY <1>2, <1>4, <2>1, <2>2
<1> QED  BY <1>6, <1>7 DEF held

-----------------------------------------------------------------------------
(* The invariant is kept. *)

\* Where live blocks meet held ones, they link: the live block right below a
\* newly confirmed one is its parent.
LEMMA LinksAcross ==
  ASSUME ContractInv, NEW b \in Blocks, FedUnderContract(b),
         NEW k \in 0..Len(chain), StopsAt(k, b),
         NEW a \in live, a.number <= Mark(k),
         NEW j \in 1..(k + 1), a.number + 1 = Held(k, b)[j].number
  PROVE  a.hash = Held(k, b)[j].parent_hash
<1> DEFINE held == Held(k, b)
<1> USE DEF ContractInv, AnyInv
<1>1. /\ held[j].number \in Nat
      /\ j \in 1..k => held[j] = chain[j]
      /\ held[k + 1] = b
      /\ \A i \in 1..k : AttachesTo(held[i], held[i + 1]) /\ held[i] = chain[i]
  BY HeldHeights
<1>2. Len(chain) \in Nat /\ b.number \in Nat /\ a.number \in Nat /\ confirmed_through \in Int
  BY ChainFacts, BlockNumber DEF TypeOK
<1>3. Mark(k) \in Int /\ Mark(k) <= confirmed_through /\ Mark(k) < b.number
  BY MarkUnderContract
<1> HIDE DEF held
<1>4. a.number + 1 = held[j].number  BY DEF held
<1>5. CASE j > 1
  <2>1. j - 1 \in 1..k /\ j - 1 \in 1..Len(chain) /\ (j - 1) + 1 = j  BY <1>2, <1>5
  <2>2. AttachesTo(held[j - 1], held[j]) /\ held[j - 1] = chain[j - 1]
    BY <1>1, <2>1
  <2>3. chain[j - 1].number = a.number
    <3>1. chain[j - 1].number + 1 = held[j].number /\ chain[j - 1].number \in Nat
      BY <2>1, <2>2, ChainFacts DEF AttachesTo
    <3> QED  BY <1>2, <1>4, <3>1
  <2>4. chain[j - 1] \in live
    <3>1. chain[j - 1].number <= confirmed_through  BY <1>2, <1>3, <2>3
    <3> QED  BY <2>1, <3>1 DEF LiveMatchesWatermark
  <2>5. a = chain[j - 1]  BY <2>3, <2>4 DEF LiveIsOneChain
  <2> QED  BY <2>2, <2>5 DEF AttachesTo, held
<1>6. CASE j = 1 /\ k > 0
  <2>1. j \in 1..k /\ 1 \in 1..Len(chain) /\ chain # <<>>  BY <1>2, <1>6
  <2>2. held[j] = chain[1]  BY <1>1, <1>6, <2>1
  <2> QED  BY <1>4, <2>1, <2>2 DEF LinkBelow, held
<1>7. CASE j = 1 /\ k = 0
  <2>1. held[j] = b  BY <1>1, <1>7
  <2>2. chain # <<>>  BY DEF EmptyMeansFresh
  <2> QED  BY <1>4, <1>7, <2>1, <2>2, FedHeight DEF held
<1> QED  BY <1>2, <1>5, <1>6, <1>7

\* While something is live, the lowest held block is at most one past the
\* pulled-back watermark.
LEMMA OldestHeldIsNear ==
  ASSUME ContractInv, NEW b \in Blocks, FedUnderContract(b),
         NEW k \in 0..Len(chain), StopsAt(k, b), live # {}
  PROVE  b.number - k <= Mark(k) + 1
<1> USE DEF ContractInv, AnyInv
<1>1. /\ Len(chain) \in Nat /\ b.number \in Nat /\ confirmed_through \in Int
      /\ chain # <<>> /\ 1 \in 1..Len(chain)
  <2>1. chain # <<>>  BY DEF EmptyMeansFresh
  <2> QED  BY <2>1, ChainFacts, BlockNumber, EmptySeq DEF TypeOK
<1>2. chain[1].number \in Nat /\ chain[1].number <= confirmed_through + 1
  BY <1>1, ChainFacts DEF OldestIsNear
<1>3. Mark(k) \in Int /\ (Mark(k) = confirmed_through \/ Mark(k) = b.number - 1)
  BY MarkUnderContract
<1>4. chain[1].number = b.number - k
  <2>1. CASE k = 0
    BY <1>1, <2>1, FedHeight
  <2>2. CASE k > 0
    <3>1. k \in 1..Len(chain)  BY <1>1, <2>2
    <3>2. chain[k].number - chain[1].number = k - 1  BY <1>1, <3>1 DEF Numbered
    <3>3. b.number = chain[k].number + 1 /\ chain[k].number \in Nat
      BY <2>2, <3>1, FedHeight, ChainFacts
    <3>4. \A x, y, h \in Int : y - x = k - 1 /\ h = y + 1 => x = h - k
      BY <1>1
    <3>5. chain[1].number \in Int /\ chain[k].number \in Int /\ b.number \in Int
      BY <1>1, <1>2, <3>3
    <3> QED  BY <3>2, <3>3, <3>4, <3>5
  <2> QED  BY <1>1, <2>1, <2>2
<1> QED  BY <1>1, <1>2, <1>3, <1>4

LEMMA KeepsLiveIsOneChain ==
  ASSUME ContractInv, NEW b \in Blocks, FedUnderContract(b),
         NEW k \in 0..Len(chain), ObserveAt(k, b)
  PROVE  LiveIsOneChain'
<1> DEFINE held == Held(k, b)
           Old(a) == a \in live /\ a.number < b.number /\ a.number <= Mark(k)
           New(a) == /\ \E j \in 1..(k + 1) : a = held[j]
                     /\ Mark(k) < a.number /\ a.number <= b.number - Confirmations
<1> USE DEF ContractInv, AnyInv
<1>1. StopsAt(k, b)  BY DEF ObserveAt
<1>2. /\ b.number \in Nat /\ Confirmations \in Nat /\ confirmed_through \in Int
      /\ Len(chain) \in Nat
  BY BlockNumber, ConfirmationsAssumption, ChainFacts DEF TypeOK
<1>3. /\ \A j \in 1..(k + 1) : held[j].number \in Nat /\ held[j].number = b.number - (k + 1 - j)
      /\ \A i \in 1..k : AttachesTo(held[i], held[i + 1])
  BY <1>1, HeldHeights
<1>4. /\ Mark(k) \in Int /\ Mark(k) <= confirmed_through /\ Mark(k) < b.number
  BY <1>1, MarkUnderContract
<1>5. /\ confirmed_through' \in Int
      /\ confirmed_through' = Mark(k) \/ confirmed_through' = b.number - Confirmations
      /\ \A a \in live' : a.number \in Nat /\ (Old(a) \/ New(a))
      /\ \A a \in live : a.number < b.number => a \in live'
      /\ \A j \in 1..(k + 1) :
           Mark(k) < held[j].number /\ held[j].number <= b.number - Confirmations
             => held[j] \in live'
  BY LiveAfter
<1> HIDE DEF held
<1>6. ASSUME NEW a \in live', NEW c \in live', a.number = c.number
      PROVE  a = c
  <2>1. CASE Old(a) /\ Old(c)
    BY <1>6, <2>1 DEF LiveIsOneChain
  <2>2. CASE New(a) /\ New(c)
    <3>1. PICK i \in 1..(k + 1) : a = held[i]  BY <2>2
    <3>2. PICK j \in 1..(k + 1) : c = held[j]  BY <2>2
    <3>3. b.number - (k + 1 - i) = b.number - (k + 1 - j)
      BY <1>3, <1>6, <3>1, <3>2
    <3>4. i = j  BY <1>2, <3>3
    <3> QED  BY <3>1, <3>2, <3>4
  <2>3. ~(Old(a) /\ New(c)) /\ ~(New(a) /\ Old(c))
    BY <1>4, <1>5, <1>6
  <2> QED  BY <1>5, <2>1, <2>2, <2>3
<1>7. ASSUME NEW a \in live', NEW c \in live', a.number + 1 = c.number
      PROVE  a.hash = c.parent_hash
  <2>1. CASE Old(a) /\ Old(c)
    BY <1>7, <2>1 DEF LiveIsOneChain
  <2>2. CASE New(a) /\ New(c)
    <3>1. PICK i \in 1..(k + 1) : a = held[i]  BY <2>2
    <3>2. PICK j \in 1..(k + 1) : c = held[j]  BY <2>2
    <3>3. (b.number - (k + 1 - i)) + 1 = b.number - (k + 1 - j)
      BY <1>3, <1>7, <3>1, <3>2
    <3>4. i \in 1..k /\ j = i + 1  BY <1>2, <3>3
    <3>5. AttachesTo(held[i], held[j])  BY <1>3, <3>4
    <3> QED  BY <3>1, <3>2, <3>5 DEF AttachesTo
  <2>3. CASE Old(a) /\ New(c)
    <3>1. PICK j \in 1..(k + 1) : c = held[j]  BY <2>3
    <3> QED  BY <1>1, <1>7, <2>3, <3>1, LinksAcross DEF held
  <2>4. ~(New(a) /\ Old(c))
    BY <1>4, <1>5, <1>7
  <2> QED  BY <1>5, <2>1, <2>2, <2>3, <2>4
<1>8. ASSUME NEW a \in live', NEW n \in a.number..confirmed_through'
      PROVE  \E c \in live' : c.number = n
  <2>1. n \in Nat /\ a.number <= n /\ n <= confirmed_through' /\ a.number \in Nat
    BY <1>5, <1>8
  <2>2. CASE n <= Mark(k)
    <3>1. Old(a)  BY <1>4, <1>5, <2>1, <2>2
    <3>2. n \in a.number..confirmed_through  BY <1>2, <1>4, <2>1, <2>2
    <3>3. PICK c \in live : c.number = n  BY <3>1, <3>2 DEF LiveIsOneChain
    <3>4. c.number < b.number  BY <1>2, <1>4, <2>1, <2>2, <3>3
    <3> QED  BY <1>5, <3>3, <3>4
  <2>3. CASE n > Mark(k)
    <3>1. n <= b.number - Confirmations  BY <1>2, <1>4, <1>5, <2>1, <2>3
    <3>2. b.number - k <= n
      <4>1. CASE Old(a)
        <5>1. b.number - k <= Mark(k) + 1  BY <1>1, <4>1, OldestHeldIsNear
        <5>2. b.number - k \in Int /\ Mark(k) \in Int  BY <1>2, <1>4
        <5> QED  BY <2>1, <2>3, <5>1, <5>2
      <4>2. CASE New(a)
        <5>1. PICK j \in 1..(k + 1) : a = held[j]  BY <4>2
        <5>2. a.number = b.number - (k + 1 - j)  BY <1>3, <5>1
        <5>3. a.number >= b.number - k  BY <1>2, <5>2
        <5>4. b.number - k \in Int  BY <1>2
        <5> QED  BY <2>1, <5>3, <5>4
      <4> QED  BY <1>5, <4>1, <4>2
    <3> DEFINE j == n - (b.number - k) + 1
    <3>3. j \in 1..(k + 1) /\ b.number - (k + 1 - j) = n
      <4>1. n <= b.number  BY <1>2, <2>1, <3>1
      <4>2. n \in Int /\ b.number \in Int /\ k \in Nat  BY <1>2, <2>1
      <4> QED  BY <3>2, <4>1, <4>2
    <3> HIDE DEF j
    <3>4. held[j].number = n  BY <1>3, <3>3
    <3>5. held[j] \in live'  BY <1>5, <2>3, <3>1, <3>3, <3>4
    <3> QED  BY <3>4, <3>5
  <2> QED  BY <1>4, <2>1, <2>2, <2>3
<1> QED  BY <1>6, <1>7, <1>8 DEF LiveIsOneChain

LEMMA KeepsLiveMatchesWatermark ==
  ASSUME ContractInv, NEW b \in Blocks, FedUnderContract(b),
         NEW k \in 0..Len(chain), ObserveAt(k, b)
  PROVE  LiveMatchesWatermark'
<1> USE DEF ContractInv, AnyInv
<1>1. PICK cut \in 0..k :
           /\ Len(chain') = k + 1 - cut
           /\ \A i \in 1..Len(chain') : chain'[i] = Held(k, b)[i + cut]
  BY ChainAfter
<1>2. ASSUME NEW i \in 1..Len(chain')
      PROVE  chain'[i].number <= confirmed_through' <=> chain'[i] \in live'
  <2>1. i + cut \in 1..(k + 1)  BY <1>1, ChainFacts
  <2>2. chain'[i] = Held(k, b)[i + cut]  BY <1>1
  <2> QED  BY <2>1, <2>2, HeldMatchesWatermark
<1>3. ASSUME NEW a \in live'
      PROVE  a.number <= confirmed_through'
  <2>1. /\ confirmed_through' \in Int /\ a.number \in Nat
        /\ Mark(k) <= confirmed_through' /\ b.number - Confirmations <= confirmed_through'
        /\ a.number <= Mark(k) \/ a.number <= b.number - Confirmations
    BY LiveAfter
  <2>2. Mark(k) \in Int /\ b.number - Confirmations \in Int
    BY MarkFacts, BlockNumber, ConfirmationsAssumption
  <2> QED  BY <2>1, <2>2
<1> QED  BY <1>2, <1>3 DEF LiveMatchesWatermark

\* What a trimmed chain starts with, and how far below the head.
LEMMA CutIsDeep ==
  ASSUME ContractInv, NEW b \in Blocks, NEW k \in 0..Len(chain),
         NEW cut \in 0..k, k + 1 - cut = Window
  PROVE  b.number - (k + 1 - cut) < b.number - Confirmations
BY WindowAssumption, ConfirmationsAssumption, BlockNumber

LEMMA KeepsBookkeeping ==
  ASSUME ContractInv, NEW b \in Blocks, FedUnderContract(b),
         NEW k \in 0..Len(chain), ObserveAt(k, b)
  PROVE  /\ EmptyMeansFresh' /\ WatermarkBelowHead'
         /\ OldestIsNear' /\ LinkBelow' /\ LiveInChain'
<1> DEFINE held == Held(k, b)
           Old(a) == a \in live /\ a.number < b.number /\ a.number <= Mark(k)
           New(a) == /\ \E j \in 1..(k + 1) : a = held[j]
                     /\ Mark(k) < a.number /\ a.number <= b.number - Confirmations
<1> USE DEF ContractInv, AnyInv
<1>1. StopsAt(k, b)  BY DEF ObserveAt
<1>2. /\ b.number \in Nat /\ Confirmations \in Nat /\ Window \in Nat
      /\ confirmed_through \in Int /\ Len(chain) \in Nat
  BY BlockNumber, ConfirmationsAssumption, WindowAssumption, ChainFacts DEF TypeOK
<1>3. /\ \A j \in 1..(k + 1) : held[j].number \in Nat /\ held[j].number = b.number - (k + 1 - j)
      /\ \A i \in 1..k : AttachesTo(held[i], held[i + 1])
      /\ \A i \in 1..k : held[i] = chain[i]
      /\ held[k + 1] = b
  BY <1>1, HeldHeights
<1>4. /\ Mark(k) \in Int /\ Mark(k) <= confirmed_through /\ Mark(k) < b.number
      /\ Mark(k) = confirmed_through \/ Mark(k) = b.number - 1
  BY <1>1, MarkUnderContract
<1>5. /\ confirmed_through' \in Int
      /\ Mark(k) <= confirmed_through' /\ b.number - Confirmations <= confirmed_through'
      /\ confirmed_through' <= b.number
      /\ \A a \in live' : a.number \in Nat /\ (Old(a) \/ New(a))
  BY LiveAfter
<1>6. PICK cut \in 0..k :
           /\ chain' \in Seq(Blocks)
           /\ Len(chain') = k + 1 - cut
           /\ cut > 0 => Len(chain') = Window
           /\ \A i \in 1..Len(chain') : chain'[i] = held[i + cut]
  BY ChainAfter
<1>7. \A j \in 1..(k + 1) : held[j].number <= confirmed_through' <=> held[j] \in live'
  BY HeldMatchesWatermark
<1> HIDE DEF held
<1>8. /\ 1 \in 1..Len(chain') /\ Len(chain') \in 1..Len(chain')
      /\ 1 + cut \in 1..(k + 1) /\ Len(chain') + cut = k + 1
  BY <1>2, <1>6
<1>9. chain' # <<>>
  BY <1>6, <1>8, EmptySeq
<1>10. /\ chain'[1] = held[1 + cut]
       /\ chain'[1].number = b.number - (k - cut)
       /\ chain'[1].number \in Nat
  BY <1>2, <1>3, <1>6, <1>8
<1>11. EmptyMeansFresh'  BY <1>9 DEF EmptyMeansFresh
<1>12. WatermarkBelowHead'
  <2>1. chain'[Len(chain')] = b  BY <1>3, <1>6, <1>8
  <2> QED  BY <1>5, <2>1 DEF WatermarkBelowHead
<1>13. cut > 0 => b.number - (k + 1 - cut) < b.number - Confirmations
  BY <1>6, CutIsDeep
<1>14. OldestIsNear'
  <2> SUFFICES ASSUME NEW a \in live'
               PROVE  chain'[1].number <= confirmed_through' + 1
    BY DEF OldestIsNear
  <2>1. CASE cut > 0
    <3>1. b.number - (k + 1 - cut) < b.number - Confirmations  BY <1>13, <2>1
    <3>2. chain'[1].number - 1 = b.number - (k + 1 - cut)  BY <1>2, <1>10
    <3>3. b.number - Confirmations \in Int  BY <1>2
    <3>4. chain'[1].number - 1 < b.number - Confirmations  BY <3>1, <3>2
    <3> QED  BY <1>5, <1>10, <3>3, <3>4
  <2>2. CASE cut = 0 /\ Old(a)
    <3>1. b.number - k <= Mark(k) + 1  BY <1>1, <2>2, OldestHeldIsNear
    <3>2. chain'[1].number = b.number - k  BY <1>10, <2>2
    <3>3. chain'[1].number <= Mark(k) + 1  BY <3>1, <3>2
    <3> QED  BY <1>4, <1>5, <1>10, <3>3
  <2>3. CASE cut = 0 /\ New(a)
    <3>1. PICK j \in 1..(k + 1) : a = held[j]  BY <2>3
    <3>2. a.number = b.number - (k + 1 - j)  BY <1>3, <3>1
    <3>3. a.number <= confirmed_through'
      <4>1. b.number - Confirmations \in Int /\ a.number \in Int  BY <1>2, <1>5
      <4> QED  BY <1>5, <2>3, <4>1
    <3>4. chain'[1].number <= a.number  BY <1>2, <1>10, <2>3, <3>2
    <3>5. a.number \in Int  BY <1>5
    <3> QED  BY <1>5, <1>10, <3>3, <3>4, <3>5
  <2> QED  BY <1>2, <1>5, <2>1, <2>2, <2>3
<1>15. LinkBelow'
  <2> SUFFICES ASSUME NEW a \in live', a.number + 1 = chain'[1].number
               PROVE  a.hash = chain'[1].parent_hash
    BY DEF LinkBelow
  <2>1. a.number + 1 = held[1 + cut].number /\ a.number \in Nat
    BY <1>5, <1>10
  <2>2. CASE Old(a)
    BY <1>1, <1>8, <1>10, <2>1, <2>2, LinksAcross DEF held
  <2>3. CASE New(a)
    <3>1. PICK j \in 1..(k + 1) : a = held[j]  BY <2>3
    <3>2. a.number = b.number - (k + 1 - j)  BY <1>3, <3>1
    <3>3. j = cut /\ cut \in 1..k  BY <1>2, <1>10, <2>1, <3>2
    <3>4. AttachesTo(held[cut], held[cut + 1])  BY <1>3, <3>3
    <3> QED  BY <1>2, <1>10, <3>1, <3>3, <3>4 DEF AttachesTo
  <2> QED  BY <1>5, <2>2, <2>3
<1>16. LiveInChain'
  <2> SUFFICES ASSUME NEW a \in live', a.number >= chain'[1].number
               PROVE  \E i \in 1..Len(chain') : chain'[i] = a
    BY DEF LiveInChain
  <2>1. \E j \in 1..(k + 1) : a = held[j]
    <3>1. CASE Old(a)
      <4>1. a.number >= b.number - k  BY <1>2, <1>5, <1>10
      <4>2. k > 0 /\ 1 \in 1..(k + 1) /\ 1 \in 1..k /\ 1 \in 1..Len(chain)
        BY <1>2, <1>5, <3>1, <4>1
      <4>3. chain[1].number = b.number - k /\ chain[1] = held[1]
        <5>1. chain[1] = held[1]  BY <1>3, <4>2
        <5>2. held[1].number = b.number - (k + 1 - 1)  BY <1>3, <4>2
        <5> QED  BY <1>2, <5>1, <5>2
      <4>4. chain # <<>>  BY <1>2, <4>2, ChainFacts, EmptySeq
      <4>5. PICK i \in 1..Len(chain) : chain[i] = a
        BY <3>1, <4>1, <4>3, <4>4 DEF LiveInChain
      <4>6. chain[i].number - chain[1].number = i - 1  BY <4>2 DEF Numbered
      <4>7. chain[i].number = a.number /\ a.number \in Nat  BY <1>5, <4>5
      <4>8. i \in 1..k  BY <1>2, <3>1, <4>3, <4>6, <4>7
      <4>9. a = held[i] /\ i \in 1..(k + 1)
        <5>1. held[i] = chain[i]  BY <1>3, <4>8
        <5> QED  BY <1>2, <4>5, <4>8, <5>1
      <4> QED  BY <4>9
    <3>2. CASE New(a)
      BY <3>2
    <3> QED  BY <1>5, <3>1, <3>2
  <2>2. PICK j \in 1..(k + 1) : a = held[j]  BY <2>1
  <2>3. a.number = b.number - (k + 1 - j)  BY <1>3, <2>2
  <2>4. j - cut \in 1..Len(chain') /\ (j - cut) + cut = j
    BY <1>2, <1>6, <1>10, <2>3
  <2>5. chain'[j - cut] = held[j]  BY <1>6, <2>4
  <2> QED  BY <2>2, <2>4, <2>5
<1> QED  BY <1>11, <1>12, <1>14, <1>15, <1>16

LEMMA ContractInvInit ==
  Init => ContractInv
<1> SUFFICES ASSUME Init PROVE ContractInv
  OBVIOUS
<1>1. chain = <<>> /\ Len(chain) = 0 /\ live = {} /\ confirmed_through = NoHeight
  BY DEF Init
<1>2. AnyInv  BY AnyInvInit
<1>3. /\ EmptyMeansFresh /\ WatermarkBelowHead /\ OldestIsNear /\ LinkBelow /\ LiveInChain
  BY <1>1 DEF EmptyMeansFresh, WatermarkBelowHead, OldestIsNear, LinkBelow, LiveInChain
<1>4. LiveIsOneChain /\ LiveMatchesWatermark
  BY <1>1 DEF LiveIsOneChain, LiveMatchesWatermark
<1> QED  BY <1>2, <1>3, <1>4 DEF ContractInv

LEMMA ObserveKeepsContractInv ==
  ASSUME ContractInv, NEW b \in Blocks, FedUnderContract(b), Observe(b)
  PROVE  ContractInv'
<1>1. PICK k \in 0..Len(chain) : ObserveAt(k, b)  BY ObserveSplits
<1>2. AnyInv'  BY ObserveKeepsAnyInv DEF ContractInv
<1>3. /\ EmptyMeansFresh' /\ WatermarkBelowHead'
      /\ OldestIsNear' /\ LinkBelow' /\ LiveInChain'
  BY <1>1, KeepsBookkeeping
<1>4. LiveIsOneChain'  BY <1>1, KeepsLiveIsOneChain
<1>5. LiveMatchesWatermark'  BY <1>1, KeepsLiveMatchesWatermark
<1> QED  BY <1>2, <1>3, <1>4, <1>5 DEF ContractInv

LEMMA ContractInvNext ==
  ContractInv /\ [ContractNext]_vars => ContractInv'
<1> SUFFICES ASSUME ContractInv, [ContractNext]_vars PROVE ContractInv'
  OBVIOUS
<1>1. CASE ContractNext
  BY <1>1, ObserveKeepsContractInv DEF ContractNext
<1>2. CASE UNCHANGED vars
  BY <1>2 DEF vars, ContractInv, AnyInv, TypeOK, ChainLinked, Numbered, HeadRipe, AttachesTo,
     EmptyMeansFresh, WatermarkBelowHead, OldestIsNear, LinkBelow, LiveInChain,
     LiveIsOneChain, LiveMatchesWatermark
<1> QED  BY <1>1, <1>2

LEMMA ContractInvHolds ==
  ContractSpec => []ContractInv
BY ContractInvInit, ContractInvNext, PTL DEF ContractSpec

-----------------------------------------------------------------------------
(* The theorems. *)

\* Fed under its contract, the tracker never lets downstream hold two blocks of
\* one height, two that do not link, or a gap below the watermark, whatever the
\* depth of the reorgs.
THEOREM LiveStaysOneChain ==
  ContractSpec => []LiveIsOneChain
<1>1. ContractInv => LiveIsOneChain  BY DEF ContractInv
<1> QED  BY <1>1, ContractInvHolds, PTL

\* Fed under its contract, a retained block is confirmed downstream exactly when
\* it is at or below the watermark.
THEOREM WatermarkIsExact ==
  ContractSpec => []LiveMatchesWatermark
<1>1. ContractInv => LiveMatchesWatermark  BY DEF ContractInv
<1> QED  BY <1>1, ContractInvHolds, PTL

\* A block the window drops lies deeper than N, and was confirmed.
LEMMA ObserveDropsOnlyConfirmed ==
  ASSUME ContractInv, NEW b \in Blocks, FedUnderContract(b), Observe(b),
         NEW i \in 1..Len(chain)
  PROVE  \/ \E j \in 1..Len(chain') : chain'[j] = chain[i]
         \/ chain[i] \in update'.reorged
         \/ chain[i] \in live'
<1> USE DEF ContractInv, AnyInv
<1>1. PICK k \in 0..Len(chain) : ObserveAt(k, b)  BY ObserveSplits
<1>2. PICK cut \in 0..k :
           /\ Len(chain') = k + 1 - cut
           /\ cut > 0 => Len(chain') = Window
           /\ \A j \in 1..Len(chain') : chain'[j] = Held(k, b)[j + cut]
  BY <1>1, ChainAfter
<1>3. Len(chain) \in Nat /\ b.number \in Nat /\ Confirmations \in Nat
  BY ChainFacts, BlockNumber, ConfirmationsAssumption
<1>4. CASE i > k
  <2>1. chain[i] \in Orphaned(k)  BY <1>3, <1>4 DEF Orphaned
  <2>2. update'.reorged = Orphaned(k)  BY <1>1 DEF ObserveAt
  <2> QED  BY <2>1, <2>2
<1>5. CASE i <= k /\ i > cut
  <2>1. i - cut \in 1..Len(chain') /\ (i - cut) + cut = i  BY <1>2, <1>5
  <2>2. Held(k, b)[i] = chain[i]  BY <1>1, <1>5, HeldHeights DEF ObserveAt
  <2>3. chain'[i - cut] = chain[i]  BY <1>2, <2>1, <2>2
  <2> QED  BY <2>1, <2>3
<1>6. CASE i <= cut
  <2>1. i \in 1..k /\ i \in 1..(k + 1) /\ cut > 0  BY <1>3, <1>6
  <2>2. Held(k, b)[i] = chain[i] /\ Held(k, b)[i].number = b.number - (k + 1 - i)
    BY <1>1, <2>1, HeldHeights DEF ObserveAt
  <2>3. b.number - (k + 1 - cut) < b.number - Confirmations
    BY <1>2, <2>1, CutIsDeep
  <2>4. confirmed_through' \in Int /\ b.number - Confirmations <= confirmed_through'
    BY <1>1, LiveAfter
  <2>5. Held(k, b)[i].number <= confirmed_through'
    BY <1>3, <1>6, <2>2, <2>3, <2>4
  <2>6. chain[i] \in live'  BY <1>1, <2>1, <2>2, <2>5, HeldMatchesWatermark
  <2> QED  BY <2>6
<1> QED  BY <1>3, <1>4, <1>5, <1>6

\* Fed under its contract, the tracker drops no block before it was confirmed:
\* what the assertion of with_window is for.
THEOREM NothingDroppedUnconfirmed ==
  ContractSpec => SurvivesUntilConfirmed
<1> DEFINE Survives ==
      \A i \in 1..Len(chain) :
        \/ \E j \in 1..Len(chain') : chain'[j] = chain[i]
        \/ chain[i] \in update'.reorged
        \/ chain[i] \in live'
<1>1. ContractInv /\ [ContractNext]_vars => [Survives]_vars
  BY ObserveDropsOnlyConfirmed DEF ContractNext
<1> QED  BY <1>1, ContractInvHolds, PTL DEF ContractSpec, SurvivesUntilConfirmed

\* Blocks that are one per height, linked and without a gap up to some height are
\* a chain in the sense of the abstract specification.
LEMMA LiveIsChain ==
  ASSUME NEW S, NEW top \in Int,
         \A a \in S : a.number \in Nat /\ a.number <= top,
         \A a, b \in S : a.number = b.number => a = b,
         \A a, b \in S : a.number + 1 = b.number => a.hash = b.parent_hash,
         \A a \in S : \A n \in a.number..top : \E b \in S : b.number = n
  PROVE  Feed!IsChain(S)
<1>1. ASSUME NEW a \in S, NEW c \in S, NEW n \in a.number..c.number
      PROVE  \E d \in S : d.number = n
  <2>1. n \in a.number..top  BY <1>1
  <2> QED  BY <2>1
<1> QED  BY <1>1 DEF Feed!IsChain

\* A call takes blocks off the top of what is live and puts others on top.
LEMMA ObserveAmends ==
  ASSUME ContractInv, NEW b \in Blocks, FedUnderContract(b), Observe(b)
  PROVE  Feed!Amend
<1> USE DEF ContractInv, AnyInv
<1>1. ContractInv'  BY ObserveKeepsContractInv
<1>2. live' \subseteq Blocks /\ Feed!IsChain(live')
  <2>1. live' \subseteq Blocks /\ confirmed_through' \in Int  BY <1>1 DEF TypeOK
  <2>2. \A a \in live' : a.number \in Nat /\ a.number <= confirmed_through'
    BY <1>1, <2>1, BlockNumber DEF LiveMatchesWatermark
  <2>3. LiveIsOneChain'  BY <1>1
  <2>4. Feed!IsChain(live')  BY <2>1, <2>2, <2>3, LiveIsChain DEF LiveIsOneChain
  <2> QED  BY <2>1, <2>4
<1>3. PICK k \in 0..Len(chain) : ObserveAt(k, b)  BY ObserveSplits
<1>4. StopsAt(k, b)  BY <1>3 DEF ObserveAt
<1>5. /\ Mark(k) \in Int /\ Mark(k) < b.number
      /\ Mark(k) = confirmed_through \/ Mark(k) = b.number - 1
      /\ b.number \in Nat /\ confirmed_through \in Int /\ Confirmations \in Nat
  BY <1>4, MarkUnderContract, BlockNumber, ConfirmationsAssumption DEF TypeOK
<1>6. /\ \A a \in live' : a.number \in Nat
      /\ \A a \in live' :
           \/ a \in live /\ a.number < b.number /\ a.number <= Mark(k)
           \/ Mark(k) < a.number /\ a.number <= b.number - Confirmations
      /\ \A a \in live : a.number < b.number => a \in live'
  BY <1>3, LiveAfter
<1>7. \A a \in live : a.number \in Nat /\ a.number <= confirmed_through
  BY BlockNumber DEF TypeOK, LiveMatchesWatermark
<1>8. ASSUME NEW stays \in live \cap live', NEW gone \in live \ live'
      PROVE  stays.number < gone.number
  <2>1. gone.number >= b.number /\ stays.number <= b.number
    BY <1>5, <1>6, <1>7
  <2>2. stays.number # gone.number  BY <1>8 DEF LiveIsOneChain
  <2> QED  BY <1>5, <1>7, <2>1, <2>2
<1>9. ASSUME NEW stays \in live \cap live', NEW new \in live' \ live
      PROVE  stays.number < new.number
  <2>1. Mark(k) < new.number  BY <1>6
  <2>2. CASE stays.number <= Mark(k)
    <3>1. stays.number \in Int /\ new.number \in Int /\ Mark(k) \in Int  BY <1>5, <1>6
    <3> QED  BY <2>1, <2>2, <3>1
  <2>3. CASE stays.number > Mark(k)
    <3>1. Mark(k) = b.number - 1 /\ stays.number <= b.number /\ new.number >= b.number
      <4>1. /\ stays.number \in Int /\ new.number \in Int /\ stays.number <= confirmed_through
            /\ stays.number <= b.number - Confirmations
        <5>1. stays.number \in Int /\ stays.number <= confirmed_through  BY <1>7
        <5>2. new.number \in Int  BY <1>6
        <5>3. stays.number <= Mark(k) \/ stays.number <= b.number - Confirmations  BY <1>6
        <5>4. ~(stays.number <= Mark(k))  BY <1>5, <2>3, <5>1
        <5> QED  BY <5>1, <5>2, <5>3, <5>4
      <4>2. Mark(k) \in Int /\ confirmed_through \in Int /\ b.number \in Int /\ Confirmations \in Nat
        BY <1>5
      <4>3. Mark(k) # confirmed_through  BY <2>3, <4>1, <4>2
      <4>4. Mark(k) = b.number - 1  BY <1>5, <4>3
      <4> QED  BY <2>1, <4>1, <4>2, <4>4
    <3>2. stays.number # new.number  BY <1>1, <1>9 DEF LiveIsOneChain
    <3> QED  BY <1>5, <1>6, <3>1, <3>2
  <2> QED  BY <1>5, <1>6, <2>2, <2>3
<1> QED  BY <1>2, <1>8, <1>9 DEF Feed!Amend

\* The tracker fed under its contract implements the abstract feed, whatever its
\* depth and window.
THEOREM TrackerImplementsFeed ==
  ContractSpec => ImplementsFeed
<1>1. Init => Feed!Init  BY DEF Init, Feed!Init
<1>2. ContractInv /\ [ContractNext]_vars => [Feed!Next]_live
  <2> SUFFICES ASSUME ContractInv, [ContractNext]_vars PROVE [Feed!Next]_live
    OBVIOUS
  <2>1. CASE ContractNext
    BY <2>1, ObserveAmends DEF ContractNext, Feed!Next
  <2>2. CASE UNCHANGED vars
    BY <2>2 DEF vars
  <2> QED  BY <2>1, <2>2
<1> QED  BY <1>1, <1>2, ContractInvHolds, PTL DEF ContractSpec, ImplementsFeed, Feed!Spec

=============================================================================
