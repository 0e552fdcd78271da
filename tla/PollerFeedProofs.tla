-------------------------- MODULE PollerFeedProofs --------------------------
(***************************************************************************)
(* Proofs about what Poller feeds its tracker and delivers, for every node *)
(* that keeps within named limits.                                         *)
(***************************************************************************)
EXTENDS PollerProofs, SumProofs

-----------------------------------------------------------------------------
(* Chains and their common part. *)

\* A block of a chain knows its height and its parent.
LEMMA ReadFacts ==
  ASSUME canon \in Chains, NEW n, Known(n)
  PROVE  /\ BlockRefAt(n) \in Blocks /\ BlockRefAt(n).number = n
         /\ n \in Nat /\ n <= NodeHead
         /\ n > 0 => BlockRefAt(n).parent_hash = canon[n].hash
<1>1. /\ canon \in Seq(Blocks)
      /\ \A i \in 1..(Len(canon) - 1) : canon[i + 1].parent_hash = canon[i].hash
  BY ChainsAssumption
<1>2. BlockRefAt(n) \in Blocks /\ BlockRefAt(n).number = n /\ n \in Nat /\ n <= NodeHead
  BY ReadBlock, ReadNumber
<1>3. Len(canon) \in Nat /\ n \in 0..(Len(canon) - 1)  BY <1>1 DEF Known, NodeHead
<1>4. ASSUME n > 0
      PROVE  BlockRefAt(n).parent_hash = canon[n].hash
  <2>1. n \in 1..(Len(canon) - 1)  BY <1>3, <1>4
  <2> QED  BY <1>1, <2>1 DEF BlockRefAt
<1> QED  BY <1>2, <1>4

\* Two chains that differ in k blocks of the first differ in its highest k.
LEMMA CommonPrefix ==
  ASSUME NEW c \in Chains, NEW d \in Chains, NEW k \in Nat, ReorgDepth(c, d) <= k,
         NEW i \in 1..Len(c), i <= Len(c) - k
  PROVE  i \in 1..Len(d) /\ c[i] = d[i]
<1> DEFINE Common == {j \in DOMAIN c \cap DOMAIN d : c[j] = d[j]}
<1>1. /\ c \in Seq(Blocks) /\ d \in Seq(Blocks) /\ Len(c) \in Nat /\ Len(d) \in Nat
      /\ \A j \in 1..(Len(c) - 1) : c[j + 1].parent_hash = c[j].hash
      /\ \A j \in 1..(Len(d) - 1) : d[j + 1].parent_hash = d[j].hash
  BY ChainsAssumption
<1>2. \A j : j \in Common <=> j \in 1..Len(c) /\ j \in 1..Len(d) /\ c[j] = d[j]
  BY <1>1
<1>3. \A j \in Common : j > 1 => j - 1 \in Common
  <2> TAKE j \in Common
  <2> HAVE j > 1
  <2>1. /\ j - 1 \in 1..(Len(c) - 1) /\ j - 1 \in 1..(Len(d) - 1) /\ (j - 1) + 1 = j
        /\ j - 1 \in 1..Len(c) /\ j - 1 \in 1..Len(d)
    BY <1>1, <1>2
  <2>2. c[j].parent_hash = c[j - 1].hash /\ d[j].parent_hash = d[j - 1].hash
    BY <1>1, <2>1
  <2>3. c[j - 1].hash = d[j - 1].hash  BY <1>2, <2>2
  <2>4. c[j - 1] \in Blocks /\ d[j - 1] \in Blocks  BY <1>1, <2>1
  <2> QED  BY <1>2, <2>1, <2>3, <2>4, HashAssumption
<1>4. ReorgDepth(c, d) = Len(c) - Cardinality(Common)
  BY DEF ReorgDepth
<1> SUFFICES ASSUME i \notin Common PROVE FALSE
  BY <1>2
<1> HIDE DEF Common
<1>5. \A j \in Common : j \in 1..(i - 1)
  <2> SUFFICES ASSUME NEW j \in Common, j >= i PROVE FALSE
    BY <1>1, <1>2
  <2> DEFINE S == {n \in Nat : j - n \in Common}
             N == j - i
  <2>1. j \in Nat /\ i \in Nat /\ i > 0 /\ N \in Nat  BY <1>1, <1>2
  <2>2. 0 \in S  BY <2>1
  <2>3. \A n \in 1..N : n - 1 \in S => n \in S
    <3> TAKE n \in 1..N
    <3> HAVE n - 1 \in S
    <3>1. j - (n - 1) \in Common /\ j - (n - 1) > 1 /\ (j - (n - 1)) - 1 = j - n /\ n \in Nat
      BY <2>1
    <3> QED  BY <1>3, <3>1
  <2> HIDE DEF S
  <2>4. 0..N \subseteq S  BY <2>1, <2>2, <2>3, SetInduction
  <2>5. N \in S /\ j - N = i  BY <2>1, <2>4
  <2> QED  BY <2>5 DEF S
<1>6. IsFiniteSet(1..(i - 1)) /\ Cardinality(1..(i - 1)) = i - 1
  <2> DEFINE m == i - 1
  <2>1. m \in Int /\ m >= 0  BY <1>1
  <2> HIDE DEF m
  <2>2. \A a, b \in Int : /\ IsFiniteSet(a..b)
                         /\ Cardinality(a..b) = IF a > b THEN 0 ELSE b - a + 1
    BY FS_Interval, Zenon
  <2>3. Cardinality(1..m) = m  BY <2>1, <2>2
  <2> QED  BY <2>2, <2>3 DEF m
<1>7. Common \subseteq 1..(i - 1)  BY <1>5
<1>8. Cardinality(Common) <= i - 1 /\ Cardinality(Common) \in Nat
  <2>1. IsFiniteSet(Common) /\ Cardinality(Common) <= Cardinality(1..(i - 1))
    BY <1>6, <1>7, FS_Subset
  <2> QED  BY <1>6, <2>1, FS_CardinalityType
<1> QED  BY <1>1, <1>4, <1>8

-----------------------------------------------------------------------------
(* What a tick reads while the chain moves little. *)

\* Within a tick the node only grows, or replaces its head at most by one as high.
CalmTicks == MidReorg = 0 \/ (MidReorg = 1 /\ "shrink" \notin Faults)

\* No fork is older than the window: the node's head does not fall below it, and a
\* live block that the oldest retained one was on top of is canonical.
ForksInWindow ==
  chain # <<>> =>
    /\ chain[1].number <= NodeHead
    /\ \A b \in live : b.number + 1 = chain[1].number => b \in Range(canon)

\* Below the head nothing moves in mid-tick, and with MidReorg = 0 the head does not.
LEMMA CalmMove ==
  ASSUME CalmTicks, canon \in Chains, NodeMoves, pc \notin {"poll", "down"}
  PROVE  /\ canon' \in Chains /\ NodeHead' \in Nat /\ NodeHead' >= NodeHead
         /\ \A i \in 1..Len(canon) : i <= NodeHead \/ MidReorg = 0 =>
              i \in 1..Len(canon') /\ canon'[i] = canon[i]
<1>1. /\ canon' \in Chains /\ ReorgDepth(canon, canon') <= MidReorg
      /\ "shrink" \in Faults \/ Len(canon') >= Len(canon)
  BY DEF NodeMoves
<1>2. /\ canon \in Seq(Blocks) /\ canon # <<>> /\ canon' \in Seq(Blocks) /\ canon' # <<>>
      /\ Len(canon) \in Nat /\ Len(canon') \in Nat /\ Len(canon) > 0 /\ Len(canon') > 0
  <2>1. \A c \in Chains : c \in Seq(Blocks) /\ c # <<>>  BY ChainsAssumption
  <2>2. \A s \in Seq(Blocks) : s # <<>> => Len(s) \in Nat /\ Len(s) > 0  OBVIOUS
  <2> QED  BY <1>1, <2>1, <2>2
<1>3. NodeHead = Len(canon) - 1 /\ NodeHead' = Len(canon') - 1
  BY DEF NodeHead
<1>4. MidReorg \in Nat /\ MidReorg <= 1  BY FaultsAssumption DEF CalmTicks
<1>5. \A i \in 1..Len(canon) : i <= Len(canon) - MidReorg => i \in 1..Len(canon') /\ canon[i] = canon'[i]
  BY <1>1, <1>4, CommonPrefix
<1>6. Len(canon') >= Len(canon)
  <2>1. CASE MidReorg = 0
    <3>1. Len(canon) \in 1..Len(canon) /\ Len(canon) <= Len(canon) - MidReorg  BY <1>2, <2>1
    <3>2. Len(canon) \in 1..Len(canon')  BY <1>5, <3>1
    <3> QED  BY <1>2, <3>2
  <2>2. CASE "shrink" \notin Faults  BY <1>1, <2>2
  <2> QED  BY <2>1, <2>2 DEF CalmTicks
<1>7. \A i \in 1..Len(canon) : i <= NodeHead \/ MidReorg = 0 => i <= Len(canon) - MidReorg
  BY <1>2, <1>3, <1>4
<1> QED  BY <1>1, <1>2, <1>3, <1>5, <1>6, <1>7

\* The retained blocks are consecutive.
LEMMA ChainShape ==
  ASSUME TrackerInv
  PROVE  /\ chain \in Seq(Blocks) /\ Len(chain) \in Nat
         /\ \A i \in 1..Len(chain) : chain[i] \in Blocks /\ chain[i].number \in Nat
         /\ \A i, j \in 1..Len(chain) : chain[j].number - chain[i].number = j - i
         /\ \A i \in 1..Len(chain) : \A j \in 1..Len(chain) :
              j = i + 1 => chain[i].number + 1 = chain[j].number /\ chain[i].hash = chain[j].parent_hash
         /\ chain # <<>> =>
              /\ 1 \in 1..Len(chain) /\ Len(chain) \in 1..Len(chain)
              /\ Last(chain) = chain[Len(chain)]
              /\ chain[1].number <= Last(chain).number
              /\ \A n \in chain[1].number..Last(chain).number : T!BlockAt(n) # {}
         /\ \A n : \A b \in T!BlockAt(n) : b.number = n /\ \E i \in 1..Len(chain) : b = chain[i]
<1>1. chain \in Seq(Blocks) /\ P!Numbered /\ P!ChainLinked
  BY TrackerTypes DEF TrackerInv, P!AnyInv
<1>2. Len(chain) \in Nat /\ \A i \in 1..Len(chain) : chain[i] \in Blocks
  BY <1>1
<1>3. \A i \in 1..Len(chain) : chain[i].number \in Nat
  BY <1>2, TrackerAssumptions DEF T!BlockRef
<1>4. \A i, j \in 1..Len(chain) : chain[j].number - chain[i].number = j - i
  BY <1>1 DEF P!Numbered
<1>5. ASSUME NEW i \in 1..Len(chain), NEW j \in 1..Len(chain), j = i + 1
      PROVE  chain[i].number + 1 = chain[j].number /\ chain[i].hash = chain[j].parent_hash
  <2>1. i \in 1..(Len(chain) - 1)  BY <1>2, <1>5
  <2> QED  BY <1>1, <1>5, <2>1 DEF P!ChainLinked, P!AttachesTo
<1>6. ASSUME chain # <<>>
      PROVE  /\ 1 \in 1..Len(chain) /\ Len(chain) \in 1..Len(chain)
             /\ Last(chain) = chain[Len(chain)]
             /\ chain[1].number <= Last(chain).number
             /\ \A n \in chain[1].number..Last(chain).number : T!BlockAt(n) # {}
  <2>1. 1 \in 1..Len(chain) /\ Len(chain) \in 1..Len(chain)  BY <1>1, <1>6
  <2>2. Last(chain) = chain[Len(chain)]  BY DEF Last
  <2>3. /\ chain[Len(chain)].number - chain[1].number = Len(chain) - 1
        /\ chain[1].number \in Nat /\ chain[Len(chain)].number \in Nat
    BY <1>3, <1>4, <2>1
  <2>4. ASSUME NEW n \in chain[1].number..Last(chain).number
        PROVE  T!BlockAt(n) # {}
    <3> DEFINE i == n - chain[1].number + 1
    <3>1. i \in 1..Len(chain) /\ n \in Nat  BY <1>2, <2>2, <2>3
    <3>2. chain[i].number - chain[1].number = i - 1 /\ chain[i].number \in Nat
      BY <1>3, <1>4, <2>1, <3>1
    <3>3. chain[i].number = n  BY <2>3, <3>1, <3>2
    <3> HIDE DEF i
    <3>4. chain[i] \in T!BlockAt(n)  BY <3>1, <3>3 DEF T!BlockAt
    <3> QED  BY <3>4
  <2> QED  BY <1>2, <2>1, <2>2, <2>3, <2>4
<1>7. \A n : \A b \in T!BlockAt(n) : b.number = n /\ \E i \in 1..Len(chain) : b = chain[i]
  BY DEF T!BlockAt
<1> QED  BY <1>1, <1>2, <1>3, <1>4, <1>5, <1>6, <1>7

\* The block just fed is the last of the chain.
LEMMA ObserveOnTop ==
  ASSUME TrackerInv, NEW b \in Blocks, T!Observe(b)
  PROVE  chain' # <<>> /\ Last(chain') = b
<1>1. P!Observe(b) /\ P!TypeOK  BY SameObserve DEF TrackerInv, P!AnyInv
<1>2. PICK k \in 0..Len(chain) : P!ObserveAt(k, b)  BY <1>1, TrackerAssumed, P!ObserveSplits
<1>3. PICK cut \in 0..k :
        /\ chain' \in Seq(Blocks) /\ Len(chain') = k + 1 - cut
        /\ \A i \in 1..Len(chain') : chain'[i] = P!Held(k, b)[i + cut]
  BY <1>1, <1>2, TrackerAssumed, P!ChainAfter
<1>4. chain \in Seq(Blocks) /\ Len(chain) \in Nat  BY ChainShape
<1>5. P!Held(k, b)[k + 1] = b  BY <1>4, TrackerAssumed, P!HeldFacts
<1>6. Len(chain') \in 1..Len(chain') /\ Len(chain') + cut = k + 1  BY <1>3, <1>4
<1> QED  BY <1>3, <1>5, <1>6 DEF Last

\* What is in a sequence is at one of its places.
LEMMA InRangeOf ==
  ASSUME NEW S, NEW s \in Seq(S), NEW e
  PROVE  e \in Range(s) <=> \E i \in 1..Len(s) : e = s[i]
BY DEF Range

\* A canonical block is the one at its height.
LEMMA CanonAt ==
  ASSUME canon \in Chains, NEW b \in Range(canon)
  PROVE  Known(b.number) /\ BlockRefAt(b.number) = b /\ b \in Blocks /\ b.number \in Nat
<1>1. canon \in Seq(Blocks) /\ Len(canon) \in Nat
      /\ \A i \in 1..Len(canon) : canon[i].number = i - 1
  BY ChainsAssumption
<1>2. PICK i \in 1..Len(canon) : b = canon[i]  BY <1>1, InRangeOf
<1>3. b.number = i - 1 /\ i = b.number + 1 /\ i - 1 \in 0..(Len(canon) - 1)  BY <1>1, <1>2
<1> QED  BY <1>1, <1>2, <1>3 DEF Known, NodeHead, BlockRefAt

\* And a block read from the chain is canonical.
LEMMA ReadIsCanon ==
  ASSUME canon \in Chains, NEW n, Known(n)
  PROVE  BlockRefAt(n) \in Range(canon)
<1>1. canon \in Seq(Blocks) /\ Len(canon) \in Nat  BY ChainsAssumption
<1>2. n + 1 \in 1..Len(canon)  BY <1>1 DEF Known, NodeHead
<1> QED  BY <1>1, <1>2, InRangeOf DEF BlockRefAt

-----------------------------------------------------------------------------
(* A tick feeds the tracker under its contract. *)

\* Where the walk is: the block above which the branch has been read is canonical, and
\* the oldest of the branch lies in the window or just above it.
WalkInv ==
  LET tip == Last(branch) IN
    /\ tip.number > 0 => tip.parent_hash = canon[tip.number].hash
    /\ chain # <<>> => tip.number \in chain[1].number..(Last(chain).number + 1)

\* The blocks to feed are linked, their heights those up to `next'; where the chain
\* ends they begin.
TickInv ==
  /\ MidTick => head_num <= NodeHead
  /\ pc = "fetch" => next <= head_num /\ (chain # <<>> => Last(chain).number = next - 1)
  /\ pc = "recheck" =>
       chain # <<>> /\ next = head_num /\ head_num \in chain[1].number..Last(chain).number
  /\ pc \in {"walk", "observe", "transfers"} =>
       /\ next <= head_num + 1
       /\ branch # <<>> => branch[1].number = next - 1
       /\ branch = <<>> => chain # <<>> /\ Last(chain).number = next - 1
       /\ \A i \in 1..Len(branch) : branch[i].number <= NodeHead
       /\ \A i, j \in 1..Len(branch) : j = i + 1 => T!AttachesTo(branch[j], branch[i])
  /\ pc = "walk" => WalkInv
  /\ pc \in {"observe", "transfers"} /\ branch # <<>> =>
       chain # <<>> /\ T!AttachesTo(Last(chain), Last(branch))

\* The walk back stops where the contract lets the block be fed.
LEMMA WalkEndsRight ==
  ASSUME TypeInv, TickInv, ForksInWindow, pc = "walk", Connects(Last(branch))
  PROVE  T!FedUnderContract(Last(branch))
<1> DEFINE tip == Last(branch)
<1>1. tip \in Blocks /\ tip.number \in Nat /\ canon \in Chains
  <2>1. branch \in Seq(Blocks) /\ branch # <<>> /\ canon \in Chains  BY DEF TypeInv, BranchInv
  <2>2. tip \in Blocks  BY <2>1, FrontBlocks
  <2> QED  BY <2>1, <2>2, TrackerAssumptions DEF T!BlockRef
<1>2. /\ tip.number > 0 => tip.parent_hash = canon[tip.number].hash
      /\ chain # <<>> => tip.number \in chain[1].number..(Last(chain).number + 1)
  BY DEF TickInv, WalkInv
<1>3. tip.number <= NodeHead
  <2>1. branch \in Seq(Blocks) /\ branch # <<>>  BY DEF TypeInv, BranchInv
  <2>2. Len(branch) \in 1..Len(branch) /\ tip = branch[Len(branch)]  BY <2>1 DEF Last
  <2> QED  BY <2>2 DEF TickInv
<1>4. Connects(tip)  OBVIOUS
<1> HIDE DEF tip
<1>5. CASE chain = <<>>  BY <1>5 DEF T!FedUnderContract, tip
<1>6. CASE \E b \in T!BlockAt(tip.number - 1) : b.hash = tip.parent_hash
  <2>1. PICK b \in T!BlockAt(tip.number - 1) : b.hash = tip.parent_hash  BY <1>6
  <2>2. PICK i \in 1..Len(chain) : b = chain[i] /\ b.number = tip.number - 1
    BY <2>1, ChainShape DEF TypeInv
  <2>3. T!AttachesTo(chain[i], tip)  BY <1>1, <2>1, <2>2 DEF T!AttachesTo
  <2> QED  BY <2>3 DEF T!FedUnderContract, tip
<1>7. CASE chain # <<>> /\ (tip.number = 0 \/ T!BlockAt(tip.number - 1) = {})
  <2>1. /\ chain[1].number \in Nat /\ Last(chain).number \in Nat
        /\ \A n \in chain[1].number..Last(chain).number : T!BlockAt(n) # {}
    BY <1>7, ChainShape DEF TypeInv
  <2>2. tip.number = chain[1].number
    <3>1. CASE tip.number = 0  BY <1>1, <1>2, <1>7, <2>1, <3>1
    <3>2. CASE T!BlockAt(tip.number - 1) = {}
      <4>1. ~(tip.number - 1 \in chain[1].number..Last(chain).number)  BY <2>1, <3>2
      <4> QED  BY <1>1, <1>2, <1>7, <2>1, <4>1
    <3> QED  BY <1>7, <3>1, <3>2
  <2>3. ASSUME NEW c \in live, c.number + 1 = tip.number  PROVE c.hash = tip.parent_hash
    <3>1. c \in Range(canon)  BY <1>7, <2>2, <2>3 DEF ForksInWindow
    <3>2. c \in Blocks /\ c.number \in Nat
      <4>1. live \subseteq Blocks  BY TrackerTypes DEF TypeInv, T!TypeOK
      <4> QED  BY <4>1, TrackerAssumptions DEF T!BlockRef
    <3>3. BlockRefAt(c.number) = c  BY <1>1, <3>1, CanonAt
    <3>4. canon[tip.number] = c  BY <2>3, <3>3 DEF BlockRefAt
    <3> QED  BY <1>1, <1>2, <2>3, <3>2, <3>4
  <2> QED  BY <1>7, <2>2, <2>3 DEF T!FedUnderContract, tip
<1> QED  BY <1>4, <1>5, <1>6, <1>7 DEF Connects

\* A block fed from an ongoing branch attaches to the one fed before it.
LEMMA FedRight ==
  ASSUME TypeInv, TickInv, ForksInWindow, ObserveNext
  PROVE  T!FedUnderContract(Last(branch))
<1>1. CASE pc = "walk" /\ Connects(Last(branch))
  BY <1>1, WalkEndsRight
<1>2. CASE pc = "observe"
  <2>1. branch # <<>>  BY <1>2 DEF TypeInv, BranchInv
  <2>2. chain # <<>> /\ T!AttachesTo(Last(chain), Last(branch))  BY <1>2, <2>1 DEF TickInv
  <2>3. Len(chain) \in 1..Len(chain) /\ Last(chain) = chain[Len(chain)]
    BY <2>2, ChainShape DEF TypeInv
  <2> QED  BY <2>2, <2>3 DEF T!FedUnderContract
<1> QED  BY <1>1, <1>2 DEF ObserveNext

\* Where the task goes once a block is fed, or the transfers of it are fetched.
LEMMA TickAfter ==
  ASSUME TickInv, NEW rest, branch' = rest,
         UNCHANGED <<next, head_num, canon>>,
         pc \in {"walk", "observe", "transfers"}, next \in Nat, head_num \in Nat,
         chain' # <<>>,
         rest = <<>> => Last(chain').number = next - 1,
         rest # <<>> => rest[1].number = next - 1 /\ T!AttachesTo(Last(chain'), Last(rest)),
         \A i \in 1..Len(rest) : rest[i].number <= NodeHead,
         \A i, j \in 1..Len(rest) : j = i + 1 => T!AttachesTo(rest[j], rest[i]),
         pc' = AfterObserve(rest) \/ pc' = "transfers"
  PROVE  TickInv'
<1>1. NodeHead' = NodeHead  BY DEF NodeHead
<1>2. next <= head_num + 1 /\ head_num <= NodeHead  BY DEF TickInv, MidTick
<1>3. pc' \in {"observe", "fetch", "save", "transfers"}
  BY DEF AfterObserve
<1>4. pc' = "fetch" => next <= head_num /\ rest = <<>>
  BY DEF AfterObserve
<1>5. head_num' <= NodeHead'  BY <1>1, <1>2
<1>6. pc' = "fetch" => next' <= head_num' /\ (chain' # <<>> => Last(chain').number = next' - 1)
  BY <1>4
<1>7. pc' \in {"observe", "transfers"} =>
        /\ next' <= head_num' + 1
        /\ branch' # <<>> => branch'[1].number = next' - 1
        /\ branch' = <<>> => chain' # <<>> /\ Last(chain').number = next' - 1
        /\ \A i \in 1..Len(branch') : branch'[i].number <= NodeHead'
        /\ \A i, j \in 1..Len(branch') : j = i + 1 => T!AttachesTo(branch'[j], branch'[i])
        /\ branch' # <<>> => chain' # <<>> /\ T!AttachesTo(Last(chain'), Last(branch'))
  BY <1>1, <1>2
<1> QED  BY <1>3, <1>5, <1>6, <1>7 DEF TickInv

LEMMA TickInvNext ==
  ASSUME CalmTicks, TypeInv, TickInv, ForksInWindow, [Next]_vars
  PROVE  TickInv'
<1>1. /\ canon \in Chains /\ branch \in Seq(Blocks) /\ NodeHead \in Nat
      /\ next \in Nat /\ head_num \in Nat /\ TrackerInv /\ chain \in Seq(Blocks)
      /\ pc \in {"walk", "observe"} => branch # <<>>
  BY TrackerTypes, Heights DEF TypeInv, TypeOK, BranchInv
<1>2. \A b \in Blocks : b.number \in Nat
  BY TrackerAssumptions DEF T!BlockRef
<1>3. canon' = canon => NodeHead' = NodeHead
  BY DEF NodeHead
<1>4. CASE PollHead
  <2>1. head_num' = NodeHead /\ UNCHANGED <<chain, live, canon, branch>>
    BY <1>4 DEF PollHead, tracker, outside
  <2>2. chain # <<>> =>
          Last(chain).number \in Nat /\ chain[1].number \in Nat /\ chain[1].number <= NodeHead
    BY <1>1, ChainShape DEF ForksInWindow
  <2>3. pc' \in {"fetch", "save", "recheck"}
    BY <1>4 DEF PollHead, ColdStart, HeadGrew, HeadDidNotGrow
  <2>4. pc' = "fetch" => next' <= NodeHead /\ (chain # <<>> => Last(chain).number = next' - 1)
    <3>1. CASE ColdStart  BY <3>1 DEF ColdStart
    <3>2. CASE HeadGrew  BY <1>1, <2>2, <3>2 DEF HeadGrew
    <3>3. CASE HeadDidNotGrow  BY <3>3 DEF HeadDidNotGrow
    <3> QED  BY <1>4, <3>1, <3>2, <3>3 DEF PollHead
  <2>5. pc' = "recheck" =>
          chain # <<>> /\ next' = NodeHead /\ NodeHead \in chain[1].number..Last(chain).number
    <3>1. CASE HeadDidNotGrow  BY <1>1, <2>2, <3>1 DEF HeadDidNotGrow
    <3> QED  BY <1>4, <3>1 DEF PollHead, ColdStart, HeadGrew
  <2> QED  BY <1>1, <1>3, <2>1, <2>3, <2>4, <2>5 DEF TickInv
<1>5. CASE FetchNext
  <2> DEFINE found == BlockRefAt(next)
  <2>1. /\ pc' = "walk" /\ branch' = <<found>> /\ next' = next + 1 /\ pc = "fetch" /\ Known(next)
        /\ UNCHANGED <<chain, head_num, canon>>
    BY <1>5 DEF FetchNext, tracker, outside
  <2>2. /\ found.number = next /\ next <= NodeHead
        /\ next > 0 => found.parent_hash = canon[next].hash
    BY <1>1, <2>1, ReadFacts
  <2>3. next <= head_num /\ head_num <= NodeHead /\ (chain # <<>> => Last(chain).number = next - 1)
    BY <2>1 DEF TickInv, MidTick
  <2>4. chain # <<>> => chain[1].number <= Last(chain).number /\ chain[1].number \in Nat
    BY <1>1, ChainShape
  <2> HIDE DEF found
  <2>5. branch' # <<>> /\ Len(branch') = 1 /\ branch'[1] = found /\ Last(branch') = found
    BY <2>1 DEF Last
  <2>6. WalkInv'
    <3>1. found.number > 0 => found.parent_hash = canon'[found.number].hash
      BY <1>3, <2>1, <2>2
    <3>2. chain # <<>> => found.number \in chain[1].number..(Last(chain).number + 1)
      BY <1>1, <2>2, <2>3, <2>4
    <3> QED  BY <2>1, <2>5, <3>1, <3>2 DEF WalkInv
  <2>7. /\ next' <= head_num' + 1 /\ branch'[1].number = next' - 1 /\ head_num' <= NodeHead'
        /\ \A i \in 1..Len(branch') : branch'[i].number <= NodeHead'
        /\ \A i, j \in 1..Len(branch') : j = i + 1 => FALSE
    BY <1>1, <1>3, <2>1, <2>2, <2>3, <2>5
  <2> QED  BY <2>1, <2>5, <2>6, <2>7 DEF TickInv
<1>6. CASE RecheckHead
  <2> DEFINE found == BlockRefAt(head_num)
  <2>1. /\ next' = next + 1 /\ pc = "recheck" /\ Known(head_num)
        /\ UNCHANGED <<chain, head_num, canon>>
    BY <1>6 DEF RecheckHead, tracker, outside
  <2>2. /\ next = head_num /\ head_num <= NodeHead
        /\ chain # <<>> /\ head_num \in chain[1].number..Last(chain).number
    BY <2>1 DEF TickInv, MidTick
  <2>3. CASE pc' = "save" /\ UNCHANGED branch
    BY <1>3, <2>1, <2>2, <2>3 DEF TickInv
  <2>4. CASE pc' = "walk" /\ branch' = <<found>>
    <3>1. /\ found.number = head_num
          /\ head_num > 0 => found.parent_hash = canon[head_num].hash
      BY <1>1, <2>1, ReadFacts
    <3>2. chain[1].number \in Nat /\ Last(chain).number \in Nat
      BY <1>1, <2>2, ChainShape
    <3> HIDE DEF found
    <3>3. branch' # <<>> /\ Len(branch') = 1 /\ branch'[1] = found /\ Last(branch') = found
      BY <2>4 DEF Last
    <3>4. WalkInv'
      <4>1. found.number > 0 => found.parent_hash = canon'[found.number].hash
        BY <1>3, <2>1, <3>1
      <4>2. found.number \in chain[1].number..(Last(chain).number + 1)
        BY <1>1, <2>2, <3>1, <3>2
      <4> QED  BY <2>1, <3>3, <4>1, <4>2 DEF WalkInv
    <3>5. /\ next' <= head_num' + 1 /\ branch'[1].number = next' - 1 /\ head_num' <= NodeHead'
          /\ \A i \in 1..Len(branch') : branch'[i].number <= NodeHead'
          /\ \A i, j \in 1..Len(branch') : j = i + 1 => FALSE
      BY <1>1, <1>3, <2>1, <2>2, <3>1, <3>3
    <3> QED  BY <2>4, <3>3, <3>4, <3>5 DEF TickInv
  <2> QED  BY <1>6, <2>3, <2>4 DEF RecheckHead
<1>7. CASE WalkBack
  <2> DEFINE tip   == Last(branch)
             found == BlockRefAt(tip.number - 1)
  <2>1. /\ pc = "walk" /\ pc' = pc /\ branch' = Append(branch, found) /\ branch # <<>>
        /\ Known(tip.number - 1) /\ ~Connects(tip)
        /\ UNCHANGED <<chain, next, head_num, canon>>
    BY <1>1, <1>7 DEF WalkBack, tracker, outside
  <2>2. /\ found \in Blocks /\ found.number = tip.number - 1 /\ tip.number - 1 \in Nat
        /\ tip.number - 1 <= NodeHead
        /\ tip.number - 1 > 0 => found.parent_hash = canon[tip.number - 1].hash
    BY <1>1, <2>1, ReadFacts
  <2>3. tip.number # 0 /\ T!BlockAt(tip.number - 1) # {}
    BY <2>1 DEF Connects
  <2>4. tip = branch[Len(branch)]  BY DEF Last
  <2>5. tip.number \in Nat /\ found = canon[tip.number]
    <3>1. tip \in Blocks  BY <1>1, <2>1, FrontBlocks
    <3>2. tip.number \in Nat  BY <1>2, <3>1
    <3>3. (tip.number - 1) + 1 = tip.number  BY <3>2
    <3> QED  BY <3>2, <3>3 DEF BlockRefAt
  <2> HIDE DEF tip, found
  <2>6. tip.number > 0 => tip.parent_hash = found.hash
    BY <2>1, <2>5 DEF TickInv, WalkInv, tip
  <2>7. T!AttachesTo(found, tip)  BY <2>2, <2>6, <2>3, <2>5 DEF T!AttachesTo
  <2>8. /\ branch' # <<>> /\ branch'[1] = branch[1] /\ Len(branch') = Len(branch) + 1
        /\ Len(branch) \in Nat /\ Len(branch) > 0
        /\ \A i \in 1..Len(branch) : branch'[i] = branch[i]
        /\ branch'[Len(branch) + 1] = found /\ Last(branch') = found
    BY <1>1, <2>1, <2>2 DEF Last
  <2>9. WalkInv'
    <3>1. found.number > 0 => found.parent_hash = canon'[found.number].hash
      BY <1>3, <2>1, <2>2
    <3>2. chain # <<>> => found.number \in chain[1].number..(Last(chain).number + 1)
      <4> SUFFICES ASSUME chain # <<>>
                   PROVE  found.number \in chain[1].number..(Last(chain).number + 1)
        OBVIOUS
      <4>0. PICK b : b \in T!BlockAt(tip.number - 1)  BY <2>3
      <4>1. PICK i \in 1..Len(chain) : chain[i].number = tip.number - 1
        BY <1>1, <4>0, ChainShape
      <4>2. /\ chain[i].number - chain[1].number = i - 1
            /\ Last(chain).number - chain[i].number = Len(chain) - i
            /\ chain[1].number \in Nat /\ Last(chain).number \in Nat /\ Len(chain) \in Nat
        BY <1>1, <4>1, ChainShape
      <4> QED  BY <2>2, <4>1, <4>2
    <3> QED  BY <2>1, <2>8, <3>1, <3>2 DEF WalkInv
  <2>10. \A i \in 1..Len(branch') : branch'[i].number <= NodeHead
    <3> TAKE i \in 1..Len(branch')
    <3>1. CASE i = Len(branch) + 1  BY <2>2, <2>8, <3>1
    <3>2. CASE i \in 1..Len(branch)  BY <2>1, <2>8, <3>2 DEF TickInv
    <3> QED  BY <2>8, <3>1, <3>2
  <2>11. \A i, j \in 1..Len(branch') : j = i + 1 => T!AttachesTo(branch'[j], branch'[i])
    <3> TAKE i, j \in 1..Len(branch')
    <3> HAVE j = i + 1
    <3>1. CASE j = Len(branch) + 1
      <4>1. i = Len(branch) /\ i \in 1..Len(branch)  BY <2>8, <3>1
      <4> QED  BY <2>4, <2>7, <2>8, <3>1, <4>1
    <3>2. CASE j \in 1..Len(branch)
      <4>1. i \in 1..Len(branch)  BY <2>8, <3>2
      <4> QED  BY <2>1, <2>8, <3>2, <4>1 DEF TickInv
    <3> QED  BY <2>8, <3>1, <3>2
  <2>12. /\ next' <= head_num' + 1 /\ branch'[1].number = next' - 1 /\ head_num' <= NodeHead'
    BY <1>3, <2>1, <2>8 DEF TickInv, MidTick
  <2> QED  BY <1>3, <2>1, <2>8, <2>9, <2>10, <2>11, <2>12 DEF TickInv
<1>8. CASE ObserveNext
  <2> DEFINE fed  == Last(branch)
             rest == Front(branch)
  <2>1. /\ T!Observe(fed) /\ branch' = rest /\ branch # <<>>
        /\ pc \in {"walk", "observe", "transfers"}
        /\ pc' = AfterObserve(rest) \/ pc' = "transfers"
        /\ UNCHANGED <<head_num, next, canon>>
    BY <1>1, <1>8 DEF ObserveNext, outside
  <2>2. fed \in Blocks /\ rest \in Seq(Blocks)  BY <1>1, <2>1, FrontBlocks
  <2>3. /\ Len(rest) = Len(branch) - 1 /\ Len(branch) \in Nat /\ Len(branch) > 0
        /\ \A i \in 1..Len(rest) : rest[i] = branch[i]
        /\ fed = branch[Len(branch)] /\ (rest = <<>> => fed = branch[1])
        /\ (rest # <<>> => rest[1] = branch[1])
        /\ Last(rest) = rest[Len(rest)]
    BY <1>1, <2>1, FrontFacts DEF Last
  <2> HIDE DEF fed, rest
  <2>4. chain' # <<>> /\ Last(chain') = fed
    BY <1>1, <2>1, <2>2, ObserveOnTop
  <2>5. /\ branch[1].number = next - 1
        /\ \A i \in 1..Len(branch) : branch[i].number <= NodeHead
        /\ \A i, j \in 1..Len(branch) : j = i + 1 => T!AttachesTo(branch[j], branch[i])
    BY <2>1 DEF TickInv
  <2>6. rest # <<>> => T!AttachesTo(fed, Last(rest))
    <3> HAVE rest # <<>>
    <3>1. Len(rest) \in 1..Len(rest) /\ Len(branch) = Len(rest) + 1 /\ Len(rest) \in 1..Len(branch)
          /\ Len(branch) \in 1..Len(branch)
      BY <2>2, <2>3
    <3> QED  BY <2>3, <2>5, <3>1
  <2>7. \A i \in 1..Len(rest) : rest[i].number <= NodeHead
    <3> TAKE i \in 1..Len(rest)
    <3>1. i \in 1..Len(branch)  BY <2>3
    <3> QED  BY <2>3, <2>5, <3>1
  <2>8. \A i, j \in 1..Len(rest) : j = i + 1 => T!AttachesTo(rest[j], rest[i])
    <3> TAKE i, j \in 1..Len(rest)
    <3>1. i \in 1..Len(branch) /\ j \in 1..Len(branch)  BY <2>3
    <3> QED  BY <2>3, <2>5, <3>1
  <2>9. rest = <<>> => Last(chain').number = next - 1  BY <2>3, <2>4, <2>5
  <2>10. rest # <<>> => rest[1].number = next - 1 /\ T!AttachesTo(Last(chain'), Last(rest))
    BY <2>3, <2>4, <2>5, <2>6
  <2> QED  BY <1>1, <2>1, <2>4, <2>7, <2>8, <2>9, <2>10, TickAfter
<1>9. CASE FetchTransfers
  <2>1. /\ pc = "transfers" /\ pc' = AfterObserve(branch)
        /\ UNCHANGED <<chain, branch, head_num, next, canon>>
    BY <1>9 DEF FetchTransfers, tracker, tick, outside
  <2>2. /\ branch # <<>> => branch[1].number = next - 1
        /\ branch = <<>> => chain # <<>> /\ Last(chain).number = next - 1
        /\ \A i \in 1..Len(branch) : branch[i].number <= NodeHead
        /\ \A i, j \in 1..Len(branch) : j = i + 1 => T!AttachesTo(branch[j], branch[i])
        /\ branch # <<>> => chain # <<>> /\ T!AttachesTo(Last(chain), Last(branch))
    BY <2>1 DEF TickInv
  <2> QED  BY <1>1, <2>1, <2>2, TickAfter
<1>10. CASE Save \/ Send \/ Sleep \/ SendRefused \/ Fail \/ Crash \/ Resume
  <2>1. pc' \in {"send", "poll", "down"}
    BY <1>10 DEF Save, Send, Sleep, SendRefused, Fail, Crash, Resume, Stop
  <2> QED  BY <2>1 DEF TickInv, MidTick
<1>11. CASE Receive \/ Hangup \/ UNCHANGED vars
  <2>1. UNCHANGED <<chain, branch, canon, pc, next, head_num>>
    BY <1>11 DEF Receive, Hangup, vars, tracker, tick, outside
  <2> QED  BY <1>3, <2>1 DEF TickInv, MidTick, WalkInv
<1>12. CASE NodeMoves
  <2>1. UNCHANGED <<chain, branch, pc, next, head_num>>
    BY <1>12 DEF NodeMoves, tracker, tick
  <2>2. CASE pc \in {"poll", "down", "send"}
    BY <2>1, <2>2 DEF TickInv, MidTick
  <2>3. CASE pc \notin {"poll", "down", "send"}
    <3>1. /\ NodeHead' \in Nat /\ NodeHead' >= NodeHead
          /\ \A i \in 1..NodeHead : canon'[i] = canon[i]
      <4>1. 1..NodeHead \subseteq 1..Len(canon)  BY <1>1 DEF NodeHead
      <4> QED  BY <1>1, <1>12, <2>3, <4>1, CalmMove
    <3>2. MidTick' => head_num' <= NodeHead'
      BY <1>1, <2>1, <3>1 DEF TickInv, MidTick
    <3>3. pc \in {"walk", "observe", "transfers"} =>
            \A i \in 1..Len(branch') : branch'[i].number <= NodeHead'
      <4> SUFFICES ASSUME pc \in {"walk", "observe", "transfers"}, NEW i \in 1..Len(branch')
                   PROVE  branch'[i].number <= NodeHead'
        OBVIOUS
      <4>1. branch[i].number <= NodeHead /\ branch[i] \in Blocks  BY <1>1, <2>1 DEF TickInv
      <4> QED  BY <1>1, <1>2, <2>1, <3>1, <4>1
    <3>4. pc = "walk" => WalkInv'
      <4> SUFFICES ASSUME pc = "walk" PROVE WalkInv'
        OBVIOUS
      <4> DEFINE tip == Last(branch)
      <4>1. Len(branch) \in 1..Len(branch) /\ tip = branch[Len(branch)] /\ tip \in Blocks
        BY <1>1, FrontBlocks DEF Last
      <4>2. tip.number \in Nat /\ tip.number <= NodeHead  BY <1>2, <4>1 DEF TickInv
      <4>3. WalkInv  BY DEF TickInv
      <4> HIDE DEF tip
      <4>4. tip.number > 0 => canon'[tip.number] = canon[tip.number]
        BY <1>1, <3>1, <4>2
      <4> QED  BY <2>1, <4>3, <4>4 DEF WalkInv, tip
    <3> QED  BY <2>1, <3>2, <3>3, <3>4 DEF TickInv
  <2> QED  BY <2>2, <2>3
<1> QED
  BY <1>4, <1>5, <1>6, <1>7, <1>8, <1>9, <1>10, <1>11, <1>12 DEF Next, Run

\* A step feeds the tracker one block, under the contract, or stops, or leaves the
\* tracker alone.
LEMMA StepUnderContract ==
  ASSUME TypeInv, TickInv, ForksInWindow, [Next]_vars
  PROVE  [UnderContract]_tracker
<1>1. CASE ObserveNext
  <2>1. Last(branch) \in Blocks
    <3>1. branch \in Seq(Blocks) /\ branch # <<>>
      BY <1>1 DEF ObserveNext, TypeInv, BranchInv
    <3> QED  BY <3>1, FrontBlocks
  <2>2. T!FedUnderContract(Last(branch))  BY <1>1, FedRight
  <2>3. T!Observe(Last(branch))  BY <1>1 DEF ObserveNext
  <2> QED  BY <2>1, <2>2, <2>3 DEF UnderContract
<1>2. CASE SendRefused \/ Fail \/ Crash
  BY <1>2 DEF SendRefused, Fail, Crash, Stop, UnderContract
<1>3. CASE PollHead \/ FetchNext \/ RecheckHead \/ WalkBack \/ FetchTransfers \/ Save \/ Send \/ Sleep
  BY <1>3 DEF PollHead, FetchNext, RecheckHead, WalkBack, FetchTransfers, Save, Send, Sleep
<1>4. CASE Resume \/ Receive \/ Hangup \/ NodeMoves \/ UNCHANGED vars
  BY <1>4 DEF Resume, Receive, Hangup, NodeMoves, vars
<1> QED
  BY <1>1, <1>2, <1>3, <1>4 DEF Next, Run

LEMMA TickInvInit ==
  Init => TickInv
BY DEF Init, TickInv, MidTick

\* Whatever fails and however deep the reorgs between two ticks, the poller feeds the
\* tracker under its contract: each block extends what is retained or takes the place
\* of the oldest block retained, as long as no fork is older than the window and a
\* tick sees no more than its head replaced.
THEOREM AlwaysUnderContract ==
  CalmTicks => (Spec /\ []ForksInWindow => FeedsUnderContract)
<1> SUFFICES ASSUME CalmTicks PROVE Spec /\ []ForksInWindow => FeedsUnderContract
  OBVIOUS
<1>1. Init => TypeInv /\ TickInv  BY TypesInit, TickInvInit
<1>2. TypeInv /\ TickInv /\ ForksInWindow /\ [Next]_vars => TypeInv' /\ TickInv'
  BY TypesNext, TickInvNext
<1>3. TypeInv /\ TickInv /\ ForksInWindow /\ [Next]_vars => [UnderContract]_tracker
  BY StepUnderContract
<1>4. [][UnderContract]_tracker => FeedsUnderContract
  BY PTL DEF FeedsUnderContract, UnderContract
<1> QED  BY <1>1, <1>2, <1>3, <1>4, PTL DEF Spec

\* So what the tracker inside the poller reports is one chain up to the watermark.
THEOREM LiveStaysOneChain ==
  CalmTicks => (Spec /\ []ForksInWindow => [](T!LiveIsOneChain /\ T!LiveMatchesWatermark))
<1> SUFFICES ASSUME CalmTicks
             PROVE  Spec /\ []ForksInWindow => [](T!LiveIsOneChain /\ T!LiveMatchesWatermark)
  OBVIOUS
<1>1. Spec /\ []ForksInWindow => FeedsUnderContract  BY AlwaysUnderContract
<1> QED  BY <1>1, ContractSuffices, PTL

-----------------------------------------------------------------------------
(* The blocks that are confirmed are canonical. *)

\* What the chain c still shows of a block read from the node in this tick: at least
\* its parent; the block itself when nothing is replaced in mid-tick.
GroundedIn(c, b) ==
  /\ b.number < Len(c)
  /\ b.number > 0 => b.parent_hash = c[b.number].hash
  /\ MidReorg = 0 => b \in Range(c)

\* The blocks to feed are grounded, and one whose transfers are to be fetched is
\* canonical, and lies too deep for the node to replace it in this tick.
GroundInv ==
  /\ pc \in {"walk", "observe", "transfers"} => \A i \in 1..Len(branch) : GroundedIn(canon, branch[i])
  /\ pc = "transfers" =>
       /\ update.confirmed # {}
       /\ \A c \in update.confirmed : c \in Range(canon) /\ c.number + MidReorg < Len(canon)

LEMMA CanonGrounded ==
  ASSUME canon \in Chains, NEW b \in Range(canon)
  PROVE  GroundedIn(canon, b)
<1>1. Known(b.number) /\ BlockRefAt(b.number) = b /\ b.number \in Nat  BY CanonAt
<1>2. b.number > 0 => b.parent_hash = canon[b.number].hash  BY <1>1, ReadFacts
<1>3. b.number < Len(canon)
  <2>1. Len(canon) \in Nat  BY ChainsAssumption
  <2> QED  BY <1>1, <2>1 DEF Known, NodeHead
<1> QED  BY <1>2, <1>3 DEF GroundedIn

\* The parent of a grounded block is canonical.
LEMMA ParentIsCanon ==
  ASSUME canon \in Chains, NEW b \in Blocks, GroundedIn(canon, b), b.number > 0,
         NEW a \in Blocks, a.hash = b.parent_hash
  PROVE  a \in Range(canon)
<1>1. canon \in Seq(Blocks) /\ Len(canon) \in Nat  BY ChainsAssumption
<1>2. b.number \in Nat  BY TrackerAssumptions DEF T!BlockRef
<1>3. b.number \in 1..Len(canon)  BY <1>1, <1>2 DEF GroundedIn
<1>4. canon[b.number] \in Blocks /\ canon[b.number].hash = a.hash  BY <1>1, <1>3 DEF GroundedIn
<1>5. a = canon[b.number]  BY <1>4, HashAssumption
<1> QED  BY <1>1, <1>3, <1>5, InRangeOf

\* Below a canonical block, what is linked to it is canonical.
LEMMA CanonBelow ==
  ASSUME canon \in Chains, NEW s \in Seq(Blocks), NEW m \in 1..Len(s), s[m] \in Range(canon),
         \A i, j \in 1..Len(s) : j = i + 1 => s[i].hash = s[j].parent_hash /\ s[j].number > 0
  PROVE  \A i \in 1..m : s[i] \in Range(canon)
<1> DEFINE S == {n \in Nat : n < m => s[m - n] \in Range(canon)}
<1>1. m \in Nat /\ m > 0 /\ m - 1 \in Nat /\ Len(s) \in Nat /\ m <= Len(s)  OBVIOUS
<1>2. 0 \in S  BY <1>1
<1>3. \A n \in 1..(m - 1) : n - 1 \in S => n \in S
  <2> TAKE n \in 1..(m - 1)
  <2> HAVE n - 1 \in S
  <2>1. /\ m - n \in 1..Len(s) /\ m - (n - 1) \in 1..Len(s) /\ m - (n - 1) = (m - n) + 1
        /\ n - 1 < m /\ n \in Nat
    BY <1>1
  <2>2. s[m - (n - 1)] \in Range(canon)  BY <2>1
  <2>3. GroundedIn(canon, s[m - (n - 1)])  BY <2>2, CanonGrounded
  <2>4. s[m - n] \in Blocks /\ s[m - (n - 1)] \in Blocks  BY <2>1, ElementOfSeq
  <2>5. s[m - n].hash = s[m - (n - 1)].parent_hash /\ s[m - (n - 1)].number > 0  BY <2>1
  <2>6. s[m - n] \in Range(canon)  BY <2>3, <2>4, <2>5, ParentIsCanon
  <2> QED  BY <2>1, <2>6
<1> HIDE DEF S
<1>4. 0..(m - 1) \subseteq S  BY <1>1, <1>2, <1>3, SetInduction
<1>5. ASSUME NEW i \in 1..m  PROVE s[i] \in Range(canon)
  <2>1. m - i \in 0..(m - 1) /\ m - (m - i) = i /\ m - i < m  BY <1>1
  <2>2. m - i \in S  BY <1>4, <2>1
  <2> QED  BY <2>1, <2>2 DEF S
<1> QED  BY <1>5

\* A block that has just been confirmed is canonical, N below the block fed.
LEMMA ConfirmedIsCanon ==
  ASSUME MidReorg <= Confirmations, canon \in Chains, TrackerInv,
         NEW b \in Blocks, GroundedIn(canon, b), T!Observe(b), NEW c \in update'.confirmed
  PROVE  c \in Range(canon) /\ c.number + MidReorg < Len(canon)
<1>1. P!Observe(b) /\ P!TypeOK /\ P!Numbered /\ P!ChainLinked /\ chain \in Seq(Blocks)
  BY SameObserve, ChainShape DEF TrackerInv, P!AnyInv
<1>2. PICK k \in 0..Len(chain) : P!ObserveAt(k, b)  BY <1>1, TrackerAssumed, P!ObserveSplits
<1> DEFINE held == P!Held(k, b)
<1>3. /\ held \in Seq(Blocks) /\ Len(held) = k + 1 /\ held[k + 1] = b
      /\ \A i \in 1..k : P!AttachesTo(held[i], held[i + 1])
      /\ \A i \in 1..(k + 1) : held[i] \in Blocks /\ held[i].number \in Nat
  BY <1>1, <1>2, TrackerAssumed, P!HeldFacts, P!HeldLinked DEF P!ObserveAt
<1>4. PICK j \in 1..Len(held) :
        c = held[j] /\ held[j].number \in (P!Mark(k) + 1)..(b.number - Confirmations)
  <2>1. c \in P!RipeAt(k, b)  BY <1>2 DEF P!ObserveAt
  <2> QED  BY <2>1 DEF P!RipeAt, P!Ripe
<1>5. /\ Confirmations \in Nat /\ MidReorg \in Nat /\ Len(canon) \in Nat /\ b.number \in Nat
      /\ k \in Nat
  BY <1>3, TrackerAssumptions, FaultsAssumption, ChainsAssumption DEF T!BlockRef
<1> HIDE DEF held
<1>6. P!Mark(k) \in Int  BY <1>1, TrackerAssumed, P!MarkFacts
<1>7. c.number \in Nat /\ c.number <= b.number - Confirmations
  BY <1>3, <1>4, <1>5, <1>6
<1>8. c.number + MidReorg < Len(canon)
  BY <1>5, <1>7 DEF GroundedIn
<1>9. CASE j = k + 1
  <2>1. c = b  BY <1>3, <1>4, <1>9
  <2>2. MidReorg = 0  BY <1>5, <1>7, <2>1
  <2> QED  BY <1>8, <2>1, <2>2 DEF GroundedIn
<1>10. CASE j \in 1..k
  <2>1. k \in 1..k /\ k \in 1..Len(held) /\ k + 1 \in 1..Len(held)  BY <1>3, <1>5, <1>10
  <2>2. held[k].number + 1 = b.number /\ held[k].hash = b.parent_hash
    BY <1>3, <2>1 DEF P!AttachesTo
  <2>3. held[k] \in Blocks /\ held[k].number \in Nat  BY <1>3, <2>1
  <2>4. held[k] \in Range(canon)
    <3>1. b.number > 0  BY <1>5, <2>2, <2>3
    <3> QED  BY <2>2, <2>3, <3>1, ParentIsCanon
  <2>5. \A i, l \in 1..Len(held) : l = i + 1 => held[i].hash = held[l].parent_hash /\ held[l].number > 0
    <3> TAKE i, l \in 1..Len(held)
    <3> HAVE l = i + 1
    <3>1. i \in 1..k /\ i \in 1..(k + 1) /\ l \in 1..(k + 1)  BY <1>3, <1>5
    <3>2. held[i].number + 1 = held[l].number /\ held[i].hash = held[l].parent_hash
      BY <1>3, <3>1 DEF P!AttachesTo
    <3> QED  BY <1>3, <3>1, <3>2
  <2>6. \A i \in 1..k : held[i] \in Range(canon)
    BY <1>3, <2>1, <2>4, <2>5, CanonBelow
  <2> QED  BY <1>4, <1>8, <1>10, <2>6
<1> QED  BY <1>3, <1>4, <1>5, <1>9, <1>10

\* Nothing of that changes when the node moves in mid-tick.
LEMMA GroundMoves ==
  ASSUME CalmTicks, canon \in Chains, NodeMoves, pc \notin {"poll", "down"}
  PROVE  /\ \A b \in Blocks : GroundedIn(canon, b) => GroundedIn(canon', b)
         /\ \A c \in Range(canon) : c.number + MidReorg < Len(canon) =>
              c \in Range(canon') /\ c.number + MidReorg < Len(canon')
<1>1. /\ canon' \in Chains /\ NodeHead' >= NodeHead
      /\ \A i \in 1..Len(canon) : i <= NodeHead \/ MidReorg = 0 => i \in 1..Len(canon') /\ canon'[i] = canon[i]
  BY CalmMove
<1>2. /\ canon \in Seq(Blocks) /\ canon' \in Seq(Blocks) /\ Len(canon) \in Nat /\ Len(canon') \in Nat
      /\ NodeHead = Len(canon) - 1 /\ NodeHead' = Len(canon') - 1 /\ MidReorg \in Nat
      /\ MidReorg = 0 \/ MidReorg = 1
  BY <1>1, ChainsAssumption, FaultsAssumption DEF NodeHead, CalmTicks
<1>3. ASSUME NEW c \in Range(canon), c.number + MidReorg < Len(canon)
      PROVE  c \in Range(canon') /\ c.number + MidReorg < Len(canon')
  <2>1. c.number \in Nat /\ c = canon[c.number + 1]  BY CanonAt DEF BlockRefAt
  <2>2. c.number + 1 \in 1..Len(canon) /\ (c.number + 1 <= NodeHead \/ MidReorg = 0)
    BY <1>2, <1>3, <2>1
  <2>3. c.number + 1 \in 1..Len(canon') /\ canon'[c.number + 1] = c  BY <1>1, <2>1, <2>2
  <2>4. c \in Range(canon')  BY <1>2, <2>3, InRangeOf
  <2> QED  BY <1>1, <1>2, <1>3, <2>1, <2>4
<1>4. ASSUME NEW b \in Blocks, GroundedIn(canon, b)
      PROVE  GroundedIn(canon', b)
  <2>1. b.number \in Nat  BY TrackerAssumptions DEF T!BlockRef
  <2>2. b.number < Len(canon')  BY <1>1, <1>2, <1>4, <2>1 DEF GroundedIn
  <2>3. b.number > 0 => b.parent_hash = canon'[b.number].hash
    <3> HAVE b.number > 0
    <3>1. b.number \in 1..Len(canon) /\ b.number <= NodeHead  BY <1>2, <1>4, <2>1 DEF GroundedIn
    <3> QED  BY <1>1, <1>4, <3>1 DEF GroundedIn
  <2>4. MidReorg = 0 => b \in Range(canon')
    <3> HAVE MidReorg = 0
    <3>1. b \in Range(canon) /\ b.number + MidReorg < Len(canon)  BY <1>4, <2>1 DEF GroundedIn
    <3> QED  BY <1>3, <3>1
  <2> QED  BY <2>2, <2>3, <2>4 DEF GroundedIn
<1> QED  BY <1>3, <1>4

LEMMA GroundInvNext ==
  ASSUME CalmTicks, MidReorg <= Confirmations, TypeInv, GroundInv, [Next]_vars
  PROVE  GroundInv'
<1>1. /\ canon \in Chains /\ branch \in Seq(Blocks) /\ TrackerInv
      /\ pc \in {"walk", "observe"} => branch # <<>>
  BY DEF TypeInv, BranchInv
<1>2. ASSUME NEW n, Known(n)  PROVE GroundedIn(canon, BlockRefAt(n))
  BY <1>1, <1>2, ReadIsCanon, CanonGrounded
<1>3. CASE PollHead
  <2>1. pc' \in {"fetch", "save", "recheck"}
    BY <1>3 DEF PollHead, ColdStart, HeadGrew, HeadDidNotGrow
  <2> QED  BY <2>1 DEF GroundInv
<1>4. CASE FetchNext
  <2>1. pc' = "walk" /\ branch' = <<BlockRefAt(next)>> /\ canon' = canon /\ Known(next)
    BY <1>4 DEF FetchNext, outside
  <2>2. GroundedIn(canon, BlockRefAt(next))  BY <1>2, <2>1
  <2>3. Len(branch') = 1 /\ branch'[1] = BlockRefAt(next)  BY <2>1
  <2> QED  BY <2>1, <2>2, <2>3 DEF GroundInv
<1>5. CASE RecheckHead
  <2>1. canon' = canon /\ Known(head_num)
    BY <1>5 DEF RecheckHead, outside
  <2>2. GroundedIn(canon, BlockRefAt(head_num))  BY <1>2, <2>1
  <2>3. CASE pc' = "save"  BY <2>3 DEF GroundInv
  <2>4. CASE pc' = "walk" /\ branch' = <<BlockRefAt(head_num)>>
    <3>1. Len(branch') = 1 /\ branch'[1] = BlockRefAt(head_num)  BY <2>4
    <3> QED  BY <2>1, <2>2, <2>4, <3>1 DEF GroundInv
  <2> QED  BY <1>5, <2>3, <2>4 DEF RecheckHead
<1>6. CASE WalkBack
  <2> DEFINE found == BlockRefAt(Last(branch).number - 1)
  <2>1. /\ pc = "walk" /\ pc' = "walk" /\ branch' = Append(branch, found) /\ canon' = canon
        /\ Known(Last(branch).number - 1)
    BY <1>6 DEF WalkBack, outside
  <2>2. GroundedIn(canon, found) /\ found \in Blocks  BY <1>1, <1>2, <2>1, ReadBlock
  <2> HIDE DEF found
  <2>3. /\ Len(branch') = Len(branch) + 1 /\ Len(branch) \in Nat
        /\ \A i \in 1..Len(branch) : branch'[i] = branch[i]
        /\ branch'[Len(branch) + 1] = found
    BY <1>1, <2>1, <2>2
  <2>4. \A i \in 1..Len(branch') : GroundedIn(canon, branch'[i])
    <3> TAKE i \in 1..Len(branch')
    <3>1. CASE i = Len(branch) + 1  BY <2>2, <2>3, <3>1
    <3>2. CASE i \in 1..Len(branch)  BY <2>1, <2>3, <3>2 DEF GroundInv
    <3> QED  BY <2>3, <3>1, <3>2
  <2> QED  BY <2>1, <2>4 DEF GroundInv
<1>7. CASE ObserveNext
  <2> DEFINE fed  == Last(branch)
             rest == Front(branch)
  <2>1. /\ T!Observe(fed) /\ branch' = rest /\ branch # <<>> /\ canon' = canon
        /\ pc \in {"walk", "observe", "transfers"}
        /\ update'.confirmed = {} => pc' = AfterObserve(rest)
    BY <1>1, <1>7 DEF ObserveNext, outside
  <2>2. /\ Len(rest) = Len(branch) - 1 /\ Len(branch) \in Nat /\ Len(branch) > 0
        /\ \A i \in 1..Len(rest) : rest[i] = branch[i]
        /\ fed = branch[Len(branch)] /\ fed \in Blocks
    BY <1>1, <2>1, FrontFacts, FrontBlocks
  <2> HIDE DEF fed, rest
  <2>3. \A i \in 1..Len(branch) : GroundedIn(canon, branch[i])  BY <2>1 DEF GroundInv
  <2>4. GroundedIn(canon, fed)
    <3>1. Len(branch) \in 1..Len(branch)  BY <2>2
    <3> QED  BY <2>2, <2>3, <3>1
  <2>5. \A i \in 1..Len(rest) : GroundedIn(canon, rest[i])
    <3> TAKE i \in 1..Len(rest)
    <3>1. i \in 1..Len(branch)  BY <2>2
    <3> QED  BY <2>2, <2>3, <3>1
  <2>6. \A c \in update'.confirmed : c \in Range(canon) /\ c.number + MidReorg < Len(canon)
    BY <1>1, <2>1, <2>2, <2>4, ConfirmedIsCanon
  <2>7. pc' = "transfers" => update'.confirmed # {}
    BY <2>1 DEF AfterObserve
  <2> QED  BY <2>1, <2>5, <2>6, <2>7 DEF GroundInv
<1>8. CASE FetchTransfers
  <2>1. pc = "transfers" /\ pc' = AfterObserve(branch) /\ UNCHANGED <<branch, canon>>
    BY <1>8 DEF FetchTransfers, tick, outside
  <2>2. pc' # "transfers"  BY <2>1 DEF AfterObserve
  <2> QED  BY <2>1, <2>2 DEF GroundInv
<1>9. CASE Save \/ Send \/ Sleep \/ SendRefused \/ Fail \/ Crash \/ Resume
  <2>1. pc' \in {"send", "poll", "down"}
    BY <1>9 DEF Save, Send, Sleep, SendRefused, Fail, Crash, Resume, Stop
  <2> QED  BY <2>1 DEF GroundInv
<1>10. CASE Receive \/ Hangup \/ UNCHANGED vars
  <2>1. UNCHANGED <<branch, canon, pc, update>>
    BY <1>10 DEF Receive, Hangup, vars, tracker, tick, outside
  <2> QED  BY <2>1 DEF GroundInv
<1>11. CASE NodeMoves
  <2>1. UNCHANGED <<branch, pc, update>>
    BY <1>11 DEF NodeMoves, tracker, tick
  <2>2. CASE pc \in {"poll", "down"}
    BY <2>1, <2>2 DEF GroundInv
  <2>3. CASE pc \notin {"poll", "down"}
    <3>1. /\ \A b \in Blocks : GroundedIn(canon, b) => GroundedIn(canon', b)
          /\ \A c \in Range(canon) : c.number + MidReorg < Len(canon) =>
               c \in Range(canon') /\ c.number + MidReorg < Len(canon')
      BY <1>1, <1>11, <2>3, GroundMoves
    <3>2. \A i \in 1..Len(branch) : branch[i] \in Blocks  BY <1>1
    <3> QED  BY <2>1, <3>1, <3>2 DEF GroundInv
  <2> QED  BY <2>2, <2>3
<1> QED
  BY <1>3, <1>4, <1>5, <1>6, <1>7, <1>8, <1>9, <1>10, <1>11 DEF Next, Run

\* The transfers fetched are those of the one block confirmed.
LEMMA FetchedIsConfirmed ==
  ASSUME TypeInv, GroundInv, FetchTransfers
  PROVE  \E c \in update.confirmed :
           update.confirmed = {c} /\ msgs' = msgs \o <<Confirmed(c)>>
<1>1. PICK first \in update.confirmed, last \in update.confirmed :
        LET found == Transfers(first.number, last.number) IN
        msgs' = msgs \o [i \in 1..Len(found) |-> Confirmed(found[i])]
  BY DEF FetchTransfers
<1>2. update.confirmed = {first} /\ last = first
  BY <1>1 DEF TypeInv, TrackerInv, P!ConfirmsOneAtATime
<1> DEFINE n     == first.number
           found == Transfers(n, n)
<1>3. first \in Range(canon) /\ canon \in Chains
  BY <1>1 DEF GroundInv, FetchTransfers, TypeInv, BranchInv
<1>4. n \in 0..NodeHead /\ canon[n + 1] = first /\ n \in Nat /\ canon \in Seq(Blocks)
  BY <1>3, CanonAt, ChainsAssumption DEF Known, BlockRefAt
<1>5. found = SubSeq(canon, n + 1, n + 1)
  BY <1>4 DEF Transfers
<1>6. Len(found) = 1 /\ found[1] = first
  <2> DEFINE m == n + 1
  <2>1. m \in 1..Len(canon) /\ canon[m] = first  BY <1>4 DEF NodeHead
  <2> HIDE DEF m
  <2>2. Len(SubSeq(canon, m, m)) = 1 /\ SubSeq(canon, m, m)[1] = canon[m]  BY <1>4, <2>1
  <2> QED  BY <1>5, <2>1, <2>2 DEF m
<1> HIDE DEF found
<1>7. [i \in 1..Len(found) |-> Confirmed(found[i])] = <<Confirmed(first)>>
  BY <1>6
<1> QED  BY <1>1, <1>2, <1>7 DEF found

\* The transfers fetched by number, after the headers, are those of the very block
\* that was confirmed: with N at least the one block a node may replace in mid-tick, a
\* confirmed block is out of its reach, however deep the reorgs between two ticks.
THEOREM TransfersMatch ==
  CalmTicks /\ MidReorg <= Confirmations => (Spec => TransfersAreOfConfirmed)
<1> SUFFICES ASSUME CalmTicks, MidReorg <= Confirmations
             PROVE  Spec => TransfersAreOfConfirmed
  OBVIOUS
<1>1. Init => TypeInv /\ GroundInv
  BY TypesInit DEF Init, GroundInv
<1>2. TypeInv /\ GroundInv /\ [Next]_vars => TypeInv' /\ GroundInv'
  BY TypesNext, GroundInvNext
<1>3. TypeInv /\ GroundInv /\ [Next]_vars =>
        [pc = "transfers" /\ pc' \notin {"transfers", "down"}
           => msgs' \in {msgs \o <<Confirmed(b)>> : b \in update.confirmed}]_<<pc, msgs>>
  <2> SUFFICES ASSUME TypeInv, GroundInv, [Next]_vars, pc = "transfers", pc' \notin {"transfers", "down"}
               PROVE  msgs' \in {msgs \o <<Confirmed(b)>> : b \in update.confirmed}
    OBVIOUS
  <2>1. FetchTransfers
    BY DEF Next, Run, PollHead, FetchNext, RecheckHead, WalkBack, ObserveNext, Save, Send, Sleep,
       SendRefused, Resume, Receive, Fail, Crash, Stop, Hangup, NodeMoves, vars
  <2> QED  BY <2>1, FetchedIsConfirmed
<1> QED  BY <1>1, <1>2, <1>3, PTL DEF Spec, TransfersAreOfConfirmed

-----------------------------------------------------------------------------
(* What a block fed does downstream. *)

\* B is A amended as ConfirmedFeed has it: some of the highest blocks retracted, others
\* put on top of those that stay.
Amends(A, B) ==
  /\ B \subseteq Blocks /\ Feed!IsChain(B)
  /\ \A stays \in A \cap B : /\ \A gone \in A \ B : stays.number < gone.number
                             /\ \A new \in B \ A : stays.number < new.number

\* What is live is a chain.
LEMMA LiveChain ==
  ASSUME P!ContractInv
  PROVE  /\ live \subseteq Blocks /\ Feed!IsChain(live)
         /\ \A a \in live : a.number \in Nat /\ a.number <= confirmed_through
         /\ confirmed_through \in Int
<1>1. /\ live \subseteq Blocks /\ confirmed_through \in Int
  BY DEF P!ContractInv, P!AnyInv, P!TypeOK
<1>2. \A a \in live : a.number \in Nat /\ a.number <= confirmed_through
  <2>1. \A a \in live : a.number <= confirmed_through  BY DEF P!ContractInv, P!LiveMatchesWatermark
  <2> QED  BY <1>1, <2>1, TrackerAssumptions DEF T!BlockRef
<1>3. /\ \A a, b \in live : a.number = b.number => a = b
      /\ \A a, b \in live : a.number + 1 = b.number => a.hash = b.parent_hash
      /\ \A a \in live : \A n \in a.number..confirmed_through : \E b \in live : b.number = n
  BY DEF P!ContractInv, P!LiveIsOneChain
<1>4. ASSUME NEW a \in live, NEW b \in live, NEW n \in a.number..b.number
      PROVE  \E c \in live : c.number = n
  <2>1. n \in a.number..confirmed_through  BY <1>1, <1>2
  <2> QED  BY <1>3, <2>1
<1> QED  BY <1>1, <1>2, <1>3, <1>4 DEF Feed!IsChain

\* One call of observe, as downstream sees it: first what is orphaned goes, all of it
\* above what stays, then what is confirmed comes on top.
LEMMA ObserveDownstream ==
  ASSUME P!ContractInv, NEW b \in Blocks, T!FedUnderContract(b), T!Observe(b)
  PROVE  /\ live \ update'.reorged = {a \in live : a.number < b.number}
         /\ Applied(live, Reorged(update'.reorged)) = live \ update'.reorged
         /\ Amends(live, live \ update'.reorged)
         /\ live' \ update'.confirmed = live \ update'.reorged
         /\ \A c \in update'.confirmed : c \in live' /\ \A a \in live' \ update'.confirmed : a.number < c.number
<1>1. P!Observe(b) /\ P!FedUnderContract(b) /\ P!AnyInv /\ P!TypeOK /\ P!Numbered
  BY SameObserve, SameContract DEF P!ContractInv, P!AnyInv
<1>2. PICK k \in 0..Len(chain) : P!ObserveAt(k, b)  BY <1>1, TrackerAssumed, P!ObserveSplits
<1>3. /\ P!StopsAt(k, b)
      /\ update' = [confirmed |-> P!RipeAt(k, b), reorged |-> P!Orphaned(k)]
      /\ live' = (live \ P!Orphaned(k)) \cup P!RipeAt(k, b)
  BY <1>2 DEF P!ObserveAt
<1> DEFINE orphaned == P!Orphaned(k)
           ripe     == P!RipeAt(k, b)
           rest     == {a \in live : a.number < b.number}
<1>4. update'.reorged = orphaned /\ update'.confirmed = ripe  BY <1>3
<1>5. live \ orphaned = rest
  BY <1>1, <1>3, TrackerAssumed, P!KeptAreBelow
<1>6. /\ live \subseteq Blocks /\ Feed!IsChain(live) /\ confirmed_through \in Int
      /\ \A a \in live : a.number \in Nat /\ a.number <= confirmed_through
  BY LiveChain
<1>7. b.number \in Nat /\ \A x \in orphaned : x.number \in Nat /\ x.number >= b.number
  <2>1. b.number \in Nat /\ chain \in Seq(Blocks) /\ Len(chain) \in Nat
    BY <1>1, TrackerAssumptions DEF T!BlockRef, P!TypeOK
  <2>2. ASSUME NEW x \in orphaned  PROVE x.number \in Nat /\ x.number >= b.number
    <3>1. PICK i \in (k + 1)..Len(chain) : x = chain[i]  BY DEF P!Orphaned
    <3>2. k < Len(chain) /\ i \in 1..Len(chain) /\ k + 1 \in 1..Len(chain) /\ i >= k + 1
          /\ i \in Nat /\ k \in Nat
      BY <2>1, <3>1
    <3>3. chain[k + 1].number = b.number
      BY <1>1, <1>3, <3>2, TrackerAssumed, P!FedHeight
    <3>4. chain[i].number - chain[k + 1].number = i - (k + 1)
      BY <1>1, <3>2 DEF P!Numbered
    <3>5. chain[i] \in Blocks  BY <2>1, <3>2, ElementOfSeq
    <3>6. chain[i].number \in Nat  BY <3>5, TrackerAssumptions DEF T!BlockRef
    <3> QED  BY <2>1, <3>1, <3>2, <3>3, <3>4, <3>6
  <2> QED  BY <2>1, <2>2
<1>8. /\ P!Mark(k) \in Int
      /\ P!Mark(k) = confirmed_through \/ P!Mark(k) = b.number - 1
  BY <1>1, <1>3, TrackerAssumed, P!MarkUnderContract
<1>9. \A x \in ripe : x.number \in Int /\ x.number > P!Mark(k)
  <2> TAKE x \in ripe
  <2>1. PICK j : x = P!Held(k, b)[j] /\ P!Held(k, b)[j].number \in (P!Mark(k) + 1)..(b.number - Confirmations)
    BY DEF P!RipeAt, P!Ripe
  <2>2. b.number - Confirmations \in Int  BY <1>7, TrackerAssumptions
  <2> QED  BY <1>8, <2>1, <2>2
<1>10. \A a \in rest : a.number \in Nat /\ a.number <= P!Mark(k)
  BY <1>6, <1>7, <1>8
<1> HIDE DEF orphaned, ripe
<1>11. \A a \in rest, x \in ripe : a.number < x.number
  BY <1>8, <1>9, <1>10
<1>12. rest \cap ripe = {}
  <2>1. \A a \in rest : ~(a.number < a.number)  BY <1>10
  <2> QED  BY <1>11, <2>1
<1>13. live' = rest \cup ripe  BY <1>3, <1>5 DEF orphaned, ripe
<1>14. live' \ ripe = rest  BY <1>12, <1>13
<1>15. Applied(live, Reorged(orphaned)) = rest
  <2>1. Applied(live, Reorged(orphaned)) = {a \in live : \A x \in orphaned : x.number # a.number}
    BY DEF Applied, Reorged
  <2>2. \A a \in live : (\A x \in orphaned : x.number # a.number) => a \notin orphaned
    OBVIOUS
  <2>3. \A a \in rest, x \in orphaned : x.number # a.number
    BY <1>7, <1>10
  <2> QED  BY <1>5, <2>1, <2>2, <2>3
<1>16. Amends(live, rest)
  <2>1. Feed!IsChain(rest)
    <3>1. ASSUME NEW a \in rest, NEW c \in rest, NEW n \in a.number..c.number
          PROVE  \E d \in rest : d.number = n
      <4>1. PICK d \in live : d.number = n  BY <1>6, <3>1 DEF Feed!IsChain
      <4>2. n < b.number  BY <1>7, <1>10, <3>1
      <4> QED  BY <4>1, <4>2
    <3> QED  BY <1>6, <3>1 DEF Feed!IsChain
  <2>2. \A stays \in rest, gone \in live \ rest : stays.number < gone.number
    BY <1>6, <1>7, <1>10
  <2> QED  BY <1>6, <2>1, <2>2 DEF Amends
<1> QED  BY <1>4, <1>5, <1>11, <1>13, <1>14, <1>15, <1>16

-----------------------------------------------------------------------------
(* The messages on their way. *)

\* The messages q lead from what A holds to B, amending it one after the other.
Leads(A, q, B) ==
  \E held \in [0..Len(q) -> SUBSET Blocks] :
    /\ held[0] = A /\ held[Len(q)] = B
    /\ \A i \in 1..Len(q) : held[i] = Applied(held[i - 1], q[i]) /\ Amends(held[i - 1], held[i])

LEMMA LeadsNowhere ==
  ASSUME NEW A \in SUBSET Blocks
  PROVE  Leads(A, <<>>, A)
<1> DEFINE held == [i \in 0..0 |-> A]
<1>1. Len(<<>>) = 0  OBVIOUS
<1>2. held \in [0..Len(<<>>) -> SUBSET Blocks] /\ held[0] = A  OBVIOUS
<1> HIDE DEF held
<1> QED  BY <1>1, <1>2 DEF Leads

\* One more message.
LEMMA LeadsOn ==
  ASSUME NEW q \in Seq(IndexerMessage), NEW A, NEW B, Leads(A, q, B), NEW m \in IndexerMessage,
         Amends(B, Applied(B, m))
  PROVE  Leads(A, Append(q, m), Applied(B, m))
<1> DEFINE n == Len(q)
           more == Append(q, m)
<1>1. PICK held \in [0..n -> SUBSET Blocks] :
        /\ held[0] = A /\ held[n] = B
        /\ \A i \in 1..n : held[i] = Applied(held[i - 1], q[i]) /\ Amends(held[i - 1], held[i])
  BY DEF Leads
<1>2. n \in Nat /\ Len(more) = n + 1 /\ more[n + 1] = m /\ \A i \in 1..n : more[i] = q[i]
  OBVIOUS
<1> HIDE DEF more, n
<1> DEFINE longer == [i \in 0..(n + 1) |-> IF i = n + 1 THEN Applied(B, m) ELSE held[i]]
<1>3. Applied(B, m) \in SUBSET Blocks  BY DEF Amends
<1>4. longer \in [0..(n + 1) -> SUBSET Blocks]
  <2>1. \A i \in 0..(n + 1) : i # n + 1 => held[i] \in SUBSET Blocks  BY <1>1, <1>2
  <2> QED  BY <1>3, <2>1
<1>5. longer[n + 1] = Applied(B, m) /\ \A i \in 0..n : longer[i] = held[i]
  BY <1>2
<1> HIDE DEF longer
<1>6. longer[0] = A  BY <1>1, <1>2, <1>5
<1>7. ASSUME NEW i \in 1..(n + 1)
      PROVE  longer[i] = Applied(longer[i - 1], more[i]) /\ Amends(longer[i - 1], longer[i])
  <2>1. CASE i = n + 1
    <3>1. longer[i - 1] = B  BY <1>1, <1>2, <1>5, <2>1
    <3> QED  BY <1>2, <1>5, <2>1, <3>1
  <2>2. CASE i \in 1..n
    <3>1. longer[i - 1] = held[i - 1] /\ longer[i] = held[i] /\ more[i] = q[i]
      BY <1>2, <1>5, <2>2
    <3> QED  BY <1>1, <2>2, <3>1
  <2> QED  BY <1>2, <2>1, <2>2
<1>8. Leads(A, more, Applied(B, m))
  BY <1>2, <1>4, <1>5, <1>6, <1>7 DEF Leads
<1> QED  BY <1>8 DEF more

\* The first message received.
LEMMA LeadsFirst ==
  ASSUME NEW q \in Seq(IndexerMessage), q # <<>>, NEW A, NEW B, Leads(A, q, B)
  PROVE  Amends(A, Applied(A, Head(q))) /\ Leads(Applied(A, Head(q)), Tail(q), B)
<1> DEFINE n == Len(q)
           rest == Tail(q)
           first == Head(q)
<1>1. PICK held \in [0..n -> SUBSET Blocks] :
        /\ held[0] = A /\ held[n] = B
        /\ \A i \in 1..n : held[i] = Applied(held[i - 1], q[i]) /\ Amends(held[i - 1], held[i])
  BY DEF Leads
<1>2. /\ n \in Nat /\ n > 0 /\ Len(rest) = n - 1 /\ first = q[1]
      /\ \A i \in 1..(n - 1) : rest[i] = q[i + 1]
  OBVIOUS
<1> HIDE DEF rest, n, first
<1>3. held[1] = Applied(A, first) /\ Amends(A, held[1])
  <2>1. 1 \in 1..n /\ 1 - 1 = 0  BY <1>2
  <2>2. held[1] = Applied(held[1 - 1], q[1]) /\ Amends(held[1 - 1], held[1])  BY <1>1, <2>1
  <2> QED  BY <1>1, <1>2, <2>1, <2>2
<1> DEFINE later == [i \in 0..(n - 1) |-> held[i + 1]]
<1>4. later \in [0..(n - 1) -> SUBSET Blocks]
  <2>1. \A i \in 0..(n - 1) : held[i + 1] \in SUBSET Blocks  BY <1>1, <1>2
  <2> QED  BY <2>1
<1>5. \A i \in 0..(n - 1) : later[i] = held[i + 1]  OBVIOUS
<1> HIDE DEF later
<1>6. later[0] = held[1] /\ later[n - 1] = B
  <2>1. 0 \in 0..(n - 1) /\ n - 1 \in 0..(n - 1) /\ (n - 1) + 1 = n  BY <1>2
  <2> QED  BY <1>1, <1>5, <2>1
<1>7. ASSUME NEW i \in 1..(n - 1)
      PROVE  later[i] = Applied(later[i - 1], rest[i]) /\ Amends(later[i - 1], later[i])
  <2>1. i + 1 \in 1..n /\ (i + 1) - 1 = i /\ i \in 0..(n - 1) /\ i - 1 \in 0..(n - 1) /\ (i - 1) + 1 = i
    BY <1>2
  <2>2. held[i + 1] = Applied(held[(i + 1) - 1], q[i + 1]) /\ Amends(held[(i + 1) - 1], held[i + 1])
    BY <1>1, <2>1
  <2>3. later[i] = held[i + 1] /\ later[i - 1] = held[i] /\ rest[i] = q[i + 1]
    BY <1>2, <1>5, <2>1
  <2> QED  BY <2>1, <2>2, <2>3
<1>8. Leads(Applied(A, first), rest, B)
  BY <1>2, <1>3, <1>4, <1>6, <1>7 DEF Leads
<1> QED  BY <1>3, <1>8 DEF rest, first

\* How the two queues move as one.
LEMMA QueueFacts ==
  ASSUME NEW c \in Seq(IndexerMessage), NEW s \in Seq(IndexerMessage)
  PROVE  /\ c \o s \in Seq(IndexerMessage)
         /\ \A m \in IndexerMessage : c \o Append(s, m) = Append(c \o s, m)
         /\ \A m \in IndexerMessage : s \o <<m>> = Append(s, m)
         /\ s # <<>> => Append(c, Head(s)) \o Tail(s) = c \o s
         /\ c # <<>> => c \o s # <<>> /\ Head(c \o s) = Head(c) /\ Tail(c \o s) = Tail(c) \o s
<1>1. c \o s \in Seq(IndexerMessage)  OBVIOUS
<1>2. \A m \in IndexerMessage : c \o Append(s, m) = Append(c \o s, m)  OBVIOUS
<1>3. \A m \in IndexerMessage : s \o <<m>> = Append(s, m)  OBVIOUS
<1>4. s # <<>> => Append(c, Head(s)) \o Tail(s) = c \o s  OBVIOUS
<1>5. c # <<>> => c \o s # <<>> /\ Head(c \o s) = Head(c) /\ Tail(c \o s) = Tail(c) \o s  OBVIOUS
<1> QED  BY <1>1, <1>2, <1>3, <1>4, <1>5

-----------------------------------------------------------------------------
(* All that holds of a tick, whatever fails. *)

\* What is fed is linked, read from the chain, and keeps the tracker's contract.
FeedInv == TypeInv /\ TickInv /\ GroundInv /\ P!ContractInv

LEMMA FeedInvInit ==
  Init => FeedInv
<1>1. Init => T!Init  BY DEF Init
<1>2. Init => GroundInv  BY DEF Init, GroundInv
<1> QED  BY <1>1, <1>2, TypesInit, TickInvInit, FreshContract DEF FeedInv

LEMMA FeedInvNext ==
  ASSUME CalmTicks, MidReorg <= Confirmations, FeedInv, ForksInWindow, [Next]_vars
  PROVE  FeedInv'
<1> USE DEF FeedInv
<1>1. TypeInv' /\ TickInv' /\ GroundInv'  BY TypesNext, TickInvNext, GroundInvNext
<1>2. [UnderContract]_tracker  BY StepUnderContract
<1>3. P!ContractInv'  BY <1>2, ContractInvKept DEF TypeInv
<1> QED  BY <1>1, <1>3

-----------------------------------------------------------------------------
(* Without failures the feed is delivered. *)

\* Nothing fails, and within a tick the node only grows.
Undisturbed == MidReorg = 0 /\ Faults \subseteq {"shrink"}

\* The poller starts once, at StartBlock, and its consumer stays.
RunInv ==
  /\ pc # "down" => listening
  /\ pc = "down" => /\ chain = <<>> /\ live = {} /\ channel = <<>> /\ delivered = {}
                    /\ checkpoint = NoHeight
  /\ pc \in {"poll", "down"} => msgs = <<>>
  /\ start_block = StartBlock

\* What downstream will hold once the messages of this moment are received.
Delivering == IF pc = "transfers" THEN live \ update.confirmed ELSE live

FlowInv ==
  /\ Leads(delivered, channel \o msgs, Delivering)
  /\ pc = "transfers" =>
       \A c \in update.confirmed : c \in live /\ \A a \in live \ update.confirmed : a.number < c.number

LEMMA NothingFails ==
  ASSUME Undisturbed, FeedInv, RunInv
  PROVE  ~Fail /\ ~SendRefused /\ ~Crash /\ ~Hangup
<1> USE DEF FeedInv
<1>1. NodeHead \in Nat /\ next \in Nat /\ head_num \in Nat /\ canon \in Chains
  BY Heights DEF TypeInv, TypeOK, BranchInv
<1>2. ~Crash /\ ~Hangup  BY DEF Undisturbed, Crash, Hangup
<1>3. ~SendRefused  BY DEF RunInv, SendRefused
<1>4. ASSUME Fail PROVE FALSE
  <2>1. ~Known(Asked)  BY <1>4 DEF Fail, Undisturbed
  <2>2. CASE pc \in {"fetch", "recheck"}
    <3>1. Asked = next  BY <2>2 DEF Asked
    <3>2. next <= NodeHead  BY <1>1, <2>2 DEF TickInv, MidTick
    <3> QED  BY <1>1, <2>1, <3>1, <3>2 DEF Known
  <2>3. CASE pc = "walk"
    <3> DEFINE tip == Last(branch)
    <3>1. Asked = tip.number - 1  BY <2>3 DEF Asked
    <3>2. ~Connects(tip)  BY <1>4, <2>3 DEF Fail
    <3>3. branch \in Seq(Blocks) /\ branch # <<>>  BY <2>3 DEF TypeInv, BranchInv
    <3>4. tip \in Blocks /\ Len(branch) \in 1..Len(branch) /\ tip = branch[Len(branch)]
      BY <3>3, FrontBlocks DEF Last
    <3>5. tip.number <= NodeHead  BY <2>3, <3>4 DEF TickInv
    <3>6. tip.number \in Nat  BY <3>4, TrackerAssumptions DEF T!BlockRef
    <3>7. tip.number # 0  BY <3>2 DEF Connects
    <3> HIDE DEF tip
    <3> QED  BY <1>1, <2>1, <3>1, <3>5, <3>6, <3>7 DEF Known
  <2>4. CASE pc \notin {"fetch", "recheck", "walk"}
    <3>1. Asked = 0  BY <2>4 DEF Asked
    <3> QED  BY <1>1, <2>1, <3>1 DEF Known
  <2> QED  BY <2>2, <2>3, <2>4
<1> QED  BY <1>2, <1>3, <1>4

LEMMA RunInvNext ==
  ASSUME Undisturbed, FeedInv, RunInv, [Next]_vars
  PROVE  RunInv'
<1> USE DEF RunInv
<1>1. ~Fail /\ ~SendRefused /\ ~Crash /\ ~Hangup  BY NothingFails
<1>2. CASE PollHead
  BY <1>2 DEF PollHead, ColdStart, HeadGrew, HeadDidNotGrow, tracker, config, outside
<1>3. CASE FetchNext \/ RecheckHead \/ WalkBack
  BY <1>3 DEF FetchNext, RecheckHead, WalkBack, tracker, config, outside
<1>4. CASE ObserveNext
  BY <1>4 DEF ObserveNext, AfterObserve, config, outside
<1>5. CASE FetchTransfers
  BY <1>5 DEF FetchTransfers, AfterObserve, tracker, config, outside
<1>6. CASE Save \/ Send \/ Sleep
  BY <1>6 DEF Save, Send, Sleep, tracker, config, outside
<1>7. CASE Resume
  BY <1>7 DEF Resume, ResumeAt, tracker
<1>8. CASE Receive \/ NodeMoves \/ UNCHANGED vars
  BY <1>8 DEF Receive, NodeMoves, vars, tracker, config, outside
<1> QED
  BY <1>1, <1>2, <1>3, <1>4, <1>5, <1>6, <1>7, <1>8 DEF Next, Run

\* A block confirmed on top of what downstream will hold makes that what is live.
LEMMA ConfirmAmends ==
  ASSUME P!ContractInv, NEW c, update.confirmed = {c}, c \in live,
         \A a \in live \ update.confirmed : a.number < c.number
  PROVE  /\ Applied(live \ update.confirmed, Confirmed(c)) = live
         /\ Amends(live \ update.confirmed, live)
<1>1. live \subseteq Blocks /\ Feed!IsChain(live)  BY LiveChain
<1>2. Applied(live \ update.confirmed, Confirmed(c)) = (live \ {c}) \cup {c}
  BY DEF Applied, Confirmed
<1>3. (live \ {c}) \cup {c} = live  OBVIOUS
<1>4. Amends(live \ update.confirmed, live)
  BY <1>1 DEF Amends
<1> QED  BY <1>2, <1>3, <1>4

LEMMA FlowInvNext ==
  ASSUME Undisturbed, FeedInv, RunInv, ForksInWindow, FlowInv, [Next]_vars
  PROVE  FlowInv' /\ [Amends(delivered, delivered')]_delivered
<1> USE DEF FeedInv
<1>1. ~Fail /\ ~SendRefused /\ ~Crash /\ ~Hangup  BY NothingFails
<1>2. /\ channel \in Seq(IndexerMessage) /\ msgs \in Seq(IndexerMessage)
      /\ Leads(delivered, channel \o msgs, Delivering) /\ channel \o msgs \in Seq(IndexerMessage)
  BY QueueFacts DEF TypeInv, TypeOK, FlowInv
<1>3. ASSUME UNCHANGED <<delivered, channel \o msgs, live, update>>,
             pc' = "transfers" <=> pc = "transfers"
      PROVE  FlowInv' /\ UNCHANGED delivered
  BY <1>3 DEF FlowInv, Delivering
<1>4. CASE PollHead
  BY <1>3, <1>4 DEF PollHead, ColdStart, HeadGrew, HeadDidNotGrow, tracker, outside
<1>5. CASE FetchNext \/ RecheckHead \/ WalkBack
  BY <1>3, <1>5 DEF FetchNext, RecheckHead, WalkBack, tracker, outside
<1>6. CASE Save \/ Sleep \/ Resume
  BY <1>3, <1>6 DEF Save, Sleep, Resume, tracker, outside
<1>7. CASE NodeMoves \/ UNCHANGED vars
  BY <1>3, <1>7 DEF NodeMoves, vars, tracker, outside
<1>8. CASE Send
  <2>1. /\ msgs # <<>> /\ channel' = Append(channel, Head(msgs)) /\ msgs' = Tail(msgs)
        /\ UNCHANGED <<delivered, live, update, pc>>
    BY <1>8 DEF Send, tracker
  <2>2. channel' \o msgs' = channel \o msgs  BY <1>2, <2>1, QueueFacts
  <2> QED  BY <1>3, <2>1, <2>2
<1>9. CASE Receive
  <2>1. /\ channel # <<>> /\ channel' = Tail(channel) /\ delivered' = Applied(delivered, Head(channel))
        /\ UNCHANGED <<live, update, pc, msgs>>
    BY <1>9 DEF Receive, tracker
  <2>2. /\ channel \o msgs # <<>> /\ Head(channel \o msgs) = Head(channel)
        /\ Tail(channel \o msgs) = channel' \o msgs'
    BY <1>2, <2>1, QueueFacts
  <2>3. /\ Amends(delivered, Applied(delivered, Head(channel \o msgs)))
        /\ Leads(Applied(delivered, Head(channel \o msgs)), Tail(channel \o msgs), Delivering)
    BY <1>2, <2>2, LeadsFirst
  <2>4. Delivering' = Delivering  BY <2>1 DEF Delivering
  <2>5. Amends(delivered, delivered') /\ Leads(delivered', channel' \o msgs', Delivering')
    BY <2>1, <2>2, <2>3, <2>4
  <2> QED  BY <2>1, <2>5 DEF FlowInv
<1>10. CASE ObserveNext
  <2> DEFINE fed      == Last(branch)
             orphaned == update'.reorged
             stays    == live \ orphaned
  <2>1. /\ T!Observe(fed) /\ pc \in {"walk", "observe"} /\ UNCHANGED <<delivered, channel>>
        /\ msgs' = IF orphaned = {} THEN msgs ELSE Append(msgs, Reorged(orphaned))
        /\ pc' = IF update'.confirmed = {} THEN AfterObserve(branch') ELSE "transfers"
    BY <1>10 DEF ObserveNext, outside
  <2>2. T!FedUnderContract(fed)  BY <1>10, FedRight
  <2>3. fed \in Blocks
    <3>1. branch \in Seq(Blocks) /\ branch # <<>>  BY <2>1 DEF TypeInv, BranchInv
    <3> QED  BY <3>1, FrontBlocks
  <2> HIDE DEF fed
  <2>4. /\ Applied(live, Reorged(orphaned)) = stays
        /\ Amends(live, stays)
        /\ live' \ update'.confirmed = stays
        /\ \A c \in update'.confirmed : c \in live' /\ \A a \in live' \ update'.confirmed : a.number < c.number
    BY <2>1, <2>2, <2>3, ObserveDownstream
  <2>5. Delivering = live  BY <2>1 DEF Delivering
  <2>6. Delivering' = stays
    <3>1. CASE update'.confirmed = {}
      <4>1. pc' # "transfers"  BY <2>1, <3>1 DEF AfterObserve
      <4> QED  BY <2>4, <3>1, <4>1 DEF Delivering
    <3>2. CASE update'.confirmed # {}
      BY <2>1, <2>4, <3>2 DEF Delivering
    <3> QED  BY <3>1, <3>2
  <2>7. Leads(delivered', channel' \o msgs', Delivering')
    <3>1. CASE orphaned = {}
      <4>1. msgs' = msgs /\ stays = live  BY <2>1, <3>1
      <4> QED  BY <1>2, <2>1, <2>5, <2>6, <4>1
    <3>2. CASE orphaned # {}
      <4> DEFINE m == Reorged(orphaned)
      <4>1. msgs' = Append(msgs, m)  BY <2>1, <3>2
      <4>2. m \in IndexerMessage
        <5>1. TypeInv'  BY TypesNext
        <5>2. orphaned \subseteq Blocks  BY <5>1 DEF TypeInv, TypeOK, T!TypeOK
        <5> QED  BY <5>2 DEF Reorged, IndexerMessage
      <4>3. Leads(delivered, channel \o msgs, live) /\ Amends(live, Applied(live, m))
        BY <1>2, <2>4, <2>5
      <4> HIDE DEF m
      <4>4. Leads(delivered, Append(channel \o msgs, m), Applied(live, m))
        BY <1>2, <4>2, <4>3, LeadsOn
      <4>5. channel \o Append(msgs, m) = Append(channel \o msgs, m)
        BY <1>2, <4>2, QueueFacts
      <4> QED  BY <2>1, <2>4, <2>6, <4>1, <4>4, <4>5 DEF m
    <3> QED  BY <3>1, <3>2
  <2> QED  BY <2>1, <2>4, <2>7 DEF FlowInv
<1>11. CASE FetchTransfers
  <2>1. pc = "transfers" /\ pc' # "transfers" /\ UNCHANGED <<delivered, channel, live, update>>
    BY <1>11 DEF FetchTransfers, AfterObserve, tracker, outside
  <2>2. PICK c \in update.confirmed :
          update.confirmed = {c} /\ msgs' = msgs \o <<Confirmed(c)>>
    BY <1>11, FetchedIsConfirmed
  <2>3. c \in live /\ \A a \in live \ update.confirmed : a.number < c.number
    BY <2>1, <2>2 DEF FlowInv
  <2>4. /\ Applied(live \ update.confirmed, Confirmed(c)) = live
        /\ Amends(live \ update.confirmed, live)
    BY <2>2, <2>3, ConfirmAmends
  <2> DEFINE m == Confirmed(c)
  <2>5. m \in IndexerMessage
    <3>1. c \in Blocks  BY <2>3, LiveChain
    <3> QED  BY <3>1 DEF Confirmed, IndexerMessage
  <2>6. Delivering = live \ update.confirmed /\ Delivering' = live
    BY <2>1 DEF Delivering
  <2> HIDE DEF m
  <2>7. Leads(delivered, Append(channel \o msgs, m), Applied(Delivering, m))
    BY <1>2, <2>4, <2>5, <2>6, LeadsOn DEF m
  <2>8. channel \o msgs' = Append(channel \o msgs, m)
    BY <1>2, <2>2, <2>5, QueueFacts DEF m
  <2> QED  BY <2>1, <2>4, <2>6, <2>7, <2>8 DEF FlowInv, m
<1> QED
  BY <1>1, <1>4, <1>5, <1>6, <1>7, <1>8, <1>9, <1>10, <1>11 DEF Next, Run

\* Without failures, and with no fork older than the window, what the consumer holds is
\* one chain at every moment, however deep the reorgs between two ticks: messages that
\* wait in the channel or in the poller lead through chains only, each retracting some
\* of the highest blocks or putting blocks on top.
THEOREM PollerDeliversFeed ==
  Undisturbed => (Spec /\ []ForksInWindow => DeliversFeed)
<1> SUFFICES ASSUME Undisturbed PROVE Spec /\ []ForksInWindow => DeliversFeed
  OBVIOUS
<1>1. CalmTicks /\ MidReorg <= Confirmations
  BY TrackerAssumptions DEF Undisturbed, CalmTicks
<1> DEFINE I == FeedInv /\ RunInv /\ FlowInv
<1>2. Init => I /\ Feed!Init
  <2> SUFFICES ASSUME Init PROVE I /\ Feed!Init  OBVIOUS
  <2>1. RunInv /\ delivered = {} /\ channel \o msgs = <<>> /\ Delivering = {} /\ pc # "transfers"
    BY DEF Init, T!Init, RunInv, Delivering, NoHeight
  <2>2. Leads(delivered, channel \o msgs, Delivering)  BY <2>1, LeadsNowhere
  <2> QED  BY <2>1, <2>2, FeedInvInit DEF FlowInv, Feed!Init
<1>3. I /\ ForksInWindow /\ [Next]_vars => I' /\ [Feed!Next]_delivered
  <2> SUFFICES ASSUME I, ForksInWindow, [Next]_vars PROVE I' /\ [Feed!Next]_delivered  OBVIOUS
  <2>1. FeedInv' /\ RunInv'  BY <1>1, FeedInvNext, RunInvNext
  <2>2. FlowInv' /\ [Amends(delivered, delivered')]_delivered  BY FlowInvNext
  <2>3. Amends(delivered, delivered') => Feed!Next
    BY DEF Amends, Feed!Next, Feed!Amend
  <2> QED  BY <2>1, <2>2, <2>3
<1> HIDE DEF I
<1> QED  BY <1>2, <1>3, PTL DEF Spec, DeliversFeed, Feed!Spec

-----------------------------------------------------------------------------
(* Where indexing began. *)

\* Nothing below start_block is fed or live; the window begins at it, or above it when
\* the block at start_block has been confirmed.
LowInv ==
  /\ \A a \in live : a.number >= start_block
  /\ chain # <<>> =>
       /\ chain[1].number >= start_block
       /\ chain[1].number > start_block => \E a \in live : a.number = start_block
  /\ pc = "fetch" /\ chain = <<>> => next = start_block
  /\ pc = "walk" /\ chain = <<>> => Last(branch).number = start_block
  /\ pc = "down" => chain = <<>>

\* The tracker keeps it when a block is fed that does not begin below start_block.
LEMMA ObserveAbove ==
  ASSUME P!ContractInv, NEW b \in Blocks, T!FedUnderContract(b), T!Observe(b),
         NEW low \in Nat,
         \A a \in live : a.number >= low,
         IF chain = <<>> THEN b.number = low
         ELSE /\ chain[1].number >= low
              /\ chain[1].number > low => \E a \in live : a.number = low
  PROVE  /\ \A a \in live' : a.number >= low
         /\ chain'[1].number >= low
         /\ chain'[1].number > low => \E a \in live' : a.number = low
<1>1. P!Observe(b) /\ P!FedUnderContract(b) /\ P!AnyInv /\ P!TypeOK
  BY SameObserve, SameContract DEF P!ContractInv, P!AnyInv
<1>2. PICK k \in 0..Len(chain) : P!ObserveAt(k, b)  BY <1>1, TrackerAssumed, P!ObserveSplits
<1>3. P!StopsAt(k, b)  BY <1>2 DEF P!ObserveAt
<1>4. /\ chain \in Seq(Blocks) /\ Len(chain) \in Nat /\ b.number \in Nat /\ k \in Nat /\ k <= Len(chain)
      /\ \A i \in 1..Len(chain) : chain[i].number \in Nat
      /\ Window \in Nat /\ Confirmations \in Nat /\ Window > Confirmations
  <2>1. chain \in Seq(Blocks)  BY <1>1 DEF P!TypeOK
  <2>2. \A i \in 1..Len(chain) : chain[i] \in Blocks  BY <2>1
  <2> QED  BY <2>1, <2>2, TrackerAssumptions DEF T!BlockRef
<1>5. PICK cut \in 0..k :
        /\ Len(chain') = k + 1 - cut
        /\ cut > 0 => Len(chain') = Window
        /\ \A i \in 1..Len(chain') : chain'[i] = P!Held(k, b)[i + cut]
  BY <1>1, <1>2, TrackerAssumed, P!ChainAfter
<1>6. /\ \A j \in 1..(k + 1) : P!Held(k, b)[j].number = b.number - (k + 1 - j)
      /\ \A j \in 1..k : P!Held(k, b)[j] = chain[j]
      /\ P!Held(k, b)[k + 1] = b
  BY <1>1, <1>3, TrackerAssumed, P!HeldHeights
<1>7. /\ \A a \in live' :
           \/ a \in live
           \/ \E j \in 1..(k + 1) : a = P!Held(k, b)[j]
      /\ \A a \in live : a.number < b.number => a \in live'
      /\ confirmed_through' \in Int /\ b.number - Confirmations <= confirmed_through'
  BY <1>1, <1>2, TrackerAssumed, P!LiveAfter
\* The oldest block held is the oldest of the chain, or takes its place.
<1>8. chain # <<>> => chain[1].number = b.number - k
  <2> HAVE chain # <<>>
  <2>0. 1 \in 1..Len(chain)  BY <1>4
  <2>1. CASE k = 0
    <3>1. k < Len(chain) /\ k + 1 = 1  BY <1>4, <2>0, <2>1
    <3>2. chain[k + 1].number = b.number  BY <1>1, <1>3, <3>1, TrackerAssumed, P!FedHeight
    <3> QED  BY <1>4, <2>1, <3>1, <3>2
  <2>2. CASE k > 0
    <3>1. 1 \in 1..k /\ 1 \in 1..(k + 1)  BY <1>4, <2>2
    <3>2. chain[1].number = b.number - (k + 1 - 1)  BY <1>6, <3>1
    <3> QED  BY <1>4, <3>2
  <2> QED  BY <1>4, <2>1, <2>2
<1>9. b.number - k >= low /\ (chain = <<>> => b.number - k = low)
  <2>1. chain = <<>> => k = 0  BY <1>4
  <2> QED  BY <1>4, <1>8, <2>1
<1>10. \A j \in 1..(k + 1) : P!Held(k, b)[j].number >= low
  <2> TAKE j \in 1..(k + 1)
  <2>1. P!Held(k, b)[j].number = b.number - (k + 1 - j)  BY <1>6
  <2> QED  BY <1>4, <1>9, <2>1
<1>11. \A a \in live' : a.number >= low
  BY <1>7, <1>10
<1>12. chain'[1] = P!Held(k, b)[1 + cut] /\ chain'[1].number = b.number - k + cut
  <2>1. 1 \in 1..Len(chain') /\ 1 + cut \in 1..(k + 1)  BY <1>4, <1>5
  <2>2. P!Held(k, b)[1 + cut].number = b.number - (k + 1 - (1 + cut))  BY <1>6, <2>1
  <2>3. k + 1 - (1 + cut) = k - cut  BY <1>4
  <2> QED  BY <1>4, <1>5, <2>1, <2>2, <2>3
<1>13. chain'[1].number >= low
  BY <1>4, <1>9, <1>12
<1>14. ASSUME chain'[1].number > low  PROVE \E a \in live' : a.number = low
  <2>1. CASE chain # <<>> /\ chain[1].number > low
    <3>1. PICK a \in live : a.number = low  BY <2>1
    <3>2. low < b.number  BY <1>4, <1>8, <2>1
    <3> QED  BY <1>7, <3>1, <3>2
  <2>2. CASE b.number - k = low
    <3>1. cut > 0 /\ 1 \in 1..(k + 1)  BY <1>4, <1>12, <1>14, <2>2
    <3>2. k + 1 - cut = Window  BY <1>5, <3>1
    <3>3. P!Held(k, b)[1].number = low
      <4>1. P!Held(k, b)[1].number = b.number - (k + 1 - 1)  BY <1>6, <3>1
      <4> QED  BY <1>4, <2>2, <4>1
    <3>4. low <= confirmed_through'
      BY <1>4, <1>7, <2>2, <3>1, <3>2
    <3>5. P!Held(k, b)[1] \in live'
      BY <1>1, <1>2, <3>1, <3>3, <3>4, TrackerAssumed, P!HeldMatchesWatermark
    <3> QED  BY <3>3, <3>5
  <2> QED  BY <1>4, <1>8, <1>9, <2>1, <2>2
<1> QED  BY <1>11, <1>13, <1>14

LEMMA LowInvNext ==
  ASSUME FeedInv, ForksInWindow, LowInv, [Next]_vars
  PROVE  LowInv'
<1> USE DEF FeedInv
<1>1. start_block \in Nat /\ branch \in Seq(Blocks)  BY DEF TypeInv, TypeOK, BranchInv
<1>2. CASE PollHead
  BY <1>2 DEF PollHead, ColdStart, HeadGrew, HeadDidNotGrow, tracker, config, LowInv
<1>3. CASE FetchNext
  <2>1. /\ pc = "fetch" /\ pc' = "walk" /\ branch' = <<BlockRefAt(next)>> /\ Known(next)
        /\ UNCHANGED <<chain, live, start_block>>
    BY <1>3 DEF FetchNext, tracker, config
  <2>2. BlockRefAt(next).number = next  BY <2>1, ReadFacts DEF TypeInv, BranchInv
  <2>3. Last(branch') = BlockRefAt(next)  BY <2>1 DEF Last
  <2> QED  BY <2>1, <2>2, <2>3 DEF LowInv
<1>4. CASE RecheckHead
  <2>1. /\ pc = "recheck" /\ pc' \in {"save", "walk"} /\ UNCHANGED <<chain, live, start_block>>
    BY <1>4 DEF RecheckHead, tracker, config
  <2>2. chain # <<>>  BY <2>1 DEF TickInv
  <2> QED  BY <2>1, <2>2 DEF LowInv
<1>5. CASE WalkBack
  <2>1. /\ pc = "walk" /\ pc' = "walk" /\ ~Connects(Last(branch)) /\ UNCHANGED <<chain, live, start_block>>
    BY <1>5 DEF WalkBack, tracker, config
  <2>2. chain # <<>>  BY <2>1 DEF Connects, T!BlockAt
  <2> QED  BY <2>1, <2>2 DEF LowInv
<1>6. CASE ObserveNext
  <2> DEFINE fed == Last(branch)
  <2>1. /\ T!Observe(fed) /\ pc \in {"walk", "observe"} /\ start_block' = start_block
        /\ pc' \notin {"walk", "down"}
    BY <1>6 DEF ObserveNext, AfterObserve, config
  <2>2. T!FedUnderContract(fed)  BY <1>6, FedRight
  <2>3. fed \in Blocks
    <3>1. branch # <<>>  BY <2>1 DEF TypeInv, BranchInv
    <3> QED  BY <1>1, <3>1, FrontBlocks
  <2>4. chain = <<>> => fed.number = start_block
    <3>1. pc = "observe" => chain # <<>>
      BY DEF TickInv, TypeInv, BranchInv
    <3> QED  BY <2>1, <3>1 DEF LowInv
  <2>5. chain' # <<>>  BY <2>1, <2>3, ObserveOnTop DEF TypeInv
  <2> HIDE DEF fed
  <2>6. /\ \A a \in live' : a.number >= start_block
        /\ chain'[1].number >= start_block
        /\ chain'[1].number > start_block => \E a \in live' : a.number = start_block
    BY <1>1, <2>1, <2>2, <2>3, <2>4, ObserveAbove DEF LowInv
  <2> QED  BY <2>1, <2>5, <2>6 DEF LowInv
<1>7. CASE FetchTransfers
  <2>1. /\ pc = "transfers" /\ pc' \notin {"walk", "down"} /\ UNCHANGED <<chain, live, start_block>>
    BY <1>7 DEF FetchTransfers, AfterObserve, tracker, config
  <2>2. chain # <<>>  BY <2>1 DEF TickInv
  <2> QED  BY <2>1, <2>2 DEF LowInv
<1>8. CASE Save \/ Send \/ Sleep
  BY <1>8 DEF Save, Send, Sleep, tracker, config, LowInv
<1>9. CASE SendRefused \/ Fail \/ Crash
  BY <1>9 DEF SendRefused, Fail, Crash, Stop, LowInv
<1>10. CASE Resume
  <2>1. chain = <<>> /\ chain' = <<>> /\ live' = live /\ pc' = "poll"
    BY <1>10 DEF Resume, tracker, LowInv
  <2>2. live = {}  BY <2>1 DEF P!ContractInv, P!EmptyMeansFresh
  <2> QED  BY <2>1, <2>2 DEF LowInv
<1>11. CASE Receive \/ Hangup \/ NodeMoves \/ UNCHANGED vars
  BY <1>11 DEF Receive, Hangup, NodeMoves, vars, tracker, tick, config, LowInv
<1> QED
  BY <1>2, <1>3, <1>4, <1>5, <1>6, <1>7, <1>8, <1>9, <1>10, <1>11 DEF Next, Run

\* When the retained chain ends in a canonical block, what is live is what is canonical
\* from start_block up to the watermark.
LEMMA LiveIsCanon ==
  ASSUME FeedInv, LowInv, ForksInWindow, chain # <<>>, Last(chain) \in Range(canon)
  PROVE  live = {b \in Range(canon) : b.number \in start_block..confirmed_through}
<1> USE DEF FeedInv
<1>1. /\ canon \in Chains /\ TrackerInv /\ start_block \in Nat /\ confirmed_through \in Int
      /\ live \subseteq Blocks /\ \A a \in live : a.number \in Nat /\ a.number <= confirmed_through
  BY LiveChain DEF TypeInv, TypeOK, BranchInv
<1> DEFINE low == chain[1].number
<1>2. /\ chain \in Seq(Blocks) /\ Len(chain) \in Nat
      /\ \A i \in 1..Len(chain) : chain[i] \in Blocks /\ chain[i].number \in Nat
      /\ 1 \in 1..Len(chain) /\ Len(chain) \in 1..Len(chain) /\ Last(chain) = chain[Len(chain)]
      /\ \A n \in low..Last(chain).number : T!BlockAt(n) # {}
      /\ low \in Nat /\ Last(chain).number \in Nat
  BY <1>1, ChainShape
<1>3. \A i \in 1..Len(chain) : chain[i] \in Range(canon)
  <2>1. ASSUME NEW i \in 1..Len(chain), NEW j \in 1..Len(chain), j = i + 1
        PROVE  chain[i].hash = chain[j].parent_hash /\ chain[j].number > 0
    <3>1. chain[i].number + 1 = chain[j].number /\ chain[i].hash = chain[j].parent_hash
      BY <1>1, <2>1, ChainShape
    <3> QED  BY <1>2, <3>1
  <2> QED  BY <1>1, <1>2, <2>1, CanonBelow
<1>4. /\ \A a \in live : \A n \in a.number..confirmed_through : \E b \in live : b.number = n
      /\ \A a, b \in live : a.number + 1 = b.number => a.hash = b.parent_hash
      /\ \A a \in live : a.number >= low => \E i \in 1..Len(chain) : chain[i] = a
      /\ \A i \in 1..Len(chain) : chain[i].number <= confirmed_through => chain[i] \in live
      /\ confirmed_through <= Last(chain).number
      /\ live # {} => low <= confirmed_through + 1
  BY <1>2 DEF P!ContractInv, P!LiveIsOneChain, P!LiveInChain, P!LiveMatchesWatermark,
              P!WatermarkBelowHead, P!OldestIsNear
<1>5. \A a \in live : a.number + 1 = low => a \in Range(canon)
  BY DEF ForksInWindow
<1> HIDE DEF low
\* What is live below the window is canonical, from its top downwards.
<1>6. ASSUME NEW a \in live, a.number < low
      PROVE  a \in Range(canon)
  <2> DEFINE S == {n \in Nat : \A c \in live : c.number + 1 + n = low => c \in Range(canon)}
             N == low - 1 - a.number
  <2>1. a.number \in Nat /\ N \in Nat /\ low <= confirmed_through + 1  BY <1>1, <1>2, <1>4, <1>6
  <2>2. 0 \in S
    <3>1. \A c \in live : c.number + 1 + 0 = c.number + 1  BY <1>1
    <3> QED  BY <1>5, <3>1
  <2>3. \A n \in 1..N : n - 1 \in S => n \in S
    <3> TAKE n \in 1..N
    <3> HAVE n - 1 \in S
    <3>1. ASSUME NEW c \in live, c.number + 1 + n = low
          PROVE  c \in Range(canon)
      <4>1. c.number \in Nat /\ n \in Nat /\ n > 0  BY <1>1, <2>1
      <4>2. c.number + 1 \in c.number..confirmed_through
        BY <1>1, <1>2, <2>1, <3>1, <4>1
      <4>3. PICK d \in live : d.number = c.number + 1  BY <1>4, <4>2
      <4>4. d.number + 1 + (n - 1) = low /\ d.number > 0  BY <1>2, <3>1, <4>1, <4>3
      <4>5. d \in Range(canon)  BY <4>4
      <4>6. GroundedIn(canon, d)  BY <1>1, <4>5, CanonGrounded
      <4>7. c.hash = d.parent_hash  BY <1>4, <4>3
      <4> QED  BY <1>1, <4>4, <4>6, <4>7, ParentIsCanon
    <3>2. n \in Nat  BY <2>1
    <3> QED  BY <3>1, <3>2
  <2> HIDE DEF S
  <2>4. 0..N \subseteq S  BY <2>1, <2>2, <2>3, SetInduction
  <2>5. N \in S /\ a.number + 1 + N = low  BY <1>2, <2>1, <2>4
  <2> QED  BY <2>5 DEF S
<1>7. \A a \in live : a \in Range(canon)
  <2> TAKE a \in live
  <2>1. CASE a.number >= low  BY <1>3, <1>4, <2>1
  <2>2. CASE a.number < low  BY <1>6, <2>2
  <2> QED  BY <1>1, <1>2, <2>1, <2>2
<1>8. \A a \in live : a.number \in start_block..confirmed_through
  BY <1>1 DEF LowInv
<1>9. ASSUME NEW b \in Range(canon), b.number \in start_block..confirmed_through
      PROVE  b \in live
  <2>1. BlockRefAt(b.number) = b /\ b.number \in Nat  BY <1>1, CanonAt
  <2>2. ASSUME NEW a \in live, a.number = b.number  PROVE a = b
    <3>1. a \in Range(canon)  BY <1>7
    <3>2. BlockRefAt(a.number) = a  BY <1>1, <3>1, CanonAt
    <3> QED  BY <2>1, <2>2, <3>2
  <2>3. CASE b.number >= low
    <3>1. b.number \in low..Last(chain).number  BY <1>1, <1>2, <1>4, <1>9, <2>1, <2>3
    <3>2. PICK c \in T!BlockAt(b.number) : TRUE  BY <1>2, <3>1
    <3>3. PICK i \in 1..Len(chain) : c = chain[i]  BY <1>1, <3>2, ChainShape
    <3>4. c.number = b.number  BY <1>1, <3>2, ChainShape
    <3>5. c \in live  BY <1>1, <1>4, <1>9, <2>1, <3>3, <3>4
    <3> QED  BY <2>2, <3>4, <3>5
  <2>4. CASE b.number < low
    <3>1. low > start_block  BY <1>1, <1>2, <1>9, <2>1, <2>4
    <3>2. PICK a \in live : a.number = start_block  BY <3>1 DEF LowInv, low
    <3>3. PICK c \in live : c.number = b.number  BY <1>4, <1>9, <3>2
    <3> QED  BY <2>2, <3>3
  <2> QED  BY <1>2, <2>1, <2>3, <2>4
<1> QED  BY <1>7, <1>8, <1>9

\* Without failures, and with no fork older than the window, the consumer holds exactly
\* the blocks due once a tick has settled: none is missing, and none left that is off
\* the canonical chain or not confirmed, however deep the reorgs between two ticks.
THEOREM SettledIsExact ==
  Undisturbed => (Spec /\ []ForksInWindow => [](NothingSkipped /\ NothingStale))
<1> SUFFICES ASSUME Undisturbed
             PROVE  Spec /\ []ForksInWindow => [](NothingSkipped /\ NothingStale)
  OBVIOUS
<1>1. CalmTicks /\ MidReorg <= Confirmations
  BY TrackerAssumptions DEF Undisturbed, CalmTicks
<1> DEFINE I == FeedInv /\ RunInv /\ FlowInv /\ LowInv
<1>2. Init => I
  <2> SUFFICES ASSUME Init PROVE I  OBVIOUS
  <2>1. RunInv /\ delivered = {} /\ channel \o msgs = <<>> /\ Delivering = {} /\ pc # "transfers"
        /\ LowInv
    BY DEF Init, T!Init, RunInv, Delivering, NoHeight, LowInv
  <2>2. Leads(delivered, channel \o msgs, Delivering)  BY <2>1, LeadsNowhere
  <2> QED  BY <2>1, <2>2, FeedInvInit DEF FlowInv
<1>3. I /\ ForksInWindow /\ [Next]_vars => I'
  BY <1>1, FeedInvNext, RunInvNext, FlowInvNext, LowInvNext
<1>4. I /\ ForksInWindow => NothingSkipped /\ NothingStale
  <2> SUFFICES ASSUME I, ForksInWindow, Settled
               PROVE  delivered = DueBlocks
    BY DEF NothingSkipped, NothingStale
  <2>1. /\ pc = "poll" /\ chain # <<>> /\ channel = <<>> /\ msgs = <<>>
        /\ Last(chain) = Last(canon) /\ start_block = StartBlock
    BY DEF Settled, RunInv
  <2>2. Last(canon) \in Range(canon)
    <3>1. canon \in Seq(Blocks) /\ canon # <<>>
      BY ChainsAssumption DEF FeedInv, TypeInv, BranchInv
    <3>2. Len(canon) \in 1..Len(canon)  BY <3>1
    <3> QED  BY <3>1, <3>2, InRangeOf DEF Last
  <2>3. live = DueBlocks
    BY <2>1, <2>2, LiveIsCanon DEF DueBlocks
  <2>4. Leads(delivered, channel \o msgs, live)  BY <2>1 DEF FlowInv, Delivering
  <2>5. Len(channel \o msgs) = 0  BY <2>1
  <2>6. delivered = live  BY <2>4, <2>5 DEF Leads
  <2> QED  BY <2>3, <2>6
<1> HIDE DEF I
<1> QED  BY <1>2, <1>3, <1>4, PTL DEF Spec

-----------------------------------------------------------------------------
(* A node whose reorgs are no deeper than N, whatever else fails. *)

\* The head never moves down, and N blocks at most are replaced, in mid-tick one.
Shallow ==
  /\ "shrink" \notin Faults
  /\ MaxReorg <= Confirmations /\ MidReorg <= Confirmations /\ MidReorg <= 1

\* b is a block of the chain c and has N blocks on top.
FinalIn(c, b) == b \in Range(c) /\ b.number + Confirmations < Len(c)

InChannel == {b \in Blocks : Confirmed(b) \in Range(channel)}
InMsgs    == {b \in Blocks : Confirmed(b) \in Range(msgs)}

\* The blocks reported as confirmed: those downstream, and those on their way.
Issued == delivered \cup InChannel \cup InMsgs

\* What is reported is final; the tracker is not ahead of the node.
FinalInv ==
  /\ \A b \in live \cup Issued : FinalIn(canon, b)
  /\ chain # <<>> => Last(chain).number <= NodeHead
  /\ pc = "transfers" => update.confirmed \subseteq live

LEMMA ShallowIsCalm ==
  Shallow => CalmTicks /\ MidReorg <= Confirmations
BY FaultsAssumption DEF Shallow, CalmTicks

\* What has N blocks on top stays.
LEMMA FinalMoves ==
  ASSUME Shallow, canon \in Chains, NodeMoves
  PROVE  /\ canon' \in Chains /\ Len(canon') >= Len(canon)
         /\ \A i \in 1..Len(canon) : i + Confirmations <= Len(canon) =>
              i \in 1..Len(canon') /\ canon'[i] = canon[i]
         /\ \A b : FinalIn(canon, b) => FinalIn(canon', b)
<1>1. /\ canon' \in Chains /\ Len(canon') >= Len(canon)
      /\ ReorgDepth(canon, canon') <= MaxReorg \/ ReorgDepth(canon, canon') <= MidReorg
  BY DEF NodeMoves, Shallow
<1>2. /\ Confirmations \in Nat /\ MaxReorg \in Nat /\ MidReorg \in Nat
      /\ MaxReorg <= Confirmations /\ MidReorg <= Confirmations
  BY TrackerAssumptions, FaultsAssumption DEF Shallow
<1>3. canon \in Seq(Blocks) /\ canon' \in Seq(Blocks) /\ Len(canon) \in Nat /\ Len(canon') \in Nat
  BY <1>1, ChainsAssumption
<1>4. ASSUME NEW i \in 1..Len(canon), i + Confirmations <= Len(canon)
      PROVE  i \in 1..Len(canon') /\ canon'[i] = canon[i]
  <2>1. i <= Len(canon) - MaxReorg /\ i <= Len(canon) - MidReorg  BY <1>2, <1>3, <1>4
  <2>2. CASE ReorgDepth(canon, canon') <= MaxReorg
    BY <1>1, <1>2, <2>1, <2>2, CommonPrefix
  <2>3. CASE ReorgDepth(canon, canon') <= MidReorg
    BY <1>1, <1>2, <2>1, <2>3, CommonPrefix
  <2> QED  BY <1>1, <2>2, <2>3
<1>5. ASSUME NEW b, FinalIn(canon, b)  PROVE FinalIn(canon', b)
  <2>1. b \in Range(canon) /\ b.number + Confirmations < Len(canon)  BY <1>5 DEF FinalIn
  <2>2. b.number \in Nat /\ canon[b.number + 1] = b  BY <2>1, CanonAt DEF BlockRefAt
  <2>3. b.number + 1 \in 1..Len(canon) /\ (b.number + 1) + Confirmations <= Len(canon)
    BY <1>2, <1>3, <2>1, <2>2
  <2>4. b.number + 1 \in 1..Len(canon') /\ canon'[b.number + 1] = b  BY <1>4, <2>2, <2>3
  <2>5. b \in Range(canon')  BY <1>3, <2>4, InRangeOf
  <2> QED  BY <1>1, <1>2, <1>3, <2>1, <2>2, <2>5 DEF FinalIn
<1> QED  BY <1>1, <1>4, <1>5

\* So no fork is older than the window.
LEMMA ShallowForks ==
  ASSUME TypeInv, FinalInv
  PROVE  ForksInWindow
<1>1. canon \in Chains /\ TrackerInv /\ NodeHead \in Nat  BY Heights DEF TypeInv, BranchInv
<1>2. ASSUME chain # <<>>  PROVE chain[1].number <= NodeHead
  <2>1. /\ 1 \in 1..Len(chain) /\ Len(chain) \in 1..Len(chain) /\ Last(chain) = chain[Len(chain)]
        /\ chain[1].number <= Last(chain).number
        /\ \A i \in 1..Len(chain) : chain[i].number \in Nat
    BY <1>1, <1>2, ChainShape
  <2> QED  BY <1>1, <1>2, <2>1 DEF FinalInv
<1>3. \A b \in live : b \in Range(canon)  BY DEF FinalInv, FinalIn
<1> QED  BY <1>2, <1>3 DEF ForksInWindow

-----------------------------------------------------------------------------
(* Which blocks an action reports, and which it passes on. *)

LEMMA RangeFacts ==
  ASSUME NEW S, NEW s \in Seq(S)
  PROVE  /\ \A e \in S : Range(Append(s, e)) = Range(s) \cup {e}
         /\ s # <<>> => Range(s) = {Head(s)} \cup Range(Tail(s))
         /\ Range(<<>>) = {}
<1>1. ASSUME NEW e \in S  PROVE Range(Append(s, e)) = Range(s) \cup {e}
  <2> DEFINE t == Append(s, e)
  <2>1. /\ Len(s) \in Nat /\ Len(t) = Len(s) + 1 /\ t \in Seq(S) /\ t[Len(s) + 1] = e
        /\ \A i \in 1..Len(s) : t[i] = s[i]
    OBVIOUS
  <2> HIDE DEF t
  <2>2. ASSUME NEW x  PROVE x \in Range(t) <=> x \in Range(s) \cup {e}
    <3>1. x \in Range(t) <=> \E i \in 1..Len(t) : x = t[i]  BY <2>1, InRangeOf
    <3>2. x \in Range(s) <=> \E i \in 1..Len(s) : x = s[i]  BY InRangeOf
    <3>3. \A i : i \in 1..Len(t) <=> i \in 1..Len(s) \/ i = Len(s) + 1  BY <2>1
    <3> QED  BY <2>1, <3>1, <3>2, <3>3
  <2> QED  BY <2>2 DEF t
<1>2. ASSUME s # <<>>  PROVE Range(s) = {Head(s)} \cup Range(Tail(s))
  <2> DEFINE t == Tail(s)
             h == Head(s)
  <2>1. Len(s) \in Nat /\ Len(s) > 0 /\ Len(t) = Len(s) - 1 /\ t \in Seq(S) /\ s[1] = h
        /\ \A i \in 1..Len(t) : t[i] = s[i + 1]
    BY <1>2
  <2> HIDE DEF t, h
  <2>2. ASSUME NEW x  PROVE x \in Range(s) <=> x = h \/ x \in Range(t)
    <3>1. x \in Range(s) <=> \E i \in 1..Len(s) : x = s[i]  BY InRangeOf
    <3>2. x \in Range(t) <=> \E i \in 1..Len(t) : x = t[i]  BY <2>1, InRangeOf
    <3>3. ASSUME NEW i \in 1..Len(s), x = s[i]  PROVE x = h \/ x \in Range(t)
      <4>1. CASE i = 1  BY <2>1, <3>3, <4>1
      <4>2. CASE i > 1
        <5>1. i - 1 \in 1..Len(t) /\ (i - 1) + 1 = i  BY <2>1, <4>2
        <5>2. x = t[i - 1]  BY <2>1, <3>3, <5>1
        <5> QED  BY <3>2, <5>1, <5>2
      <4> QED  BY <2>1, <4>1, <4>2
    <3>4. ASSUME NEW i \in 1..Len(t), x = t[i]  PROVE x \in Range(s)
      <4>1. i + 1 \in 1..Len(s) /\ x = s[i + 1]  BY <2>1, <3>4
      <4> QED  BY <3>1, <4>1
    <3>5. x = h => x \in Range(s)
      <4>1. 1 \in 1..Len(s)  BY <2>1
      <4> QED  BY <2>1, <3>1, <4>1
    <3> QED  BY <3>1, <3>2, <3>3, <3>4, <3>5
  <2>3. Range(s) = {h} \cup Range(t)  BY <2>2
  <2> QED  BY <2>3 DEF h, t
<1>3. Range(<<>>) = {}  BY DEF Range
<1> QED  BY <1>1, <1>2, <1>3

LEMMA MessageFacts ==
  ASSUME NEW b \in Blocks
  PROVE  /\ Confirmed(b) \in IndexerMessage /\ Confirmed(b).kind = "confirmed" /\ Confirmed(b).block = b
         /\ \A c : Confirmed(c) = Confirmed(b) <=> c = b
         /\ \A o : Confirmed(b) # Reorged(o)
<1>1. \A c : Confirmed(c).block = c /\ Confirmed(c).kind = "confirmed"  BY DEF Confirmed
<1>2. \A o : Reorged(o).kind = "reorged"  BY DEF Reorged
<1> QED  BY <1>1, <1>2 DEF Confirmed, IndexerMessage

\* A message says which kind it is.
LEMMA MessageKinds ==
  ASSUME NEW m \in IndexerMessage
  PROVE  \/ m.kind = "confirmed" /\ m.block \in Blocks /\ m = Confirmed(m.block)
         \/ m.kind = "reorged" /\ m.orphaned \subseteq Blocks /\ m = Reorged(m.orphaned)
BY DEF IndexerMessage, Confirmed, Reorged

\* A call of observe reports no block; its confirmations wait for their transfers.
LEMMA ObserveReports ==
  ASSUME TypeInv, ObserveNext
  PROVE  UNCHANGED <<delivered, InChannel, InMsgs>>
<1>1. /\ UNCHANGED <<delivered, channel>>
      /\ msgs' = IF update'.reorged = {} THEN msgs ELSE Append(msgs, Reorged(update'.reorged))
      /\ msgs \in Seq(IndexerMessage)
  BY DEF ObserveNext, outside, TypeInv, TypeOK
<1>2. CASE update'.reorged # {}
  <2> DEFINE m == Reorged(update'.reorged)
  <2>1. TypeOK'  BY TypesNext DEF TypeInv, Next, Run
  <2>2. m \in IndexerMessage
    <3>1. update'.reorged \subseteq Blocks  BY <2>1 DEF TypeOK, T!TypeOK
    <3> QED  BY <3>1 DEF Reorged, IndexerMessage
  <2>3. \A b \in Blocks : Confirmed(b) # m  BY MessageFacts
  <2> HIDE DEF m
  <2>4. Range(Append(msgs, m)) = Range(msgs) \cup {m}  BY <1>1, <2>2, RangeFacts
  <2>5. msgs' = Append(msgs, m)  BY <1>1, <1>2 DEF m
  <2> QED  BY <1>1, <2>3, <2>4, <2>5 DEF InChannel, InMsgs
<1> QED  BY <1>1, <1>2 DEF InChannel, InMsgs

\* Fetching the transfers reports the one block that was confirmed.
LEMMA FetchReports ==
  ASSUME TypeInv, GroundInv, FetchTransfers
  PROVE  /\ UNCHANGED <<delivered, InChannel>>
         /\ \E c \in Blocks : /\ update.confirmed = {c} /\ InMsgs' = InMsgs \cup {c}
                              /\ msgs' = Append(msgs, Confirmed(c))
<1>1. PICK c \in update.confirmed : update.confirmed = {c} /\ msgs' = msgs \o <<Confirmed(c)>>
  BY FetchedIsConfirmed
<1>2. c \in Blocks /\ msgs \in Seq(IndexerMessage)  BY <1>1 DEF TypeInv, TypeOK, T!TypeOK
<1>3. Confirmed(c) \in IndexerMessage /\ \A b \in Blocks : Confirmed(b) = Confirmed(c) <=> b = c
  BY <1>2, MessageFacts
<1>4. msgs' = Append(msgs, Confirmed(c))
  BY <1>1, <1>2, <1>3, QueueFacts
<1>5. Range(msgs') = Range(msgs) \cup {Confirmed(c)}  BY <1>2, <1>3, <1>4, RangeFacts
<1>6. InMsgs' = InMsgs \cup {c}  BY <1>2, <1>3, <1>5 DEF InMsgs
<1>7. UNCHANGED <<delivered, channel>>  BY DEF FetchTransfers, outside
<1> QED  BY <1>1, <1>2, <1>4, <1>6, <1>7 DEF InChannel

\* Sending moves a message from the poller to the channel.
LEMMA SendPasses ==
  ASSUME TypeInv, Send
  PROVE  /\ InChannel' \cup InMsgs' = InChannel \cup InMsgs
         /\ InMsgs' \subseteq InMsgs /\ InChannel \subseteq InChannel' /\ delivered' = delivered
<1>1. /\ msgs # <<>> /\ channel' = Append(channel, Head(msgs)) /\ msgs' = Tail(msgs)
      /\ delivered' = delivered /\ channel \in Seq(IndexerMessage) /\ msgs \in Seq(IndexerMessage)
  BY DEF Send, TypeInv, TypeOK
<1>2. Range(msgs) = {Head(msgs)} \cup Range(msgs')  BY <1>1, RangeFacts
<1>3. Head(msgs) \in IndexerMessage  BY <1>1
<1>4. Range(channel') = Range(channel) \cup {Head(msgs)}  BY <1>1, <1>3, RangeFacts
<1> QED  BY <1>1, <1>2, <1>4 DEF InChannel, InMsgs

\* Receiving moves one from the channel downstream, or retracts.
LEMMA ReceivePasses ==
  ASSUME TypeInv, Receive
  PROVE  /\ UNCHANGED InMsgs /\ InChannel' \subseteq InChannel /\ delivered' \subseteq delivered \cup InChannel
         /\ InChannel \subseteq InChannel' \cup delivered'
         /\ \/ Head(channel).kind = "reorged"
            \/ delivered \subseteq delivered'
<1>1. /\ channel # <<>> /\ channel' = Tail(channel) /\ msgs' = msgs
      /\ delivered' = Applied(delivered, Head(channel)) /\ channel \in Seq(IndexerMessage)
  BY DEF Receive, TypeInv, TypeOK
<1> DEFINE m == Head(channel)
<1>2. Range(channel) = {m} \cup Range(channel') /\ m \in IndexerMessage  BY <1>1, RangeFacts
<1> HIDE DEF m
<1>3. CASE m.kind = "confirmed" /\ m.block \in Blocks /\ m = Confirmed(m.block)
  <2>1. delivered' = delivered \cup {m.block}  BY <1>1, <1>3 DEF Applied, m
  <2>2. \A b \in Blocks : Confirmed(b) = m <=> b = m.block  BY <1>3, MessageFacts
  <2> QED  BY <1>1, <1>2, <1>3, <2>1, <2>2 DEF InChannel, InMsgs
<1>4. CASE m.kind = "reorged" /\ m = Reorged(m.orphaned)
  <2>1. delivered' \subseteq delivered  BY <1>1, <1>4 DEF Applied, m
  <2>2. \A b \in Blocks : Confirmed(b) # m  BY <1>4, MessageFacts
  <2> QED  BY <1>1, <1>2, <1>4, <2>1, <2>2 DEF InChannel, InMsgs, m
<1> QED  BY <1>2, <1>3, <1>4, MessageKinds

\* What is dropped is not reported any more.
LEMMA DroppedMessages ==
  /\ msgs' = <<>> => InMsgs' = {}
  /\ channel' = <<>> => InChannel' = {}
  /\ msgs = <<>> => InMsgs = {}
  /\ channel = <<>> => InChannel = {}
<1>1. Range(<<>>) = {}  BY DEF Range
<1> QED  BY <1>1 DEF InMsgs, InChannel

\* Only where transfers are fetched is a block reported.
LEMMA IssuedOnce ==
  ASSUME TypeInv, [Next]_vars, ~FetchTransfers
  PROVE  Issued' \subseteq Issued
<1>1. CASE UNCHANGED <<delivered, channel, msgs>>
  BY <1>1 DEF Issued, InChannel, InMsgs
<1>2. CASE PollHead \/ FetchNext \/ RecheckHead \/ WalkBack \/ Save \/ Sleep \/ Resume \/ NodeMoves \/ UNCHANGED vars
  BY <1>1, <1>2 DEF PollHead, FetchNext, RecheckHead, WalkBack, Save, Sleep, Resume, NodeMoves, vars, outside
<1>3. CASE ObserveNext  BY <1>3, ObserveReports DEF Issued
<1>4. CASE Send  BY <1>4, SendPasses DEF Issued
<1>5. CASE Receive  BY <1>5, ReceivePasses DEF Issued
<1>6. CASE SendRefused \/ Fail \/ Crash
  <2>1. delivered' = delivered /\ msgs' = <<>> /\ (channel' = channel \/ channel' = <<>>)
    BY <1>6 DEF SendRefused, Fail, Crash, Stop, outside
  <2>2. InMsgs' = {} /\ (channel' = <<>> => InChannel' = {})  BY <2>1, DroppedMessages
  <2>3. channel' = channel => InChannel' = InChannel  BY DEF InChannel
  <2> QED  BY <2>1, <2>2, <2>3 DEF Issued
<1>7. CASE Hangup
  <2>1. delivered' = delivered /\ msgs' = msgs /\ channel' = <<>>  BY <1>7 DEF Hangup
  <2>2. InMsgs' = InMsgs  BY <2>1 DEF InMsgs
  <2> QED  BY <2>1, <2>2, DroppedMessages DEF Issued
<1> QED  BY <1>2, <1>3, <1>4, <1>5, <1>6, <1>7 DEF Next, Run

-----------------------------------------------------------------------------
(* What is reported is final. *)

\* What a call of observe adds to the chain and to what is live.
LEMMA ObserveGains ==
  ASSUME TrackerInv, NEW b \in Blocks, T!Observe(b)
  PROVE  /\ Range(chain') \subseteq Range(chain) \cup {b}
         /\ live' = (live \ update'.reorged) \cup update'.confirmed
         /\ \A c \in update'.confirmed : c.number \in Nat /\ c.number + Confirmations <= b.number
<1>1. P!Observe(b) /\ P!TypeOK  BY SameObserve DEF TrackerInv, P!AnyInv
<1>2. PICK k \in 0..Len(chain) : P!ObserveAt(k, b)  BY <1>1, TrackerAssumed, P!ObserveSplits
<1>3. PICK cut \in 0..k :
        /\ chain' \in Seq(Blocks) /\ Len(chain') = k + 1 - cut
        /\ \A i \in 1..Len(chain') : chain'[i] = P!Held(k, b)[i + cut]
  BY <1>1, <1>2, TrackerAssumed, P!ChainAfter
<1>4. chain \in Seq(Blocks) /\ Len(chain) \in Nat /\ b.number \in Nat /\ Confirmations \in Nat
  BY <1>1, TrackerAssumptions DEF P!TypeOK, T!BlockRef
<1>5. /\ P!Held(k, b) \in Seq(Blocks) /\ Len(P!Held(k, b)) = k + 1
      /\ \A j \in 1..k : P!Held(k, b)[j] = chain[j]
      /\ P!Held(k, b)[k + 1] = b
  BY <1>4, TrackerAssumed, P!HeldFacts
<1>6. ASSUME NEW x \in Range(chain')  PROVE x \in Range(chain) \cup {b}
  <2>1. PICK i \in 1..Len(chain') : x = chain'[i]  BY <1>3, InRangeOf
  <2>2. x = P!Held(k, b)[i + cut] /\ i + cut \in 1..(k + 1)  BY <1>3, <2>1
  <2>3. CASE i + cut = k + 1  BY <1>5, <2>2, <2>3
  <2>4. CASE i + cut \in 1..k
    <3>1. x = chain[i + cut] /\ i + cut \in 1..Len(chain)  BY <1>4, <1>5, <2>2, <2>4
    <3>2. x \in Range(chain)  BY <1>4, <3>1, InRangeOf
    <3> QED  BY <3>2
  <2> QED  BY <2>2, <2>3, <2>4
<1>7. live' = (live \ update'.reorged) \cup update'.confirmed /\ update'.confirmed = P!RipeAt(k, b)
  BY <1>2 DEF P!ObserveAt
<1>8. ASSUME NEW c \in update'.confirmed
      PROVE  c.number \in Nat /\ c.number + Confirmations <= b.number
  <2> DEFINE held == P!Held(k, b)
  <2>1. PICK j \in 1..Len(held) :
          c = held[j] /\ held[j].number \in (P!Mark(k) + 1)..(b.number - Confirmations)
    BY <1>7 DEF P!RipeAt, P!Ripe
  <2>2. c \in Blocks  BY <1>5, <2>1, ElementOfSeq
  <2> HIDE DEF held
  <2>3. c.number \in Nat  BY <2>2, TrackerAssumptions DEF T!BlockRef
  <2>4. P!Mark(k) \in Int  BY <1>1, TrackerAssumed, P!MarkFacts
  <2> QED  BY <1>4, <2>1, <2>3, <2>4
<1> QED  BY <1>6, <1>7, <1>8

LEMMA FinalInvNext ==
  ASSUME Shallow, FeedInv, FinalInv, [Next]_vars
  PROVE  FinalInv'
<1> USE DEF FeedInv
<1>1. canon \in Chains /\ TrackerInv /\ branch \in Seq(Blocks) /\ NodeHead \in Nat /\ Len(canon) \in Nat
  BY Heights, ChainsAssumption DEF TypeInv, BranchInv
<1>2. CalmTicks /\ MidReorg <= Confirmations  BY ShallowIsCalm
<1>3. ASSUME UNCHANGED <<chain, live, canon, update>>, ~FetchTransfers,
             pc' = "transfers" => pc = "transfers"
      PROVE  FinalInv'
  <2>1. Issued' \subseteq Issued  BY <1>3, IssuedOnce
  <2>2. NodeHead' = NodeHead  BY <1>3 DEF NodeHead
  <2> QED  BY <1>3, <2>1, <2>2 DEF FinalInv
<1>4. CASE PollHead
  <2>1. pc' # "transfers" /\ pc # "transfers" /\ UNCHANGED <<chain, live, canon, update>>
    BY <1>4 DEF PollHead, ColdStart, HeadGrew, HeadDidNotGrow, tracker, outside
  <2> QED  BY <1>3, <2>1 DEF FetchTransfers
<1>5. CASE FetchNext \/ RecheckHead \/ WalkBack \/ Save \/ Send \/ Sleep \/ Resume
  <2>1. pc' # "transfers" /\ pc # "transfers" /\ UNCHANGED <<chain, live, canon, update>>
    BY <1>5 DEF FetchNext, RecheckHead, WalkBack, Save, Send, Sleep, Resume, tracker, outside
  <2> QED  BY <1>3, <2>1 DEF FetchTransfers
<1>6. CASE Receive \/ Hangup \/ UNCHANGED vars
  <2>1. UNCHANGED <<pc, chain, live, canon, update, msgs>>
    BY <1>6 DEF Receive, Hangup, vars, tracker, outside
  <2>2. CASE FetchTransfers
    <3>1. \E c \in Blocks : msgs' = Append(msgs, Confirmed(c))  BY <2>2, FetchReports
    <3>2. msgs \in Seq(IndexerMessage)  BY DEF TypeInv, TypeOK
    <3>3. ASSUME NEW c \in Blocks  PROVE msgs # Append(msgs, Confirmed(c))
      <4>1. Confirmed(c) \in IndexerMessage  BY MessageFacts
      <4> QED  BY <3>2, <4>1
    <3> QED  BY <2>1, <3>1, <3>3
  <2> QED  BY <1>3, <2>1, <2>2
<1>7. CASE ObserveNext
  <2> DEFINE fed == Last(branch)
  <2>1. /\ T!Observe(fed) /\ canon' = canon /\ branch # <<>>
        /\ pc \in {"walk", "observe"}
    BY <1>7 DEF ObserveNext, outside, TypeInv, BranchInv
  <2>2. fed \in Blocks /\ Len(branch) \in 1..Len(branch) /\ fed = branch[Len(branch)]
    BY <1>1, <2>1, FrontBlocks DEF Last
  <2>3. GroundedIn(canon, fed) /\ fed.number <= NodeHead
    BY <2>1, <2>2 DEF GroundInv, TickInv
  <2>4. chain' # <<>> /\ Last(chain') = fed  BY <1>1, <2>1, <2>2, ObserveOnTop
  <2> HIDE DEF fed
  <2>5. /\ live' = (live \ update'.reorged) \cup update'.confirmed
        /\ \A c \in update'.confirmed : c.number \in Nat /\ c.number + Confirmations <= fed.number
    BY <1>1, <2>1, <2>2, ObserveGains
  <2>6. \A c \in update'.confirmed : FinalIn(canon, c)
    <3> TAKE c \in update'.confirmed
    <3>1. c \in Range(canon)  BY <1>1, <1>2, <2>1, <2>2, <2>3, ConfirmedIsCanon
    <3>2. fed.number \in Nat /\ Confirmations \in Nat  BY <2>2, TrackerAssumptions DEF T!BlockRef
    <3>3. c.number + Confirmations < Len(canon)
      BY <1>1, <2>3, <2>5, <3>2 DEF NodeHead
    <3> QED  BY <3>1, <3>3 DEF FinalIn
  <2>7. Issued' = Issued  BY <1>7, ObserveReports DEF Issued
  <2>8. NodeHead' = NodeHead  BY <2>1 DEF NodeHead
  <2> QED  BY <2>1, <2>3, <2>4, <2>5, <2>6, <2>7, <2>8 DEF FinalInv
<1>8. CASE FetchTransfers
  <2>1. pc = "transfers" /\ UNCHANGED <<chain, live, canon, update>>
    BY <1>8 DEF FetchTransfers, tracker, outside
  <2>2. Issued' \subseteq Issued \cup update.confirmed  BY <1>8, FetchReports DEF Issued
  <2>3. NodeHead' = NodeHead  BY <2>1 DEF NodeHead
  <2> QED  BY <2>1, <2>2, <2>3 DEF FinalInv
<1>9. CASE SendRefused \/ Fail \/ Crash
  <2>1. chain' = <<>> /\ live' = {} /\ canon' = canon /\ pc' = "down" /\ msgs' = <<>>
    BY <1>9 DEF SendRefused, Fail, Crash, Stop, outside
  <2>2. ~FetchTransfers  BY <2>1 DEF FetchTransfers, AfterObserve
  <2>3. Issued' \subseteq Issued  BY <2>2, IssuedOnce
  <2> QED  BY <2>1, <2>3 DEF FinalInv
<1>10. CASE NodeMoves
  <2>1. UNCHANGED <<chain, live, update, pc, delivered, channel, msgs>>
    BY <1>10 DEF NodeMoves, tracker
  <2>2. Issued' = Issued  BY <2>1 DEF Issued, InChannel, InMsgs
  <2>3. /\ Len(canon') >= Len(canon) /\ canon' \in Chains
        /\ \A b : FinalIn(canon, b) => FinalIn(canon', b)
    BY <1>1, <1>10, FinalMoves
  <2>4. NodeHead' >= NodeHead /\ NodeHead' \in Int
    <3>1. Len(canon') \in Nat  BY <2>3, ChainsAssumption
    <3> QED  BY <1>1, <2>3, <3>1 DEF NodeHead
  <2>5. chain # <<>> => Last(chain).number \in Nat
    <3> HAVE chain # <<>>
    <3>1. Last(chain) = chain[Len(chain)] /\ Len(chain) \in 1..Len(chain)
          /\ \A i \in 1..Len(chain) : chain[i].number \in Nat
      BY <1>1, ChainShape
    <3> QED  BY <3>1
  <2>6. chain' # <<>> => Last(chain').number <= NodeHead'
    BY <1>1, <2>1, <2>4, <2>5 DEF FinalInv
  <2> QED  BY <2>1, <2>2, <2>3, <2>6 DEF FinalInv
<1> QED
  BY <1>4, <1>5, <1>6, <1>7, <1>8, <1>9, <1>10 DEF Next, Run

-----------------------------------------------------------------------------
(* The blocks read do not contradict those reported. *)

Feeding == pc \in {"walk", "observe", "transfers"}

\* A retained block is the one reported at its height, if one was. A block to feed is
\* not retained; it is canonical, or above all that was reported.
ReadInv ==
  /\ \A d \in Issued, x \in Range(chain) : x.number = d.number => x = d
  /\ Feeding => \A x \in Range(branch) :
       /\ x \notin Range(chain)
       /\ x \in Range(canon) \/ \A d \in Issued : d.number < x.number

\* The heights of the blocks to feed.
LEMMA BranchHeights ==
  ASSUME TypeInv, TickInv, Feeding, branch # <<>>
  PROVE  \A i \in 1..Len(branch) : /\ branch[i] \in Blocks /\ branch[i].number \in Nat
                                   /\ branch[i].number = Last(branch).number + (Len(branch) - i)
<1>1. branch \in Seq(Blocks) /\ Len(branch) \in Nat /\ Len(branch) > 0
  BY DEF TypeInv, BranchInv
<1>2. \A i \in 1..Len(branch) : branch[i] \in Blocks /\ branch[i].number \in Nat
  <2>1. \A i \in 1..Len(branch) : branch[i] \in Blocks  BY <1>1
  <2> QED  BY <2>1, TrackerAssumptions DEF T!BlockRef
<1>3. ASSUME NEW i \in 1..Len(branch), NEW j \in 1..Len(branch), j = i + 1
      PROVE  branch[i].number = branch[j].number + 1
  <2>1. T!AttachesTo(branch[j], branch[i])  BY <1>3 DEF TickInv, Feeding
  <2> QED  BY <2>1 DEF T!AttachesTo
<1> DEFINE L == Len(branch)
           top == Last(branch).number
           S == {n \in Nat : n < L => branch[L - n].number = top + n}
<1>4. L \in Nat /\ L > 0 /\ L - 1 \in Nat /\ top = branch[L].number /\ top \in Nat
  <2>1. L \in 1..Len(branch)  BY <1>1
  <2> QED  BY <1>1, <1>2, <2>1 DEF Last
<1> HIDE DEF L, top
<1>5. 0 \in S  BY <1>4
<1>6. \A n \in 1..(L - 1) : n - 1 \in S => n \in S
  <2> TAKE n \in 1..(L - 1)
  <2> HAVE n - 1 \in S
  <2>1. /\ L - n \in 1..Len(branch) /\ L - (n - 1) \in 1..Len(branch) /\ L - (n - 1) = (L - n) + 1
        /\ n - 1 < L /\ n \in Nat
    BY <1>4 DEF L
  <2>2. branch[L - (n - 1)].number = top + (n - 1)  BY <2>1
  <2>3. branch[L - n].number = branch[L - (n - 1)].number + 1  BY <1>3, <2>1
  <2> QED  BY <1>4, <2>1, <2>2, <2>3
<1> HIDE DEF S
<1>7. 0..(L - 1) \subseteq S  BY <1>4, <1>5, <1>6, SetInduction
<1>8. ASSUME NEW i \in 1..Len(branch)
      PROVE  branch[i].number = Last(branch).number + (Len(branch) - i)
  <2>1. L - i \in 0..(L - 1) /\ L - (L - i) = i /\ L - i < L  BY <1>4 DEF L
  <2>2. L - i \in S  BY <1>7, <2>1
  <2>3. branch[i].number = top + (L - i)  BY <2>1, <2>2 DEF S
  <2> QED  BY <2>3 DEF L, top
<1> QED  BY <1>2, <1>8

\* A live block and a retained one of the same height are the same.
LEMMA LiveIsRetained ==
  ASSUME TrackerInv, P!ContractInv, NEW c \in live, NEW x \in Range(chain), x.number = c.number
  PROVE  x = c
<1>1. chain \in Seq(Blocks)  BY ChainShape
<1>2. PICK i \in 1..Len(chain) : x = chain[i]  BY <1>1, InRangeOf
<1>3. chain # <<>> /\ 1 \in 1..Len(chain) /\ Len(chain) \in Nat  BY <1>1, <1>2
<1>4. /\ \A a, b \in 1..Len(chain) : chain[b].number - chain[a].number = b - a
      /\ \A a \in 1..Len(chain) : chain[a].number \in Nat
  BY ChainShape
<1>5. chain[i].number >= chain[1].number
  <2>1. chain[i].number - chain[1].number = i - 1  BY <1>3, <1>4
  <2> QED  BY <1>3, <1>4, <2>1
<1>6. PICK j \in 1..Len(chain) : chain[j] = c
  BY <1>2, <1>3, <1>5 DEF P!ContractInv, P!LiveInChain
<1>7. i = j
  <2>1. chain[i].number - chain[j].number = i - j  BY <1>4
  <2> QED  BY <1>2, <1>3, <1>4, <1>6, <2>1
<1> QED  BY <1>2, <1>6, <1>7

\* What is live lies below what is still to be fed.
LEMMA LiveIsBelow ==
  ASSUME FeedInv, pc \in {"observe", "transfers"}, NEW c \in live, NEW x \in Range(branch)
  PROVE  c.number < x.number
<1> USE DEF FeedInv
<1>1. branch \in Seq(Blocks) /\ TrackerInv  BY DEF TypeInv, BranchInv
<1>2. PICK i \in 1..Len(branch) : x = branch[i]  BY <1>1, InRangeOf
<1>3. branch # <<>> /\ Len(branch) \in Nat /\ Len(branch) \in 1..Len(branch)  BY <1>1, <1>2
<1>4. chain # <<>> /\ Last(chain).number + 1 = Last(branch).number
  BY <1>3 DEF TickInv, T!AttachesTo
<1>5. x.number = Last(branch).number + (Len(branch) - i) /\ x.number \in Nat
  BY <1>2, <1>3, BranchHeights DEF Feeding
<1>6. confirmed_through <= Last(chain).number
  BY <1>4 DEF P!ContractInv, P!WatermarkBelowHead, Last
<1>7. c.number \in Nat /\ c.number <= confirmed_through /\ confirmed_through \in Int
  BY LiveChain
<1>8. Last(chain).number \in Nat
  <2>1. Last(chain) = chain[Len(chain)] /\ Len(chain) \in 1..Len(chain)
        /\ \A a \in 1..Len(chain) : chain[a].number \in Nat
    BY <1>1, <1>4, ChainShape
  <2> QED  BY <2>1
<1> QED  BY <1>2, <1>3, <1>4, <1>5, <1>6, <1>7, <1>8

\* No block that was reported is orphaned.
LEMMA OrphansUnreported ==
  ASSUME FeedInv, FinalInv, ReadInv, ObserveNext,
         NEW o \in update'.reorged, NEW d \in Issued
  PROVE  o.number # d.number
<1> USE DEF FeedInv
<1> SUFFICES ASSUME o.number = d.number PROVE FALSE
  OBVIOUS
<1> DEFINE b == Last(branch)
<1>1. canon \in Chains /\ TrackerInv /\ branch \in Seq(Blocks) /\ branch # <<>> /\ Feeding
  BY DEF ObserveNext, TypeInv, BranchInv, Feeding
<1>2. b \in Blocks /\ b \in Range(branch) /\ b.number \in Nat
  <2>1. Len(branch) \in 1..Len(branch) /\ b = branch[Len(branch)]  BY <1>1 DEF Last
  <2>2. b \in Blocks /\ b \in Range(branch)  BY <1>1, <2>1, InRangeOf
  <2> QED  BY <2>2, TrackerAssumptions DEF T!BlockRef
<1>3. T!Observe(b) /\ T!FedUnderContract(b)
  BY ShallowForks, FedRight DEF ObserveNext
<1> HIDE DEF b
<1>4. P!Observe(b) /\ P!FedUnderContract(b) /\ P!AnyInv
  BY <1>3, SameObserve, SameContract DEF TrackerInv, TypeInv
<1>5. PICK k \in 0..Len(chain) : P!ObserveAt(k, b)  BY <1>4, TrackerAssumed, P!ObserveSplits
<1>6. PICK i \in (k + 1)..Len(chain) : o = chain[i]
  BY <1>5 DEF P!ObserveAt, P!Orphaned
<1>7. /\ chain \in Seq(Blocks) /\ Len(chain) \in Nat
      /\ \A m, n \in 1..Len(chain) : chain[n].number - chain[m].number = n - m
      /\ \A m \in 1..Len(chain) : chain[m] \in Blocks /\ chain[m].number \in Nat
  BY <1>1, ChainShape
<1>8. i \in 1..Len(chain) /\ k + 1 \in 1..Len(chain) /\ k < Len(chain) /\ k + 1 <= i /\ k \in Nat /\ i \in Nat
  BY <1>6, <1>7
<1>9. chain[k + 1].number = b.number
  <2>1. P!StopsAt(k, b)  BY <1>5 DEF P!ObserveAt
  <2> QED  BY <1>2, <1>4, <1>8, <2>1, TrackerAssumed, P!FedHeight
<1>10. chain[i] = d
  <2>1. o \in Range(chain)  BY <1>6, <1>7, <1>8, InRangeOf
  <2> QED  BY <1>6, <2>1 DEF ReadInv
<1>11. chain[i] \in Range(canon)  BY <1>10 DEF FinalInv, FinalIn
<1>12. ASSUME NEW m \in 1..Len(chain), NEW n \in 1..Len(chain), n = m + 1
       PROVE  chain[m].hash = chain[n].parent_hash /\ chain[n].number > 0
  <2>1. chain[m].number + 1 = chain[n].number /\ chain[m].hash = chain[n].parent_hash
    BY <1>1, <1>12, ChainShape
  <2>2. chain[m].number \in Nat  BY <1>7
  <2>3. \A x \in Nat : \A z : x + 1 = z => z > 0  OBVIOUS
  <2> QED  BY <2>1, <2>2, <2>3
<1>13. \A m \in 1..i : chain[m] \in Range(canon)
  BY <1>1, <1>7, <1>8, <1>11, <1>12, CanonBelow
<1> DEFINE y == chain[k + 1]
<1>14. y \in Range(canon) /\ y \in Range(chain) /\ y.number = b.number
  <2>1. k + 1 \in 1..i  BY <1>8
  <2>2. y \in Range(chain)  BY <1>7, <1>8, InRangeOf
  <2> QED  BY <1>9, <1>13, <2>1, <2>2
<1>15. b.number <= d.number
  <2>1. chain[i].number - chain[k + 1].number = i - (k + 1)  BY <1>7, <1>8
  <2>2. chain[i].number \in Nat  BY <1>7, <1>8
  <2> QED  BY <1>2, <1>8, <1>9, <1>10, <2>1, <2>2
<1>16. d.number \in Nat  BY <1>7, <1>8, <1>10
<1> HIDE DEF y
<1>17. CASE b \in Range(canon)
  <2>1. BlockRefAt(b.number) = b /\ BlockRefAt(y.number) = y  BY <1>1, <1>14, <1>17, CanonAt
  <2>2. b = y  BY <1>14, <2>1
  <2> QED  BY <1>1, <1>2, <1>14, <2>2 DEF ReadInv
<1>18. CASE d.number < b.number
  BY <1>2, <1>15, <1>16, <1>18
<1> QED  BY <1>1, <1>2, <1>17, <1>18 DEF ReadInv

LEMMA ReadInvNext ==
  ASSUME Shallow, FeedInv, FinalInv, ReadInv, [Next]_vars
  PROVE  ReadInv'
<1> USE DEF FeedInv
<1>1. /\ canon \in Chains /\ TrackerInv /\ branch \in Seq(Blocks) /\ chain \in Seq(Blocks)
      /\ NodeHead \in Nat /\ next \in Nat /\ head_num \in Nat
  BY Heights, ChainShape DEF TypeInv, TypeOK, BranchInv
<1>2. ~FetchTransfers => Issued' \subseteq Issued  BY IssuedOnce
<1>3. ASSUME UNCHANGED <<chain, branch, canon>>, ~FetchTransfers, Feeding' => Feeding
      PROVE  ReadInv'
  BY <1>2, <1>3 DEF ReadInv
\* One more block has been read: it is canonical.
<1>4. ASSUME UNCHANGED <<chain, canon>>, ~FetchTransfers, NEW x, x \in Range(canon), x \notin Range(chain),
             \A z \in Range(branch') : z = x \/ (Feeding /\ z \in Range(branch))
      PROVE  ReadInv'
  BY <1>2, <1>4 DEF ReadInv
<1>5. CASE PollHead
  <2>1. UNCHANGED <<chain, branch, canon>> /\ pc = "poll" /\ pc' \notin {"walk", "observe", "transfers"}
    BY <1>5 DEF PollHead, ColdStart, HeadGrew, HeadDidNotGrow, tracker, outside
  <2> QED  BY <1>3, <2>1 DEF Feeding, FetchTransfers
<1>6. CASE Save \/ Send \/ Sleep \/ Resume
  <2>1. /\ UNCHANGED <<chain, branch, canon>> /\ pc # "transfers"
        /\ pc' \notin {"walk", "observe", "transfers"}
    BY <1>6 DEF Save, Send, Sleep, Resume, tracker, tick, outside
  <2> QED  BY <1>3, <2>1 DEF Feeding, FetchTransfers
<1>7. CASE Receive \/ Hangup \/ UNCHANGED vars
  <2>1. UNCHANGED <<chain, branch, canon, pc>>
    BY <1>7 DEF Receive, Hangup, vars, tracker, tick, outside
  <2>2. FetchTransfers => pc' # "transfers" /\ pc = "transfers"
    BY DEF FetchTransfers, AfterObserve
  <2> QED  BY <1>3, <2>1, <2>2 DEF Feeding
<1>8. CASE FetchNext
  <2> DEFINE x == BlockRefAt(next)
  <2>1. /\ pc = "fetch" /\ Known(next) /\ branch' = <<x>> /\ UNCHANGED <<chain, canon>>
    BY <1>8 DEF FetchNext, tracker, outside
  <2>2. x \in Range(canon) /\ x \in Blocks /\ x.number = next
    BY <1>1, <2>1, ReadFacts, ReadIsCanon
  <2>3. x \notin Range(chain)
    <3> SUFFICES ASSUME NEW i \in 1..Len(chain), x = chain[i] PROVE FALSE
      BY <1>1, InRangeOf
    <3> HIDE DEF x
    <3>1. chain # <<>> /\ Len(chain) \in Nat  BY <1>1
    <3>2. /\ Len(chain) \in 1..Len(chain) /\ Last(chain) = chain[Len(chain)]
          /\ chain[Len(chain)].number - chain[i].number = Len(chain) - i
          /\ chain[Len(chain)].number \in Nat
      BY <1>1, <3>1, ChainShape
    <3>3. Last(chain).number = next - 1  BY <2>1, <3>1 DEF TickInv
    <3> QED  BY <1>1, <2>2, <3>1, <3>2, <3>3
  <2> HIDE DEF x
  <2>4. \A z \in Range(branch') : z = x
    <3>1. Len(branch') = 1 /\ branch'[1] = x /\ branch' \in Seq(Blocks)  BY <2>1, <2>2
    <3> QED  BY <3>1, InRangeOf
  <2>5. ~FetchTransfers  BY <2>1 DEF FetchTransfers
  <2> QED  BY <1>4, <2>1, <2>2, <2>3, <2>4, <2>5
<1>9. CASE RecheckHead
  <2> DEFINE x == BlockRefAt(head_num)
  <2>1. /\ pc = "recheck" /\ Known(head_num) /\ UNCHANGED <<chain, canon>>
        /\ \/ pc' = "save" /\ branch' = branch
           \/ ~Unchanged(x) /\ branch' = <<x>>
    BY <1>9 DEF RecheckHead, tracker, outside
  <2>2. x \in Range(canon) /\ x \in Blocks /\ x.number = head_num
    BY <1>1, <2>1, ReadFacts, ReadIsCanon
  <2>3. ~FetchTransfers  BY <2>1 DEF FetchTransfers
  <2>4. CASE pc' = "save" /\ branch' = branch
    BY <1>3, <2>1, <2>3, <2>4 DEF Feeding
  <2>5. CASE ~Unchanged(x) /\ branch' = <<x>>
    <3>1. x \notin Range(chain)
      <4> SUFFICES ASSUME NEW i \in 1..Len(chain), x = chain[i] PROVE FALSE
        BY <1>1, InRangeOf
      <4>1. x \in T!BlockAt(head_num)  BY <2>2 DEF T!BlockAt
      <4> QED  BY <2>5, <4>1 DEF Unchanged
    <3> HIDE DEF x
    <3>2. \A z \in Range(branch') : z = x
      <4>1. Len(branch') = 1 /\ branch'[1] = x /\ branch' \in Seq(Blocks)  BY <2>2, <2>5
      <4> QED  BY <4>1, InRangeOf
    <3> QED  BY <1>4, <2>1, <2>2, <2>3, <3>1, <3>2
  <2> QED  BY <2>1, <2>4, <2>5
<1>10. CASE WalkBack
  <2> DEFINE tip == Last(branch)
             x   == BlockRefAt(tip.number - 1)
  <2>1. /\ pc = "walk" /\ ~Connects(tip) /\ Known(tip.number - 1) /\ branch' = Append(branch, x)
        /\ UNCHANGED <<chain, canon>> /\ branch # <<>>
    BY <1>10 DEF WalkBack, tracker, outside, TypeInv, BranchInv
  <2>2. x \in Range(canon) /\ x \in Blocks /\ x.number = tip.number - 1
    BY <1>1, <2>1, ReadFacts, ReadIsCanon
  <2>3. tip.number \in Nat /\ tip.number > 0
    <3>1. tip \in Blocks  BY <1>1, <2>1, FrontBlocks
    <3>2. tip.number \in Nat  BY <3>1, TrackerAssumptions DEF T!BlockRef
    <3> QED  BY <2>1, <3>2 DEF Connects
  <2>4. x.hash = tip.parent_hash
    <3>1. tip.parent_hash = canon[tip.number].hash  BY <2>1, <2>3 DEF TickInv, WalkInv
    <3>2. (tip.number - 1) + 1 = tip.number  BY <2>3
    <3> QED  BY <3>1, <3>2 DEF BlockRefAt
  <2>5. x \notin Range(chain)
    <3> SUFFICES ASSUME NEW i \in 1..Len(chain), x = chain[i] PROVE FALSE
      BY <1>1, InRangeOf
    <3>1. x \in T!BlockAt(tip.number - 1)  BY <2>2 DEF T!BlockAt
    <3> QED  BY <2>1, <2>4, <3>1 DEF Connects
  <2> HIDE DEF tip, x
  <2>6. Range(branch') = Range(branch) \cup {x}  BY <1>1, <2>1, <2>2, RangeFacts
  <2>7. Feeding /\ ~FetchTransfers  BY <2>1 DEF Feeding, FetchTransfers
  <2> QED  BY <1>4, <2>1, <2>2, <2>5, <2>6, <2>7
<1>11. CASE ObserveNext
  <2> DEFINE b == Last(branch)
             rest == Front(branch)
  <2>1. /\ T!Observe(b) /\ branch' = rest /\ canon' = canon /\ branch # <<>>
        /\ pc \in {"walk", "observe"}
    BY <1>11 DEF ObserveNext, outside, TypeInv, BranchInv
  <2>2. /\ b \in Blocks /\ Len(rest) = Len(branch) - 1 /\ Len(branch) \in Nat
        /\ rest \in Seq(Blocks) /\ \A i \in 1..Len(rest) : rest[i] = branch[i]
        /\ Len(branch) \in 1..Len(branch) /\ b = branch[Len(branch)]
    BY <1>1, <2>1, FrontFacts, FrontBlocks DEF Last
  <2>3. b \in Range(branch)  BY <1>1, <2>2, InRangeOf
  <2>4. Issued' = Issued  BY <1>11, ObserveReports DEF Issued
  <2>5. Range(chain') \subseteq Range(chain) \cup {b}
    BY <1>1, <2>1, <2>2, ObserveGains
  <2>6. ASSUME NEW z \in Range(rest)  PROVE z \in Range(branch) /\ z # b
    <3>1. PICK i \in 1..Len(rest) : z = rest[i]  BY <2>2, InRangeOf
    <3>2. i \in 1..Len(branch) /\ z = branch[i] /\ i < Len(branch)  BY <2>2, <3>1
    <3>3. /\ branch[i].number = b.number + (Len(branch) - i)
          /\ b.number \in Nat
      BY <2>1, <2>2, <3>2, BranchHeights DEF Feeding
    <3>4. branch[i].number # b.number  BY <2>2, <3>2, <3>3
    <3> QED  BY <1>1, <3>2, <3>4, InRangeOf
  <2> HIDE DEF b, rest
  <2>7. \A d \in Issued : b.number = d.number => b = d
    <3> TAKE d \in Issued
    <3> HAVE b.number = d.number
    <3>1. d \in Range(canon)  BY DEF FinalInv, FinalIn
    <3>2. BlockRefAt(d.number) = d /\ d.number \in Nat  BY <1>1, <3>1, CanonAt
    <3>3. b \in Range(canon)
      <4>1. ~(d.number < b.number)  BY <3>2
      <4> QED  BY <2>1, <2>3, <4>1 DEF ReadInv, Feeding
    <3>4. BlockRefAt(b.number) = b  BY <1>1, <3>3, CanonAt
    <3> QED  BY <3>2, <3>4
  <2>8. \A d \in Issued, x \in Range(chain') : x.number = d.number => x = d
    BY <2>5, <2>7 DEF ReadInv
  <2>9. \A x \in Range(rest) : /\ x \notin Range(chain')
                               /\ x \in Range(canon) \/ \A d \in Issued : d.number < x.number
    BY <2>1, <2>5, <2>6 DEF ReadInv, Feeding
  <2> QED  BY <2>1, <2>4, <2>8, <2>9 DEF ReadInv
<1>12. CASE FetchTransfers
  <2>1. pc = "transfers" /\ UNCHANGED <<chain, branch, canon>>
    BY <1>12 DEF FetchTransfers, tracker, tick, outside
  <2>2. PICK c \in live : Issued' \subseteq Issued \cup {c}
    <3>1. PICK c \in Blocks : update.confirmed = {c} /\ InMsgs' = InMsgs \cup {c}
      BY <1>12, FetchReports
    <3>2. UNCHANGED <<delivered, InChannel>>  BY <1>12, FetchReports
    <3>3. c \in live  BY <2>1, <3>1 DEF FinalInv
    <3> QED  BY <3>1, <3>2, <3>3 DEF Issued
  <2>3. \A x \in Range(chain) : x.number = c.number => x = c
    BY <1>1, LiveIsRetained
  <2>4. \A x \in Range(branch) : c.number < x.number
    BY <2>1, LiveIsBelow
  <2> QED  BY <2>1, <2>2, <2>3, <2>4 DEF ReadInv, Feeding
<1>13. CASE SendRefused \/ Fail \/ Crash
  <2>1. chain' = <<>> /\ pc' = "down"
    BY <1>13 DEF SendRefused, Fail, Crash, Stop
  <2>2. Range(chain') = {}  BY <2>1 DEF Range
  <2> QED  BY <2>1, <2>2 DEF ReadInv, Feeding
<1>14. CASE NodeMoves
  <2>1. UNCHANGED <<chain, branch, pc, delivered, channel, msgs>>
    BY <1>14 DEF NodeMoves, tracker, tick
  <2>2. Issued' = Issued  BY <2>1 DEF Issued, InChannel, InMsgs
  <2>3. ASSUME Feeding, NEW x \in Range(branch), x \in Range(canon)
        PROVE  x \in Range(canon') \/ \A d \in Issued : d.number < x.number
    <3>1. /\ \A i \in 1..Len(canon) : i <= NodeHead \/ MidReorg = 0 =>
               i \in 1..Len(canon') /\ canon'[i] = canon[i]
          /\ canon' \in Chains
      BY <1>1, <1>14, <2>3, ShallowIsCalm, CalmMove DEF Feeding
    <3>2. canon[x.number + 1] = x /\ x.number \in 0..NodeHead /\ NodeHead = Len(canon) - 1
          /\ Len(canon) \in Nat
      <4>1. Len(canon) \in Nat  BY <1>1, ChainsAssumption
      <4> QED  BY <1>1, <2>3, <4>1, CanonAt DEF Known, BlockRefAt, NodeHead
    <3>3. CASE x.number < NodeHead \/ MidReorg = 0
      <4>1. x.number + 1 \in 1..Len(canon) /\ (x.number + 1 <= NodeHead \/ MidReorg = 0)
        BY <3>2, <3>3
      <4>2. x.number + 1 \in 1..Len(canon') /\ canon'[x.number + 1] = x  BY <3>1, <3>2, <4>1
      <4>3. canon' \in Seq(Blocks)  BY <3>1, ChainsAssumption
      <4> QED  BY <4>2, <4>3, InRangeOf
    <3>4. CASE x.number = NodeHead /\ MidReorg # 0
      <4>1. Confirmations \in Nat /\ Confirmations > 0
        BY <3>4, FaultsAssumption, TrackerAssumptions DEF Shallow
      <4>2. ASSUME NEW d \in Issued  PROVE d.number < x.number
        <5>1. d \in Range(canon) /\ d.number + Confirmations < Len(canon)  BY DEF FinalInv, FinalIn
        <5>2. d.number \in Nat  BY <1>1, <5>1, CanonAt
        <5> QED  BY <3>2, <3>4, <4>1, <5>1, <5>2
      <4> QED  BY <4>2
    <3> QED  BY <3>2, <3>3, <3>4
  <2> QED  BY <2>1, <2>2, <2>3 DEF ReadInv, Feeding
<1> QED
  BY <1>5, <1>6, <1>7, <1>8, <1>9, <1>10, <1>11, <1>12, <1>13, <1>14 DEF Next, Run

-----------------------------------------------------------------------------
(* The order of the messages. *)

\* The message m does not confirm b anew, or does not retract it.
NoClash(m, b) ==
  IF m.kind = "confirmed" THEN m.block # b ELSE \A o \in m.orphaned : o.number # b.number

\* No message of the queue q of one of these kinds clashes with what is held when it is
\* received: with what is held now or confirmed by a message before it.
InOrder(kinds, held, q) ==
  \A i \in 1..Len(q) : q[i].kind \in kinds =>
     /\ \A b \in held : NoClash(q[i], b)
     /\ \A j \in 1..Len(q) : j < i /\ q[j].kind = "confirmed" => NoClash(q[i], q[j].block)

LEMMA InOrderParts ==
  ASSUME NEW c \in Seq(IndexerMessage), NEW s \in Seq(IndexerMessage), NEW kinds, NEW held,
         InOrder(kinds, held, c \o s)
  PROVE  InOrder(kinds, held, c) /\ InOrder(kinds, held, s)
<1> DEFINE q == c \o s
           n == Len(c)
<1>1. /\ n \in Nat /\ Len(s) \in Nat /\ Len(q) = n + Len(s)
      /\ \A i \in 1..n : q[i] = c[i]
      /\ \A i \in 1..Len(s) : q[n + i] = s[i]
  OBVIOUS
<1> HIDE DEF q
<1>2. \A i \in 1..Len(q) : q[i].kind \in kinds =>
        /\ \A b \in held : NoClash(q[i], b)
        /\ \A j \in 1..Len(q) : j < i /\ q[j].kind = "confirmed" => NoClash(q[i], q[j].block)
  BY DEF InOrder, q
<1>3. ASSUME NEW i \in 1..Len(c), c[i].kind \in kinds
      PROVE  /\ \A b \in held : NoClash(c[i], b)
             /\ \A j \in 1..Len(c) : j < i /\ c[j].kind = "confirmed" => NoClash(c[i], c[j].block)
  <2>1. i \in 1..Len(q) /\ q[i] = c[i]  BY <1>1
  <2>2. \A j \in 1..Len(c) : j \in 1..Len(q) /\ q[j] = c[j]  BY <1>1
  <2> QED  BY <1>2, <1>3, <2>1, <2>2
<1>4. ASSUME NEW i \in 1..Len(s), s[i].kind \in kinds
      PROVE  /\ \A b \in held : NoClash(s[i], b)
             /\ \A j \in 1..Len(s) : j < i /\ s[j].kind = "confirmed" => NoClash(s[i], s[j].block)
  <2>1. n + i \in 1..Len(q) /\ q[n + i] = s[i]  BY <1>1
  <2>2. /\ \A b \in held : NoClash(s[i], b)
        /\ \A j \in 1..Len(q) : j < n + i /\ q[j].kind = "confirmed" => NoClash(s[i], q[j].block)
    BY <1>2, <1>4, <2>1
  <2>3. ASSUME NEW j \in 1..Len(s), j < i, s[j].kind = "confirmed"
        PROVE  NoClash(s[i], s[j].block)
    <3>1. n + j \in 1..Len(q) /\ n + j < n + i /\ q[n + j] = s[j]  BY <1>1, <2>3
    <3> QED  BY <2>2, <2>3, <3>1
  <2> QED  BY <2>2, <2>3
<1> QED  BY <1>3, <1>4 DEF InOrder

LEMMA InOrderAppend ==
  ASSUME NEW q \in Seq(IndexerMessage), NEW m \in IndexerMessage, NEW kinds, NEW held,
         InOrder(kinds, held, q),
         m.kind \in kinds =>
           /\ \A b \in held : NoClash(m, b)
           /\ \A j \in 1..Len(q) : q[j].kind = "confirmed" => NoClash(m, q[j].block)
  PROVE  InOrder(kinds, held, Append(q, m))
<1> DEFINE more == Append(q, m)
           n    == Len(q)
<1>1. /\ n \in Nat /\ Len(more) = n + 1 /\ more[n + 1] = m
      /\ \A i \in 1..n : more[i] = q[i]
  OBVIOUS
<1> HIDE DEF more
<1>2. ASSUME NEW i \in 1..Len(more), more[i].kind \in kinds
      PROVE  /\ \A b \in held : NoClash(more[i], b)
             /\ \A j \in 1..Len(more) : j < i /\ more[j].kind = "confirmed" => NoClash(more[i], more[j].block)
  <2>1. \A j \in 1..Len(more) : j < i => j \in 1..n /\ more[j] = q[j]  BY <1>1
  <2>2. CASE i = n + 1
    <3>1. more[i] = m  BY <1>1, <2>2
    <3> QED  BY <1>2, <2>1, <3>1
  <2>3. CASE i \in 1..n
    <3>1. more[i] = q[i]  BY <1>1, <2>3
    <3>2. q[i].kind \in kinds  BY <1>2, <3>1
    <3> QED  BY <2>1, <2>3, <3>1, <3>2 DEF InOrder
  <2> QED  BY <1>1, <2>2, <2>3
<1> QED  BY <1>2 DEF InOrder, more

LEMMA InOrderReceive ==
  ASSUME NEW q \in Seq(IndexerMessage), q # <<>>, NEW kinds, "reorged" \in kinds, NEW held,
         InOrder(kinds, held, q)
  PROVE  /\ InOrder(kinds, Applied(held, Head(q)), Tail(q))
         /\ Head(q).kind = "reorged" => Applied(held, Head(q)) = held
<1> DEFINE m    == Head(q)
           rest == Tail(q)
           now  == Applied(held, m)
<1>1. /\ Len(q) \in Nat /\ Len(q) > 0 /\ Len(rest) = Len(q) - 1 /\ q[1] = m
      /\ \A i \in 1..Len(rest) : rest[i] = q[i + 1]
      /\ m \in IndexerMessage
  OBVIOUS
<1> HIDE DEF m, rest
<1>2. 1 \in 1..Len(q)  BY <1>1
<1>3. ASSUME m.kind = "reorged"  PROVE now = held
  <2>1. \A b \in held : NoClash(m, b)  BY <1>1, <1>2, <1>3 DEF InOrder
  <2> QED  BY <1>3, <2>1 DEF Applied, NoClash
<1>4. m.kind # "reorged" => m.kind = "confirmed"  BY <1>1, MessageKinds
<1>5. \A b \in now : b \in held \/ (m.kind = "confirmed" /\ b = m.block)
  BY <1>4 DEF Applied
<1> HIDE DEF now
<1>6. ASSUME NEW i \in 1..Len(rest), rest[i].kind \in kinds
      PROVE  /\ \A b \in now : NoClash(rest[i], b)
             /\ \A j \in 1..Len(rest) : j < i /\ rest[j].kind = "confirmed" => NoClash(rest[i], rest[j].block)
  <2>1. i + 1 \in 1..Len(q) /\ rest[i] = q[i + 1]  BY <1>1
  <2>2. /\ \A b \in held : NoClash(rest[i], b)
        /\ \A j \in 1..Len(q) : j < i + 1 /\ q[j].kind = "confirmed" => NoClash(rest[i], q[j].block)
    BY <1>6, <2>1 DEF InOrder
  <2>3. m.kind = "confirmed" => NoClash(rest[i], m.block)
    <3>1. 1 < i + 1  BY <1>1
    <3> QED  BY <1>1, <1>2, <2>2, <3>1
  <2>4. \A j \in 1..Len(rest) : j < i => j + 1 \in 1..Len(q) /\ j + 1 < i + 1 /\ rest[j] = q[j + 1]
    BY <1>1
  <2> QED  BY <1>5, <2>2, <2>3, <2>4
<1>7. InOrder(kinds, now, rest)  BY <1>6 DEF InOrder
<1> QED  BY <1>3, <1>7 DEF now, m, rest

\* A confirmed block whose message is in the queue counts as reported.
LEMMA QueuedIsIssued ==
  ASSUME TypeInv, NEW j \in 1..Len(channel \o msgs), (channel \o msgs)[j].kind = "confirmed"
  PROVE  (channel \o msgs)[j].block \in Issued
<1> DEFINE q == channel \o msgs
           m == q[j]
<1>1. /\ channel \in Seq(IndexerMessage) /\ msgs \in Seq(IndexerMessage)
  BY DEF TypeInv, TypeOK
<1>2. /\ Len(channel) \in Nat /\ Len(msgs) \in Nat /\ Len(q) = Len(channel) + Len(msgs)
      /\ \A i \in 1..Len(channel) : q[i] = channel[i]
      /\ \A i \in 1..Len(msgs) : q[Len(channel) + i] = msgs[i]
      /\ q \in Seq(IndexerMessage)
  BY <1>1
<1> HIDE DEF q
<1>3. m \in Range(channel) \/ m \in Range(msgs)
  <2>1. CASE j \in 1..Len(channel)
    <3>1. m = channel[j]  BY <1>2, <2>1
    <3> QED  BY <1>1, <2>1, <3>1, InRangeOf
  <2>2. CASE j > Len(channel)
    <3>1. j - Len(channel) \in 1..Len(msgs) /\ Len(channel) + (j - Len(channel)) = j
      BY <1>2, <2>2 DEF q
    <3>2. m = msgs[j - Len(channel)]  BY <1>2, <3>1
    <3> QED  BY <1>1, <3>1, <3>2, InRangeOf
  <2> QED  BY <1>2, <2>1, <2>2 DEF q
<1>4. m \in IndexerMessage
  <2>1. j \in 1..Len(q)  BY DEF q
  <2> QED  BY <1>2, <2>1, ElementOfSeq
<1>5. m.kind = "confirmed"  BY DEF q
<1> HIDE DEF m
<1>6. m.block \in Blocks /\ m = Confirmed(m.block)  BY <1>4, <1>5, MessageKinds
<1>7. m.block \in Issued  BY <1>3, <1>6 DEF Issued, InChannel, InMsgs
<1> QED  BY <1>7 DEF m, q

\* What a message may not clash with. (Without a checkpoint a restart confirms again.)
Kinds == IF store = "durable" THEN {"confirmed", "reorged"} ELSE {"reorged"}

OrderInv == InOrder(Kinds, delivered, channel \o msgs)

\* Where the blocks reported are: those of this tick are live; with a checkpoint, those
\* sent are at most as high as it, and those not live lie below start_block.
IssueInv ==
  /\ pc \in {"poll", "down"} => msgs = <<>>
  /\ InMsgs \subseteq live
  /\ store = "none" => checkpoint = NoHeight
  /\ start_block = StartBlock \/ (store = "durable" /\ start_block <= checkpoint + 1)
  /\ store = "durable" =>
       /\ pc = "transfers" => update.confirmed \cap Issued = {}
       /\ \A d \in delivered \cup InChannel : d.number <= checkpoint
       /\ pc # "down" => \A d \in Issued : d.number < start_block \/ d \in live

LEMMA OrderInvNext ==
  ASSUME FeedInv, FinalInv, ReadInv, IssueInv, OrderInv, [Next]_vars
  PROVE  OrderInv'
<1> USE DEF FeedInv
<1>1. /\ channel \in Seq(IndexerMessage) /\ msgs \in Seq(IndexerMessage)
      /\ channel \o msgs \in Seq(IndexerMessage)
  BY QueueFacts DEF TypeInv, TypeOK
<1>2. "reorged" \in Kinds /\ (store' = store => Kinds' = Kinds)  BY DEF Kinds
<1>3. ASSUME UNCHANGED <<delivered, channel \o msgs, store>>
      PROVE  OrderInv'
  BY <1>2, <1>3 DEF OrderInv
<1>4. CASE PollHead
  BY <1>3, <1>4 DEF PollHead, outside
<1>5. CASE FetchNext \/ RecheckHead \/ WalkBack \/ Sleep \/ Resume \/ NodeMoves \/ UNCHANGED vars
  BY <1>3, <1>5 DEF FetchNext, RecheckHead, WalkBack, Sleep, Resume, NodeMoves, vars, outside
<1>6. CASE Save
  BY <1>3, <1>6 DEF Save
<1>7. CASE Send
  <2>1. /\ msgs # <<>> /\ channel' = Append(channel, Head(msgs)) /\ msgs' = Tail(msgs)
        /\ UNCHANGED <<delivered, store>>
    BY <1>7 DEF Send
  <2>2. channel' \o msgs' = channel \o msgs  BY <1>1, <2>1, QueueFacts
  <2> QED  BY <1>3, <2>1, <2>2
<1>8. CASE Receive
  <2>1. /\ channel # <<>> /\ channel' = Tail(channel) /\ delivered' = Applied(delivered, Head(channel))
        /\ UNCHANGED <<msgs, store>>
    BY <1>8 DEF Receive
  <2>2. /\ channel \o msgs # <<>> /\ Head(channel \o msgs) = Head(channel)
        /\ Tail(channel \o msgs) = channel' \o msgs'
    BY <1>1, <2>1, QueueFacts
  <2>3. InOrder(Kinds, Applied(delivered, Head(channel \o msgs)), Tail(channel \o msgs))
    BY <1>1, <1>2, <2>2, InOrderReceive DEF OrderInv
  <2> QED  BY <1>2, <2>1, <2>2, <2>3 DEF OrderInv
<1>9. CASE ObserveNext
  <2> DEFINE orphaned == update'.reorged
             m        == Reorged(orphaned)
  <2>1. /\ UNCHANGED <<delivered, channel, store>>
        /\ msgs' = IF orphaned = {} THEN msgs ELSE Append(msgs, m)
    BY <1>9 DEF ObserveNext, outside
  <2>2. m \in IndexerMessage
    <3>1. TypeOK'  BY <1>9, TypesNext DEF TypeInv
    <3>2. orphaned \subseteq Blocks  BY <3>1 DEF TypeOK, T!TypeOK
    <3> QED  BY <3>2 DEF Reorged, IndexerMessage
  <2>3. \A d \in Issued : NoClash(m, d)
    <3>1. m.kind # "confirmed" /\ m.orphaned = orphaned  BY DEF Reorged
    <3>2. \A o \in orphaned, d \in Issued : o.number # d.number  BY <1>9, OrphansUnreported
    <3> QED  BY <3>1, <3>2 DEF NoClash
  <2>4. \A d \in delivered : NoClash(m, d)  BY <2>3 DEF Issued
  <2>5. \A j \in 1..Len(channel \o msgs) :
          (channel \o msgs)[j].kind = "confirmed" => NoClash(m, (channel \o msgs)[j].block)
    BY <2>3, QueuedIsIssued
  <2> HIDE DEF m, orphaned
  <2>6. InOrder(Kinds, delivered, Append(channel \o msgs, m))
    BY <1>1, <2>2, <2>4, <2>5, InOrderAppend DEF OrderInv
  <2>7. channel \o Append(msgs, m) = Append(channel \o msgs, m)  BY <1>1, <2>2, QueueFacts
  <2>8. CASE orphaned = {}  BY <1>3, <2>1, <2>8
  <2>9. CASE orphaned # {}  BY <1>2, <2>1, <2>6, <2>7, <2>9 DEF OrderInv
  <2> QED  BY <2>8, <2>9
<1>10. CASE FetchTransfers
  <2>1. PICK c \in Blocks : update.confirmed = {c} /\ msgs' = Append(msgs, Confirmed(c))
    BY <1>10, FetchReports
  <2> DEFINE m == Confirmed(c)
  <2>2. m \in IndexerMessage /\ m.kind = "confirmed" /\ m.block = c  BY MessageFacts
  <2>3. pc = "transfers" /\ UNCHANGED <<delivered, channel, store>>
    BY <1>10 DEF FetchTransfers, outside
  <2>4. m.kind \in Kinds => \A d \in Issued : NoClash(m, d)
    <3> HAVE m.kind \in Kinds
    <3>1. store = "durable"  BY <2>2 DEF Kinds
    <3>2. c \notin Issued  BY <2>1, <2>3, <3>1 DEF IssueInv
    <3> QED  BY <2>2, <3>2 DEF NoClash
  <2> HIDE DEF m
  <2>5. m.kind \in Kinds =>
          /\ \A d \in delivered : NoClash(m, d)
          /\ \A j \in 1..Len(channel \o msgs) :
               (channel \o msgs)[j].kind = "confirmed" => NoClash(m, (channel \o msgs)[j].block)
    BY <2>4, QueuedIsIssued DEF Issued
  <2>6. InOrder(Kinds, delivered, Append(channel \o msgs, m))
    BY <1>1, <2>2, <2>5, InOrderAppend DEF OrderInv
  <2>7. channel \o Append(msgs, m) = Append(channel \o msgs, m)  BY <1>1, <2>2, QueueFacts
  <2> QED  BY <1>2, <2>1, <2>3, <2>6, <2>7 DEF OrderInv, m
<1>11. CASE SendRefused \/ Fail \/ Crash
  <2>1. /\ msgs' = <<>> /\ (channel' = channel \/ channel' = <<>>) /\ UNCHANGED <<delivered, store>>
    BY <1>11 DEF SendRefused, Fail, Crash, Stop, outside
  <2>2. InOrder(Kinds, delivered, channel)  BY <1>1, InOrderParts DEF OrderInv
  <2>3. InOrder(Kinds, delivered, <<>>)  BY DEF InOrder
  <2>4. channel \o <<>> = channel /\ <<>> \o <<>> = <<>>  BY <1>1
  <2> QED  BY <1>2, <2>1, <2>2, <2>3, <2>4 DEF OrderInv
<1>12. CASE Hangup
  <2>1. channel' = <<>> /\ UNCHANGED <<msgs, delivered, store>>
    BY <1>12 DEF Hangup
  <2>2. InOrder(Kinds, delivered, msgs)  BY <1>1, InOrderParts DEF OrderInv
  <2>3. <<>> \o msgs = msgs  BY <1>1
  <2> QED  BY <1>2, <2>1, <2>2, <2>3 DEF OrderInv
<1> QED
  BY <1>4, <1>5, <1>6, <1>7, <1>8, <1>9, <1>10, <1>11, <1>12 DEF Next, Run

\* A live block is not higher than a checkpoint that has just been saved.
LEMMA SavedAbove ==
  ASSUME FeedInv, SavedInv, pc = "send", store = "durable", NEW d \in live
  PROVE  d.number <= checkpoint
<1>1. d.number \in Nat /\ d.number <= confirmed_through  BY LiveChain DEF FeedInv
<1>2. confirmed_through # NoHeight  BY <1>1 DEF NoHeight, T!NoHeight
<1>3. confirmed_through = checkpoint  BY <1>2 DEF SavedInv
<1> QED  BY <1>1, <1>3

\* Indexing goes on where it was, above what is saved and sent.
LEMMA ResumesAbove ==
  ASSUME TypeInv, IssueInv, Resume, store = "durable"
  PROVE  /\ start_block' = StartBlock \/ start_block' <= checkpoint + 1
         /\ \A d \in delivered : d.number < start_block'
<1>1. start_block' = ResumeAt  BY DEF Resume
<1>2. delivered \subseteq Blocks /\ checkpoint \in Nat \cup {NoHeight}  BY DEF TypeInv, TypeOK
<1>3. \A d \in delivered : d.number \in Nat /\ d.number <= checkpoint
  BY <1>2, TrackerAssumptions DEF IssueInv, T!BlockRef
<1>4. CASE checkpoint = NoHeight
  <2>1. delivered = {}
    <3>1. \A d \in delivered : d.number <= -1  BY <1>3, <1>4 DEF NoHeight, T!NoHeight
    <3> QED  BY <1>3, <3>1
  <2> QED  BY <1>1, <1>4, <2>1 DEF ResumeAt
<1>5. CASE checkpoint # NoHeight
  <2>1. start_block' = checkpoint + 1 /\ checkpoint \in Nat  BY <1>1, <1>2, <1>5 DEF ResumeAt
  <2> QED  BY <1>3, <2>1
<1> QED  BY <1>4, <1>5

LEMMA IssueInvNext ==
  ASSUME "shrink" \notin Faults, FeedInv, AdvanceInv, LowInv, LowInv', FinalInv, ReadInv, IssueInv, [Next]_vars
  PROVE  IssueInv'
<1> USE DEF FeedInv
<1>1. store \in StoreKinds /\ store' = store
  <2>1. store \in StoreKinds  BY FaultsAssumption DEF TypeInv, TypeOK
  <2> QED
    BY <2>1 DEF Next, Run, PollHead, FetchNext, RecheckHead, WalkBack, ObserveNext, FetchTransfers, Save,
                Send, Sleep, SendRefused, Resume, Receive, Fail, Crash, Hangup, NodeMoves, vars, outside
<1>2. ~FetchTransfers => Issued' \subseteq Issued  BY IssuedOnce
<1>3. ASSUME UNCHANGED <<msgs, live, checkpoint, start_block, delivered, channel>>, ~FetchTransfers,
             pc' \in {"poll", "down"} => pc \in {"poll", "down"},
             pc # "down", pc' # "transfers"
      PROVE  IssueInv'
  <2>1. InMsgs' = InMsgs /\ InChannel' = InChannel /\ Issued' = Issued
    BY <1>3 DEF Issued, InMsgs, InChannel
  <2> QED  BY <1>1, <1>3, <2>1 DEF IssueInv
<1>4. CASE PollHead
  <2>1. pc = "poll" /\ pc' \in {"fetch", "recheck", "save"}
    BY <1>4 DEF PollHead, ColdStart, HeadGrew, HeadDidNotGrow
  <2> QED  BY <1>3, <1>4, <2>1 DEF PollHead, FetchTransfers, tracker, config, outside
<1>5. CASE FetchNext \/ RecheckHead \/ WalkBack
  <2>1. pc \in {"fetch", "recheck", "walk"} /\ pc' \in {"walk", "save"}
    BY <1>5 DEF FetchNext, RecheckHead, WalkBack
  <2> QED  BY <1>3, <1>5, <2>1 DEF FetchNext, RecheckHead, WalkBack, FetchTransfers, tracker, config, outside
<1>6. CASE ObserveNext
  <2> DEFINE b == Last(branch)
  <2>1. /\ T!Observe(b) /\ UNCHANGED <<delivered, checkpoint, start_block>>
        /\ pc \in {"walk", "observe"} /\ pc' \notin {"poll", "down"}
    BY <1>6 DEF ObserveNext, AfterObserve, outside, config
  <2>2. b \in Blocks
    <3>1. branch # <<>> /\ branch \in Seq(Blocks)  BY <2>1 DEF TypeInv, BranchInv
    <3> QED  BY <3>1, FrontBlocks
  <2>3. T!FedUnderContract(b)  BY <1>6, ShallowForks, FedRight
  <2>4. InMsgs' = InMsgs /\ InChannel' = InChannel /\ Issued' = Issued
    BY <1>6, ObserveReports DEF Issued
  <2> HIDE DEF b
  <2>5. live' = (live \ update'.reorged) \cup update'.confirmed
    BY <2>1, <2>2, ObserveGains DEF TypeInv
  <2>6. live' \ update'.confirmed = live \ update'.reorged
    BY <2>1, <2>2, <2>3, ObserveDownstream
  <2>7. \A d \in Issued : d \notin update'.reorged
    BY <1>6, OrphansUnreported
  <2>8. \A d \in Issued : d \in live => d \in live' /\ d \notin update'.confirmed
    BY <2>5, <2>6, <2>7
  <2>9. \A d \in update'.confirmed : d \in live' /\ ~(d.number < start_block)
    <3> TAKE d \in update'.confirmed
    <3>1. d \in live'  BY <2>5
    <3>2. d.number >= start_block  BY <2>1, <3>1 DEF LowInv
    <3>3. d.number \in Nat /\ start_block \in Nat
      BY <2>1, <2>2, ObserveGains DEF TypeInv, TypeOK
    <3> QED  BY <3>1, <3>2, <3>3
  <2>10. InMsgs \subseteq Issued  BY DEF Issued
  <2>11. store = "durable" => update'.confirmed \cap Issued = {}
    BY <2>1, <2>8, <2>9 DEF IssueInv
  <2> QED  BY <1>1, <2>1, <2>4, <2>8, <2>10, <2>11 DEF IssueInv
<1>7. CASE FetchTransfers
  <2>1. PICK c \in Blocks : update.confirmed = {c} /\ InMsgs' = InMsgs \cup {c}
    BY <1>7, FetchReports
  <2>2. InChannel' = InChannel /\ delivered' = delivered  BY <1>7, FetchReports
  <2>3. pc = "transfers" /\ pc' \notin {"poll", "down", "transfers"}
        /\ UNCHANGED <<live, checkpoint, start_block>>
    BY <1>7 DEF FetchTransfers, AfterObserve, tracker, config, outside
  <2>4. c \in live  BY <2>1, <2>3 DEF FinalInv
  <2>5. Issued' = Issued \cup {c}  BY <2>1, <2>2 DEF Issued
  <2> QED  BY <1>1, <2>1, <2>2, <2>3, <2>4, <2>5 DEF IssueInv
<1>8. CASE Save
  <2>1. /\ pc = "save" /\ pc' = "send" /\ UNCHANGED <<live, start_block, delivered, channel, msgs>>
        /\ store = "none" => checkpoint' = checkpoint
    BY <1>8 DEF Save, tracker
  <2>2. InMsgs' = InMsgs /\ InChannel' = InChannel /\ Issued' = Issued
    BY <2>1 DEF Issued, InMsgs, InChannel
  <2>3. [checkpoint' >= checkpoint]_checkpoint  BY CheckpointUp
  <2>4. checkpoint \in Int /\ checkpoint' \in Int /\ start_block \in Nat
    <3>1. TypeOK /\ TypeOK'  BY TypesNext DEF TypeInv
    <3> QED  BY <3>1 DEF TypeOK, NoHeight, T!NoHeight
  <2>5. checkpoint' >= checkpoint  BY <2>3, <2>4
  <2>6. \A d \in delivered \cup InChannel : d.number \in Nat
    <3>1. delivered \cup InChannel \subseteq Blocks  BY DEF InChannel, TypeInv, TypeOK
    <3> QED  BY <3>1, TrackerAssumptions DEF T!BlockRef
  <2>7. store = "durable" => \A d \in delivered' \cup InChannel' : d.number <= checkpoint'
    BY <2>1, <2>2, <2>4, <2>5, <2>6 DEF IssueInv
  <2>8. start_block' = StartBlock \/ (store' = "durable" /\ start_block' <= checkpoint' + 1)
    <3>1. start_block = StartBlock \/ (store = "durable" /\ start_block <= checkpoint + 1)
      BY DEF IssueInv
    <3>2. CASE start_block = StartBlock  BY <2>1, <3>2
    <3>3. CASE store = "durable" /\ start_block <= checkpoint + 1
      <4>1. \A x, y, z \in Int : x <= y + 1 /\ z >= y => x <= z + 1  OBVIOUS
      <4>2. start_block \in Int  BY <2>4
      <4>3. start_block <= checkpoint' + 1  BY <2>4, <2>5, <3>3, <4>1, <4>2
      <4> QED  BY <1>1, <2>1, <3>3, <4>3
    <3> QED  BY <3>1, <3>2, <3>3
  <2> QED  BY <1>1, <2>1, <2>2, <2>7, <2>8 DEF IssueInv
<1>9. CASE Send
  <2>1. pc = "send" /\ pc' = "send" /\ UNCHANGED <<live, start_block, checkpoint>>
    BY <1>9 DEF Send, tracker, config
  <2>2. /\ InChannel' \cup InMsgs' = InChannel \cup InMsgs
        /\ InMsgs' \subseteq InMsgs /\ delivered' = delivered
    BY <1>9, SendPasses
  <2>3. Issued' = Issued  BY <2>2 DEF Issued
  <2>4. store = "durable" => \A d \in InMsgs : d.number <= checkpoint
    BY <2>1, SavedAbove DEF IssueInv, AdvanceInv
  <2>5. store = "durable" => \A d \in delivered' \cup InChannel' : d.number <= checkpoint
    BY <2>2, <2>4 DEF IssueInv
  <2> QED  BY <1>1, <2>1, <2>2, <2>3, <2>5 DEF IssueInv
<1>10. CASE Sleep
  <2>1. /\ pc = "send" /\ pc' = "poll" /\ msgs = <<>>
        /\ UNCHANGED <<msgs, live, checkpoint, start_block, delivered, channel>>
    BY <1>10 DEF Sleep, tracker, config, outside
  <2>2. InMsgs' = InMsgs /\ InChannel' = InChannel /\ Issued' = Issued
    BY <2>1 DEF Issued, InMsgs, InChannel
  <2> QED  BY <1>1, <2>1, <2>2 DEF IssueInv
<1>11. CASE SendRefused \/ Fail \/ Crash
  <2>1. /\ pc' = "down" /\ msgs' = <<>> /\ start_block' = StartBlock
        /\ (channel' = channel \/ channel' = <<>>) /\ UNCHANGED <<delivered, checkpoint>>
    BY <1>11 DEF SendRefused, Fail, Crash, Stop, outside
  <2>2. InMsgs' = {} /\ (channel' = <<>> => InChannel' = {})  BY <2>1, DroppedMessages
  <2>3. channel' = channel => InChannel' = InChannel  BY DEF InChannel
  <2> QED  BY <1>1, <2>1, <2>2, <2>3 DEF IssueInv
<1>12. CASE Resume
  <2>1. /\ pc = "down" /\ pc' = "poll" /\ channel = <<>> /\ start_block' = ResumeAt
        /\ UNCHANGED <<msgs, live, checkpoint, delivered, channel>>
    BY <1>12 DEF Resume, tracker
  <2>2. msgs = <<>>  BY <2>1 DEF IssueInv
  <2>3. InMsgs = {} /\ InChannel = {} /\ InMsgs' = {} /\ InChannel' = {} /\ Issued' = delivered
    BY <2>1, <2>2, DroppedMessages DEF Issued
  <2>4. store = "none" => start_block' = StartBlock
    BY <2>1 DEF IssueInv, ResumeAt
  <2>5. store = "durable" => /\ start_block' = StartBlock \/ start_block' <= checkpoint + 1
                             /\ \A d \in delivered : d.number < start_block'
    BY <1>12, ResumesAbove
  <2>6. store = "none" \/ store = "durable"  BY <1>1 DEF StoreKinds
  <2> QED  BY <1>1, <2>1, <2>2, <2>3, <2>4, <2>5, <2>6 DEF IssueInv
<1>13. CASE Receive
  <2>1. UNCHANGED <<pc, msgs, live, checkpoint, start_block, update>>
    BY <1>13 DEF Receive, tracker, config
  <2>2. /\ InMsgs' = InMsgs /\ InChannel' \subseteq InChannel /\ delivered' \subseteq delivered \cup InChannel
    BY <1>13, ReceivePasses
  <2>3. Issued' \subseteq Issued  BY <2>2 DEF Issued
  <2> QED  BY <1>1, <2>1, <2>2, <2>3 DEF IssueInv
<1>14. CASE Hangup
  <2>1. UNCHANGED <<pc, msgs, live, checkpoint, start_block, update, delivered>> /\ channel' = <<>>
    BY <1>14 DEF Hangup, tracker, config
  <2>2. InMsgs' = InMsgs /\ InChannel' = {}  BY <2>1, DroppedMessages DEF InMsgs
  <2>3. Issued' \subseteq Issued  BY <2>1, <2>2 DEF Issued
  <2> QED  BY <1>1, <2>1, <2>2, <2>3 DEF IssueInv
<1>15. CASE NodeMoves \/ UNCHANGED vars
  <2>1. UNCHANGED <<pc, msgs, live, checkpoint, start_block, update, delivered, channel>>
    BY <1>15 DEF NodeMoves, vars, tracker, config, outside
  <2>2. InMsgs' = InMsgs /\ InChannel' = InChannel /\ Issued' = Issued
    BY <2>1 DEF Issued, InMsgs, InChannel
  <2> QED  BY <1>1, <2>1, <2>2 DEF IssueInv
<1> QED
  BY <1>4, <1>5, <1>6, <1>7, <1>8, <1>9, <1>10, <1>11, <1>12, <1>13, <1>14, <1>15 DEF Next, Run

-----------------------------------------------------------------------------
(* All that holds while the node's reorgs are shallow. *)

SafeInv ==
  AdvanceInv /\ FeedInv /\ LowInv /\ FinalInv /\ ReadInv /\ IssueInv /\ OrderInv

LEMMA SafeInvInit ==
  Init => SafeInv
<1> SUFFICES ASSUME Init PROVE SafeInv  OBVIOUS
<1>1. /\ FeedInv /\ TypeInv /\ store \in StoreKinds
  <2>1. FeedInv /\ TypeInv  BY FeedInvInit, TypesInit
  <2> QED  BY <2>1, FaultsAssumption DEF TypeInv, TypeOK
<1>2. /\ live = {} /\ chain = <<>> /\ confirmed_through = NoHeight /\ pc = "down" /\ branch = <<>>
      /\ start_block = StartBlock /\ last_saved = NoHeight /\ checkpoint = NoHeight
      /\ channel = <<>> /\ msgs = <<>> /\ delivered = {}
  BY DEF Init, T!Init, NoHeight
<1>3. InChannel = {} /\ InMsgs = {} /\ Issued = {}  BY <1>2, DroppedMessages DEF Issued
<1>4. SavedInv  BY <1>2 DEF SavedInv
<1>5. ReachInv  BY <1>2 DEF ReachInv, Buried, MidTick
<1>6. LowInv /\ FinalInv /\ ReadInv  BY <1>2, <1>3 DEF LowInv, FinalInv, ReadInv, Feeding
<1>7. IssueInv  BY <1>2, <1>3 DEF IssueInv
<1>8. OrderInv
  <2>1. channel \o msgs = <<>>  BY <1>2
  <2> QED  BY <1>2, <2>1 DEF OrderInv, InOrder
<1> QED  BY <1>1, <1>4, <1>5, <1>6, <1>7, <1>8 DEF SafeInv, AdvanceInv

LEMMA SafeInvNext ==
  ASSUME Shallow, SafeInv, [Next]_vars
  PROVE  SafeInv'
<1> USE DEF SafeInv
<1>1. "shrink" \notin Faults /\ CalmTicks /\ MidReorg <= Confirmations
  BY ShallowIsCalm DEF Shallow
<1>2. TypeInv /\ ForksInWindow  BY ShallowForks DEF AdvanceInv
<1>3. AdvanceInv'  BY <1>1, TypesNext, SavedInvNext, ReachInvNext DEF AdvanceInv
<1>4. FeedInv'  BY <1>1, <1>2, FeedInvNext
<1>5. LowInv'  BY <1>2, LowInvNext
<1>6. FinalInv'  BY FinalInvNext
<1>7. ReadInv'  BY ReadInvNext
<1>8. IssueInv'  BY <1>1, <1>5, IssueInvNext
<1>9. OrderInv'  BY OrderInvNext
<1> QED  BY <1>3, <1>4, <1>5, <1>6, <1>7, <1>8, <1>9

\* The first message waiting does not clash with what the consumer holds.
LEMMA FirstInOrder ==
  ASSUME TypeInv, OrderInv, channel # <<>>, Head(channel).kind \in Kinds
  PROVE  \A b \in delivered : NoClash(Head(channel), b)
<1>1. channel \in Seq(IndexerMessage) /\ msgs \in Seq(IndexerMessage)
  BY DEF TypeInv, TypeOK
<1>2. InOrder(Kinds, delivered, channel)  BY <1>1, InOrderParts DEF OrderInv
<1>3. 1 \in 1..Len(channel) /\ channel[1] = Head(channel)  BY <1>1
<1> QED  BY <1>2, <1>3 DEF InOrder

\* With reorgs no deeper than N, whatever fails, and with or without a checkpoint: no
\* message retracts a block the consumer holds as confirmed.
THEOREM ConfirmedStaysFinal ==
  Shallow => (Spec => []ConfirmedIsFinal)
<1> SUFFICES ASSUME Shallow PROVE Spec => []ConfirmedIsFinal  OBVIOUS
<1>1. SafeInv => ConfirmedIsFinal
  <2> SUFFICES ASSUME SafeInv, channel # <<>>, Head(channel).kind = "reorged"
               PROVE  \A o \in Head(channel).orphaned, b \in delivered : o.number # b.number
    BY DEF ConfirmedIsFinal
  <2>1. \A b \in delivered : NoClash(Head(channel), b)
    BY FirstInOrder DEF SafeInv, AdvanceInv, Kinds
  <2> QED  BY <2>1 DEF NoClash
<1>2. SafeInv /\ [Next]_vars => SafeInv'  BY SafeInvNext
<1> QED  BY <1>1, <1>2, SafeInvInit, PTL DEF Spec

\* With a checkpoint that keeps what is saved, whatever fails and however often the
\* poller restarts: a block the consumer holds is not confirmed to it again.
THEOREM NothingReconfirmed ==
  Shallow => (Spec => []NoReconfirm)
<1> SUFFICES ASSUME Shallow PROVE Spec => []NoReconfirm  OBVIOUS
<1>1. SafeInv => NoReconfirm
  <2> SUFFICES ASSUME SafeInv, store = "durable", channel # <<>>, Head(channel).kind = "confirmed"
               PROVE  Head(channel).block \notin delivered
    BY DEF NoReconfirm
  <2>1. \A b \in delivered : NoClash(Head(channel), b)
    BY FirstInOrder DEF SafeInv, AdvanceInv, Kinds
  <2> QED  BY <2>1 DEF NoClash
<1>2. SafeInv /\ [Next]_vars => SafeInv'  BY SafeInvNext
<1> QED  BY <1>1, <1>2, SafeInvInit, PTL DEF Spec

\* And the tracker is never fed but under its contract, restarts included: reorgs no
\* deeper than N are reason enough, the forks need no premise of their own.
THEOREM ShallowUnderContract ==
  Shallow => (Spec => FeedsUnderContract)
<1> SUFFICES ASSUME Shallow PROVE Spec => FeedsUnderContract  OBVIOUS
<1>1. SafeInv => ForksInWindow  BY ShallowForks DEF SafeInv, AdvanceInv
<1>2. SafeInv /\ [Next]_vars => SafeInv'  BY SafeInvNext
<1>3. Spec => []ForksInWindow  BY <1>1, <1>2, SafeInvInit, PTL DEF Spec
<1> QED  BY <1>3, AlwaysUnderContract, ShallowIsCalm

-----------------------------------------------------------------------------
(* What a consumer misses. *)

\* Every height from start_block to the watermark is live.
LEMMA LiveFrom ==
  ASSUME FeedInv, LowInv, chain # <<>>, NEW n \in Nat, start_block <= n, n <= confirmed_through
  PROVE  \E a \in live : a.number = n
<1> USE DEF FeedInv
<1>1. TrackerInv /\ start_block \in Nat /\ confirmed_through \in Int
  BY LiveChain DEF TypeInv, TypeOK
<1> DEFINE low == chain[1].number
<1>2. /\ \A i \in 1..Len(chain) : chain[i] \in Blocks /\ chain[i].number \in Nat
      /\ \A m \in low..Last(chain).number : T!BlockAt(m) # {}
      /\ low \in Nat /\ Last(chain).number \in Nat
  <2>1. 1 \in 1..Len(chain) /\ Len(chain) \in 1..Len(chain) /\ Last(chain) = chain[Len(chain)]
    BY <1>1, ChainShape
  <2> QED  BY <1>1, <2>1, ChainShape
<1>3. /\ \A a \in live : \A m \in a.number..confirmed_through : \E b \in live : b.number = m
      /\ \A i \in 1..Len(chain) : chain[i].number <= confirmed_through => chain[i] \in live
      /\ confirmed_through <= Last(chain).number
  BY DEF P!ContractInv, P!LiveIsOneChain, P!LiveMatchesWatermark, P!WatermarkBelowHead, Last
<1>4. low > start_block => \E a \in live : a.number = start_block
  BY DEF LowInv
<1> HIDE DEF low
<1>5. CASE n >= low
  <2>1. n \in low..Last(chain).number  BY <1>1, <1>2, <1>3, <1>5
  <2>2. PICK c \in T!BlockAt(n) : TRUE  BY <1>2, <2>1
  <2>3. PICK i \in 1..Len(chain) : c = chain[i]  BY <1>1, <2>2, ChainShape
  <2>4. c.number = n  BY <1>1, <2>2, ChainShape
  <2> QED  BY <1>3, <2>3, <2>4
<1>6. CASE n < low
  <2>1. low > start_block  BY <1>1, <1>2, <1>6
  <2>2. PICK a \in live : a.number = start_block  BY <1>4, <2>1
  <2>3. n \in a.number..confirmed_through  BY <1>1, <2>2
  <2> QED  BY <1>3, <2>3
<1> QED  BY <1>2, <1>5, <1>6

\* What a restart does not have to bring again: without a checkpoint it brings
\* everything again, to a consumer that is there.
Gone == IF store = "none" /\ listening THEN {} ELSE lost

\* A live block has been reported, is about to be, or is gone.
LiveCovered ==
  \A a \in live : a \in Issued \cup Gone \/ (pc = "transfers" /\ a \in update.confirmed)

\* With a checkpoint, what is saved has been received, is on its way or is gone.
SavedCovered ==
  store = "durable" =>
    \A n \in Nat : StartBlock <= n /\ n <= checkpoint => BlockRefAt(n) \in delivered \cup lost \cup InFlight

LEMMA InFlightIs ==
  /\ InFlight = InChannel \cup (IF pc = "send" THEN InMsgs ELSE {})
  /\ InFlight' = InChannel' \cup (IF pc' = "send" THEN InMsgs' ELSE {})
BY DEF InFlight, InChannel, InMsgs

\* Only what was dropped is not reported any more; nothing is retracted.
LEMMA IssuedStays ==
  ASSUME SafeInv, [Next]_vars
  PROVE  /\ lost \subseteq lost'
         /\ pc' # "down" => Issued \subseteq Issued' \cup lost'
         /\ listening' = listening /\ pc' # "down" => Issued \subseteq Issued'
         /\ delivered \cup lost \cup InFlight \subseteq delivered' \cup lost' \cup InFlight'
<1> USE DEF SafeInv
<1>1. TypeInv /\ GroundInv  BY DEF AdvanceInv, FeedInv
<1>2. ASSUME UNCHANGED <<delivered, channel, msgs, lost>>, pc = "send" => pc' = "send" \/ msgs = <<>>
      PROVE  /\ lost \subseteq lost'
             /\ Issued \subseteq Issued'
             /\ delivered \cup lost \cup InFlight \subseteq delivered' \cup lost' \cup InFlight'
  <2>1. InChannel' = InChannel /\ InMsgs' = InMsgs /\ Issued' = Issued
    BY <1>2 DEF Issued, InChannel, InMsgs
  <2>2. pc = "send" /\ pc' # "send" => InMsgs = {}  BY <1>2, DroppedMessages
  <2> QED  BY <1>2, <2>1, <2>2, InFlightIs
<1>3. CASE PollHead
  <2>1. pc = "poll" /\ UNCHANGED <<delivered, channel, msgs, lost>>  BY <1>3 DEF PollHead, outside
  <2> QED  BY <1>2, <2>1
<1>4. CASE FetchNext \/ RecheckHead \/ WalkBack \/ Save \/ Sleep \/ Resume
  <2>1. /\ UNCHANGED <<delivered, channel, msgs, lost>>
        /\ pc # "send" \/ msgs = <<>>
    BY <1>4 DEF FetchNext, RecheckHead, WalkBack, Save, Sleep, Resume, outside
  <2> QED  BY <1>2, <2>1
<1>5. CASE NodeMoves \/ UNCHANGED vars
  <2>1. UNCHANGED <<delivered, channel, msgs, lost, pc>>
    BY <1>5 DEF NodeMoves, vars, outside
  <2> QED  BY <1>2, <2>1
<1>6. CASE ObserveNext
  <2>1. UNCHANGED <<delivered, InChannel, InMsgs>>  BY <1>1, <1>6, ObserveReports
  <2>2. pc # "send" /\ lost' = lost  BY <1>6 DEF ObserveNext
  <2> QED  BY <2>1, <2>2, InFlightIs DEF Issued
<1>7. CASE FetchTransfers
  <2>1. UNCHANGED <<delivered, InChannel>> /\ InMsgs \subseteq InMsgs'  BY <1>1, <1>7, FetchReports
  <2>2. pc # "send" /\ lost' = lost  BY <1>7 DEF FetchTransfers
  <2> QED  BY <2>1, <2>2, InFlightIs DEF Issued
<1>8. CASE Send
  <2>1. InChannel' \cup InMsgs' = InChannel \cup InMsgs /\ delivered' = delivered
    BY <1>1, <1>8, SendPasses
  <2>2. pc = "send" /\ pc' = "send" /\ lost' = lost  BY <1>8 DEF Send
  <2> QED  BY <2>1, <2>2, InFlightIs DEF Issued
<1>9. CASE Receive
  <2>1. InMsgs' = InMsgs /\ InChannel \subseteq InChannel' \cup delivered'
    BY <1>1, <1>9, ReceivePasses
  <2>2. /\ channel # <<>> /\ delivered' = Applied(delivered, Head(channel))
        /\ pc' = pc /\ lost' = lost
    BY <1>9 DEF Receive
  <2>3. channel \in Seq(IndexerMessage) /\ msgs \in Seq(IndexerMessage)
    BY <1>1 DEF TypeInv, TypeOK
  <2>4. InOrder(Kinds, delivered, channel) /\ "reorged" \in Kinds
    BY <2>3, InOrderParts DEF OrderInv, Kinds
  <2>5. delivered \subseteq delivered'
    <3>1. Head(channel).kind = "reorged" => delivered' = delivered
      BY <2>2, <2>3, <2>4, InOrderReceive
    <3> QED  BY <1>1, <1>9, <3>1, ReceivePasses
  <2> QED  BY <2>1, <2>2, <2>5, InFlightIs DEF Issued
<1>10. CASE SendRefused \/ Crash
  <2>1. delivered' = delivered /\ lost' = lost \cup InFlight /\ pc # "down" /\ pc' = "down"
    BY <1>10 DEF SendRefused, Crash, Stop, outside
  <2> QED  BY <2>1
<1>11. CASE Fail
  <2>1. /\ delivered' = delivered /\ lost' = lost /\ channel' = channel
        /\ pc \notin {"send", "down"} /\ pc' = "down"
    BY <1>11 DEF Fail, Stop, outside
  <2>2. InChannel' = InChannel  BY <2>1 DEF InChannel
  <2> QED  BY <2>1, <2>2, InFlightIs
<1>12. CASE Hangup
  <2>1. /\ delivered' = delivered /\ msgs' = msgs /\ pc' = pc /\ lost' = lost \cup InChannel
        /\ listening /\ ~listening'
    BY <1>12 DEF Hangup, InChannel
  <2>2. InMsgs' = InMsgs  BY <2>1 DEF InMsgs
  <2> QED  BY <2>1, <2>2, InFlightIs DEF Issued
<1> QED
  BY <1>3, <1>4, <1>5, <1>6, <1>7, <1>8, <1>9, <1>10, <1>11, <1>12 DEF Next, Run

LEMMA LiveCoveredNext ==
  ASSUME SafeInv, LiveCovered, [Next]_vars
  PROVE  LiveCovered'
<1> USE DEF SafeInv
<1>1. /\ TypeInv /\ GroundInv /\ store' = store
  <2>1. TypeInv /\ GroundInv  BY DEF AdvanceInv, FeedInv
  <2>2. store' = store
    BY DEF Next, Run, PollHead, FetchNext, RecheckHead, WalkBack, ObserveNext, FetchTransfers, Save, Send,
           Sleep, SendRefused, Resume, Receive, Fail, Crash, Hangup, NodeMoves, vars, outside
  <2> QED  BY <2>1, <2>2
<1>2. /\ lost \subseteq lost'
      /\ pc' # "down" => Issued \subseteq Issued' \cup lost'
      /\ listening' = listening /\ pc' # "down" => Issued \subseteq Issued'
  BY IssuedStays
<1>3. ASSUME listening' = listening  PROVE Gone \subseteq Gone'
  BY <1>1, <1>2, <1>3 DEF Gone
<1>4. ASSUME live' = {} PROVE LiveCovered'
  BY <1>4 DEF LiveCovered
<1>5. pc = "down" => live = {}
  BY DEF LowInv, FeedInv, P!ContractInv, P!EmptyMeansFresh
<1>6. ASSUME UNCHANGED <<live, update, listening, pc>>
      PROVE  LiveCovered'
  <2>1. CASE pc = "down"  BY <1>4, <1>5, <1>6, <2>1
  <2>2. CASE pc # "down"  BY <1>2, <1>3, <1>6, <2>2 DEF LiveCovered
  <2> QED  BY <2>1, <2>2
<1>7. ASSUME UNCHANGED <<live, listening>>, pc # "transfers", pc' # "down"
      PROVE  LiveCovered'
  BY <1>2, <1>3, <1>7 DEF LiveCovered
<1>8. CASE PollHead
  <2>1. pc = "poll" /\ pc' # "down" /\ UNCHANGED <<live, listening>>
    BY <1>8 DEF PollHead, ColdStart, HeadGrew, HeadDidNotGrow, tracker, outside
  <2> QED  BY <1>7, <2>1
<1>9. CASE FetchNext \/ RecheckHead \/ WalkBack \/ Save \/ Sleep
  <2>1. pc # "transfers" /\ pc' # "down" /\ UNCHANGED <<live, listening>>
    BY <1>9 DEF FetchNext, RecheckHead, WalkBack, Save, Sleep, tracker, outside
  <2> QED  BY <1>7, <2>1
<1>10. CASE ObserveNext
  <2> DEFINE b == Last(branch)
  <2>1. /\ T!Observe(b) /\ branch # <<>> /\ branch \in Seq(Blocks) /\ TrackerInv
        /\ pc # "transfers" /\ pc' # "down" /\ listening' = listening
        /\ update'.confirmed # {} => pc' = "transfers"
    BY <1>1, <1>10 DEF ObserveNext, AfterObserve, outside, TypeInv, BranchInv
  <2>2. b \in Blocks  BY <2>1, FrontBlocks
  <2> HIDE DEF b
  <2>3. live' = (live \ update'.reorged) \cup update'.confirmed
    BY <2>1, <2>2, ObserveGains
  <2>4. \A a \in live : a \in Issued' \cup Gone'
    BY <1>2, <1>3, <2>1 DEF LiveCovered
  <2> QED  BY <2>1, <2>3, <2>4 DEF LiveCovered
<1>11. CASE FetchTransfers
  <2>1. PICK c \in Blocks : update.confirmed = {c} /\ InMsgs' = InMsgs \cup {c}
    BY <1>1, <1>11, FetchReports
  <2>2. /\ UNCHANGED <<live, listening>> /\ pc' # "down"
    BY <1>11 DEF FetchTransfers, AfterObserve, tracker, outside
  <2>3. c \in Issued'  BY <2>1 DEF Issued
  <2> QED  BY <1>2, <1>3, <2>1, <2>2, <2>3 DEF LiveCovered
<1>12. CASE Send
  <2>1. pc = "send" /\ pc' = "send" /\ UNCHANGED <<live, listening>>
    BY <1>12 DEF Send, tracker
  <2> QED  BY <1>7, <2>1
<1>13. CASE SendRefused \/ Fail \/ Crash
  BY <1>4, <1>13 DEF SendRefused, Fail, Crash, Stop
<1>14. CASE Resume
  <2>1. pc = "down" /\ live' = live  BY <1>14 DEF Resume, tracker
  <2> QED  BY <1>4, <1>5, <2>1
<1>15. CASE Receive \/ NodeMoves \/ UNCHANGED vars
  <2>1. UNCHANGED <<live, update, listening, pc>>
    BY <1>15 DEF Receive, NodeMoves, vars, tracker, outside
  <2> QED  BY <1>6, <2>1
<1>16. CASE Hangup
  <2>1. UNCHANGED <<live, update, pc>> /\ ~listening'
    BY <1>16 DEF Hangup, tracker
  <2>2. Gone \subseteq Gone' /\ lost' \subseteq Gone'  BY <1>2, <2>1 DEF Gone
  <2>3. CASE pc = "down"  BY <1>4, <1>5, <2>1, <2>3
  <2>4. CASE pc # "down"  BY <1>2, <2>1, <2>2, <2>4 DEF LiveCovered
  <2> QED  BY <2>3, <2>4
<1> QED
  BY <1>8, <1>9, <1>10, <1>11, <1>12, <1>13, <1>14, <1>15, <1>16 DEF Next, Run

LEMMA SavedCoveredNext ==
  ASSUME Shallow, SafeInv, LiveCovered, SavedCovered, [Next]_vars
  PROVE  SavedCovered'
<1> USE DEF SafeInv
<1>1. /\ TypeInv /\ FeedInv /\ canon \in Chains /\ store' = store
      /\ checkpoint \in Int /\ start_block \in Nat /\ Confirmations \in Nat /\ Len(canon) \in Nat
      /\ confirmed_through \in Int /\ StartBlock \in Nat
  <2>1. TypeInv /\ FeedInv /\ canon \in Chains  BY DEF AdvanceInv, TypeInv, TypeOK
  <2>2. store' = store
    BY DEF Next, Run, PollHead, FetchNext, RecheckHead, WalkBack, ObserveNext, FetchTransfers, Save, Send,
           Sleep, SendRefused, Resume, Receive, Fail, Crash, Hangup, NodeMoves, vars, outside
  <2>3. confirmed_through \in Int  BY <2>1, LiveChain DEF FeedInv
  <2> QED
    BY <2>1, <2>2, <2>3, ChainsAssumption, StartBlockAssumption, TrackerAssumptions
    DEF TypeInv, TypeOK, NoHeight, T!NoHeight
<1>2. delivered \cup lost \cup InFlight \subseteq delivered' \cup lost' \cup InFlight'
  BY IssuedStays
<1>3. ASSUME canon' = canon, checkpoint' = checkpoint  PROVE SavedCovered'
  BY <1>1, <1>2, <1>3 DEF SavedCovered, BlockRefAt
<1>4. CASE PollHead
  BY <1>3, <1>4 DEF PollHead, outside
<1>5. CASE FetchNext \/ RecheckHead \/ WalkBack \/ ObserveNext \/ FetchTransfers \/ Send \/ Sleep
  BY <1>3, <1>5 DEF FetchNext, RecheckHead, WalkBack, ObserveNext, FetchTransfers, Send, Sleep, outside
<1>6. CASE SendRefused \/ Fail \/ Crash \/ Resume \/ Receive \/ Hangup \/ UNCHANGED vars
  BY <1>3, <1>6 DEF SendRefused, Fail, Crash, Resume, Receive, Hangup, vars, outside
<1>7. CASE NodeMoves
  <2>1. checkpoint' = checkpoint  BY <1>7 DEF NodeMoves
  <2>2. Buried(checkpoint, NodeHead)  BY DEF AdvanceInv, ReachInv
  <2>3. ASSUME NEW n \in Nat, StartBlock <= n, n <= checkpoint
        PROVE  canon'[n + 1] = canon[n + 1]
    <3>1. checkpoint # NoHeight  BY <2>3 DEF NoHeight, T!NoHeight
    <3>2. checkpoint + Confirmations <= Len(canon) - 1  BY <2>2, <3>1 DEF Buried, NodeHead
    <3>3. n + 1 \in 1..Len(canon) /\ (n + 1) + Confirmations <= Len(canon)
      BY <1>1, <2>3, <3>2
    <3> QED  BY <1>1, <1>7, <3>3, FinalMoves
  <2> QED  BY <1>1, <1>2, <2>1, <2>3 DEF SavedCovered, BlockRefAt
<1>8. CASE Save
  <2>1. /\ pc = "save" /\ pc' = "send" /\ UNCHANGED <<canon, delivered, lost, channel, msgs>>
        /\ checkpoint' = checkpoint \/ (checkpoint' = confirmed_through /\ confirmed_through # NoHeight)
    BY <1>8 DEF Save, Unsaved
  <2>2. Issued \subseteq delivered' \cup lost' \cup InFlight'
    <3>1. InChannel' = InChannel /\ InMsgs' = InMsgs  BY <2>1 DEF InChannel, InMsgs
    <3> QED  BY <2>1, <3>1, InFlightIs DEF Issued
  <2>3. ASSUME store = "durable", checkpoint' = confirmed_through, confirmed_through # NoHeight,
               NEW n \in Nat, StartBlock <= n, n <= confirmed_through
        PROVE  canon[n + 1] \in delivered' \cup lost' \cup InFlight'
    <3>1. CASE n <= checkpoint
      BY <1>2, <2>3, <3>1 DEF SavedCovered, BlockRefAt
    <3>2. CASE n > checkpoint
      <4>1. start_block <= n
        <5>1. start_block = StartBlock \/ start_block <= checkpoint + 1  BY DEF IssueInv
        <5> QED  BY <1>1, <2>3, <3>2, <5>1
      <4>2. chain # <<>>
        BY <1>1, <2>3 DEF FeedInv, P!ContractInv, P!EmptyMeansFresh, NoHeight, T!NoHeight, P!NoHeight
      <4>3. PICK a \in live : a.number = n  BY <1>1, <2>3, <4>1, <4>2, LiveFrom
      <4>4. a \in Range(canon)  BY DEF FinalInv, FinalIn
      <4>5. canon[n + 1] = a  BY <1>1, <4>3, <4>4, CanonAt DEF BlockRefAt
      <4>6. a \in Issued \cup lost  BY <2>1 DEF LiveCovered, Gone
      <4> QED  BY <2>1, <2>2, <4>5, <4>6
    <3> QED  BY <1>1, <3>1, <3>2
  <2>4. CASE checkpoint' = checkpoint  BY <1>3, <2>1, <2>4
  <2>5. CASE checkpoint' = confirmed_through /\ confirmed_through # NoHeight
    BY <1>1, <2>1, <2>3, <2>5 DEF SavedCovered, BlockRefAt
  <2> QED  BY <2>1, <2>4, <2>5
<1> QED
  BY <1>4, <1>5, <1>6, <1>7, <1>8 DEF Next, Run

\* With reorgs no deeper than N, whatever fails: once a tick has settled, what the
\* consumer misses of the confirmed chain was on its way to it when one of the two
\* went away, and was saved; without a checkpoint it misses nothing.
THEOREM OnlyInFlightLost ==
  Shallow => (Spec => []OnlyInFlightIsLost)
<1> SUFFICES ASSUME Shallow PROVE Spec => []OnlyInFlightIsLost  OBVIOUS
<1> DEFINE I == SafeInv /\ LiveCovered /\ SavedCovered
<1>1. Init => I
  <2> SUFFICES ASSUME Init PROVE LiveCovered /\ SavedCovered  BY SafeInvInit
  <2>1. live = {} /\ checkpoint = NoHeight  BY DEF Init, T!Init
  <2> QED  BY <2>1 DEF LiveCovered, SavedCovered, NoHeight, T!NoHeight
<1>2. I /\ [Next]_vars => I'  BY SafeInvNext, LiveCoveredNext, SavedCoveredNext
<1>3. I => OnlyInFlightIsLost
  <2> SUFFICES ASSUME SafeInv, LiveCovered, SavedCovered, Settled, listening,
                      NEW b \in Range(canon), b.number \in StartBlock..confirmed_through
               PROVE  b \in delivered \cup (IF store = "durable" THEN lost ELSE {})
    BY DEF OnlyInFlightIsLost, DueBlocks
  <2> USE DEF SafeInv
  <2>1. /\ TypeInv /\ FeedInv /\ canon \in Chains /\ confirmed_through \in Int /\ StartBlock \in Nat
        /\ store \in StoreKinds
    <3>1. TypeInv /\ FeedInv /\ canon \in Chains /\ store \in StoreKinds
      BY FaultsAssumption DEF AdvanceInv, TypeInv, TypeOK
    <3>2. confirmed_through \in Int  BY <3>1, LiveChain DEF FeedInv
    <3> QED  BY <3>1, <3>2, StartBlockAssumption
  <2>2. pc = "poll" /\ chain # <<>> /\ channel = <<>> /\ msgs = <<>>
    BY DEF Settled, IssueInv
  <2>3. InFlight = {} /\ Issued = delivered  BY <2>2, DroppedMessages, InFlightIs DEF Issued
  <2>4. BlockRefAt(b.number) = b /\ b.number \in Nat  BY <2>1, CanonAt
  <2>5. StartBlock <= b.number /\ b.number <= confirmed_through  BY <2>1, <2>4
  <2>6. CASE store = "durable"
    <3>1. confirmed_through # NoHeight  BY <2>4, <2>5 DEF NoHeight, T!NoHeight
    <3>2. checkpoint = confirmed_through  BY <2>2, <2>6, <3>1 DEF AdvanceInv, SavedInv
    <3>3. b \in delivered \cup lost \cup InFlight  BY <2>4, <2>5, <2>6, <3>2 DEF SavedCovered
    <3> QED  BY <2>3, <2>6, <3>3
  <2>7. CASE store = "none"
    <3>1. start_block = StartBlock  BY <2>7 DEF IssueInv
    <3>2. PICK a \in live : a.number = b.number  BY <2>1, <2>2, <2>4, <2>5, <3>1, LiveFrom
    <3>3. a \in Range(canon)  BY DEF FinalInv, FinalIn
    <3>4. BlockRefAt(a.number) = a  BY <2>1, <3>3, CanonAt
    <3>5. a \in delivered  BY <2>2, <2>3, <2>7 DEF LiveCovered, Gone
    <3> QED  BY <2>4, <3>2, <3>4, <3>5
  <2> QED  BY <2>1, <2>6, <2>7 DEF StoreKinds
<1> HIDE DEF I
<1> QED  BY <1>1, <1>2, <1>3, PTL DEF Spec

\* Calls that fail, and the restarts they lead to, skip nothing: only a crash or a
\* consumer that goes away can. (Run poller_crash_skips has the crash.)
THEOREM FailuresSkipNothing ==
  Shallow /\ Faults \subseteq {"error"} => (Spec => []NothingSkipped)
<1> SUFFICES ASSUME Shallow, Faults \subseteq {"error"} PROVE Spec => []NothingSkipped  OBVIOUS
<1> DEFINE Kept == lost = {} /\ (pc # "down" => listening)
<1>1. Init => Kept  BY DEF Init
<1>2. Kept /\ [Next]_vars => Kept'
  <2> SUFFICES ASSUME Kept, [Next]_vars PROVE Kept'  OBVIOUS
  <2>1. ~Crash /\ ~Hangup /\ ~SendRefused  BY DEF Crash, Hangup, SendRefused
  <2>2. CASE PollHead \/ FetchNext \/ RecheckHead \/ WalkBack \/ ObserveNext \/ FetchTransfers
    BY <2>2 DEF PollHead, FetchNext, RecheckHead, WalkBack, ObserveNext, FetchTransfers, outside
  <2>3. CASE Save \/ Send \/ Sleep \/ Fail
    BY <2>3 DEF Save, Send, Sleep, Fail, Stop, outside
  <2>4. CASE Resume \/ Receive \/ NodeMoves \/ UNCHANGED vars
    BY <2>4 DEF Resume, Receive, NodeMoves, vars, outside
  <2> QED  BY <2>1, <2>2, <2>3, <2>4 DEF Next, Run
<1>3. Kept /\ OnlyInFlightIsLost => NothingSkipped
  BY DEF OnlyInFlightIsLost, NothingSkipped, Settled
<1> HIDE DEF Kept
<1> QED  BY <1>1, <1>2, <1>3, OnlyInFlightLost, PTL DEF Spec

-----------------------------------------------------------------------------
(* The floor of what is reported. *)

\* The checkpoint is not saved below the block before StartBlock: the chain was N
\* blocks high there when indexing began. (StartBlock = 0, or no checkpoint, is enough.)
SavedAboveFloor == checkpoint # NoHeight => checkpoint + 1 >= StartBlock

\* Nothing below StartBlock is live or reported.
FloorInv ==
  /\ start_block >= StartBlock
  /\ \A d \in Issued : d.number >= StartBlock

LEMMA FloorInvNext ==
  ASSUME SafeInv, FloorInv, SavedAboveFloor, [Next]_vars
  PROVE  FloorInv'
<1> USE DEF SafeInv
<1>1. /\ TypeInv /\ FeedInv /\ GroundInv /\ StartBlock \in Nat /\ start_block \in Nat
      /\ live \subseteq Blocks /\ \A a \in live : a.number \in Nat
  <2>1. TypeInv /\ FeedInv /\ GroundInv /\ start_block \in Nat  BY DEF AdvanceInv, FeedInv, TypeInv, TypeOK
  <2> QED  BY <2>1, LiveChain, StartBlockAssumption DEF FeedInv
<1>2. start_block' >= StartBlock
  <2>1. CASE UNCHANGED start_block  BY <2>1 DEF FloorInv
  <2>2. CASE start_block' = StartBlock  BY <1>1, <2>2
  <2>3. CASE start_block' = ResumeAt
    BY <1>1, <2>3 DEF ResumeAt, SavedAboveFloor
  <2>4. UNCHANGED start_block \/ start_block' = StartBlock \/ start_block' = ResumeAt
    BY DEF Next, Run, PollHead, FetchNext, RecheckHead, WalkBack, ObserveNext, FetchTransfers, Save, Send,
           Sleep, SendRefused, Resume, Receive, Fail, Crash, Hangup, NodeMoves, Stop, vars, config
  <2> QED  BY <2>1, <2>2, <2>3, <2>4
<1>3. \A a \in live : a.number >= StartBlock
  <2> TAKE a \in live
  <2>1. a.number >= start_block /\ start_block >= StartBlock  BY DEF LowInv, FloorInv
  <2> QED  BY <1>1, <2>1
<1>4. CASE FetchTransfers
  <2>1. pc = "transfers"  BY <1>4 DEF FetchTransfers
  <2>2. Issued' \subseteq Issued \cup update.confirmed  BY <1>1, <1>4, FetchReports DEF Issued
  <2>3. update.confirmed \subseteq live  BY <2>1 DEF FinalInv
  <2> QED  BY <1>2, <1>3, <2>2, <2>3 DEF FloorInv
<1>5. CASE ~FetchTransfers
  BY <1>1, <1>2, <1>5, IssuedOnce DEF FloorInv
<1> QED  BY <1>4, <1>5

\* With reorgs no deeper than N, whatever fails and however often the poller restarts:
\* once a tick has settled, the consumer holds nothing that is off the canonical chain
\* or not confirmed; and never anything below StartBlock, as long as the checkpoint is
\* not saved below it.
THEOREM NothingLeftStale ==
  Shallow => (Spec /\ []SavedAboveFloor => [](NothingStale /\ FloorRespected))
<1> SUFFICES ASSUME Shallow
             PROVE  Spec /\ []SavedAboveFloor => [](NothingStale /\ FloorRespected)
  OBVIOUS
<1> DEFINE I == SafeInv /\ FloorInv
<1>1. Init => I
  <2> SUFFICES ASSUME Init PROVE FloorInv  BY SafeInvInit
  <2>1. start_block = StartBlock /\ channel = <<>> /\ msgs = <<>> /\ delivered = {}
    BY DEF Init
  <2> QED  BY <2>1, DroppedMessages, StartBlockAssumption DEF FloorInv, Issued
<1>2. I /\ SavedAboveFloor /\ [Next]_vars => I'  BY SafeInvNext, FloorInvNext
<1>3. I => NothingStale /\ FloorRespected
  <2> SUFFICES ASSUME SafeInv, FloorInv PROVE NothingStale /\ FloorRespected  OBVIOUS
  <2>1. FloorRespected  BY DEF FloorInv, FloorRespected, Issued
  <2>2. ASSUME Settled, NEW d \in delivered  PROVE d \in DueBlocks
    <3>1. FeedInv /\ canon \in Chains /\ chain # <<>> /\ Last(chain) = Last(canon)
      BY <2>2 DEF SafeInv, AdvanceInv, TypeInv, TypeOK, Settled
    <3>2. d \in Range(canon) /\ d.number + Confirmations < Len(canon) /\ d.number >= StartBlock
      BY DEF SafeInv, FinalInv, FinalIn, FloorInv, Issued
    <3>3. d.number \in Nat  BY <3>1, <3>2, CanonAt
    <3>4. Len(canon) \in 1..Len(canon) /\ Last(canon) = canon[Len(canon)] /\ Last(canon).number = Len(canon) - 1
      BY <3>1, ChainsAssumption DEF Last
    <3>5. confirmed_through >= Last(chain).number - Confirmations
      BY <3>1 DEF FeedInv, P!ContractInv, P!AnyInv, P!HeadRipe, Last
    <3>6. confirmed_through \in Int /\ Confirmations \in Nat /\ StartBlock \in Nat
      BY <3>1, LiveChain, TrackerAssumptions, StartBlockAssumption DEF FeedInv
    <3>7. d.number \in StartBlock..confirmed_through
      BY <3>1, <3>2, <3>3, <3>4, <3>5, <3>6
    <3> QED  BY <3>2, <3>7 DEF DueBlocks
  <2> QED  BY <2>1, <2>2 DEF NothingStale
<1> HIDE DEF I
<1> QED  BY <1>1, <1>2, <1>3, PTL DEF Spec
=============================================================================
