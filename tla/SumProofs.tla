------------------------------ MODULE SumProofs ------------------------------
(***************************************************************************)
(* Induction over the naturals and what the sums of Sums are. The library's *)
(* induction theorems take an operator; here a set of naturals takes its   *)
(* place: one that holds 0 and the successor of each of its members holds  *)
(* every natural.                                                          *)
(***************************************************************************)
EXTENDS Sums, SequencesExt, SequenceTheorems, FiniteSetTheorems, WellFoundedInduction, TLAPS

LEMMA LeastNumber ==
  ASSUME NEW T \in SUBSET Nat, T # {}
  PROVE  \E x \in T : \A y \in T : x <= y
<1>1. IsWellFoundedOn(OpToRel(<, Nat), Nat)  BY NatLessThanWellFounded
<1>2. PICK x \in T : \A y \in T : ~(<<y, x>> \in OpToRel(<, Nat))
  BY <1>1, WFMin
<1>3. \A y \in T : ~(y < x)
  BY <1>2 DEF OpToRel
<1> QED  BY <1>3

\* Up to a bound, which may be any natural.
LEMMA SetInduction ==
  ASSUME NEW N \in Nat, NEW S, 0 \in S, \A n \in 1..N : n - 1 \in S => n \in S
  PROVE  0..N \subseteq S
<1> SUFFICES ASSUME (0..N) \ S # {} PROVE FALSE
  OBVIOUS
<1> DEFINE T == (0..N) \ S
<1>0. T \in SUBSET Nat /\ T # {}
  OBVIOUS
<1> HIDE DEF T
<1>1. PICK x \in T : \A y \in T : x <= y
  BY <1>0, LeastNumber
<1>2. x \in 1..N /\ x - 1 \in S
  BY <1>1 DEF T
<1> QED  BY <1>1, <1>2 DEF T

\* f starts from a value and goes on by a step of each index.
Iterates(f, N, V, first, step) ==
  f \in [0..N -> V] /\ f[0] = first /\ \A n \in 1..N : f[n] = step[n][f[n - 1]]

\* Such an f exists: a function may be defined by recursion.
LEMMA Recursion ==
  ASSUME NEW N \in Nat, NEW V, NEW first \in V, NEW step \in [1..N -> [V -> V]]
  PROVE  \E f : Iterates(f, N, V, first, step)
<1> DEFINE Good(f, m) == /\ f \in [0..N -> V] /\ f[0] = first
                         /\ \A n \in 1..m : f[n] = step[n][f[n - 1]]
           S == {m \in 0..N : \E f : Good(f, m)}
<1>1. 0 \in S
  <2>1. Good([n \in 0..N |-> first], 0)  OBVIOUS
  <2> HIDE DEF Good
  <2> QED  BY <2>1
<1>2. ASSUME NEW m \in 1..N, m - 1 \in S PROVE m \in S
  <2>1. PICK f : Good(f, m - 1)  BY <1>2
  <2> DEFINE g == [f EXCEPT ![m] = step[m][f[m - 1]]]
  <2>2. step[m][f[m - 1]] \in V  BY <2>1
  <2>3. g \in [0..N -> V] /\ g[m] = step[m][f[m - 1]]  BY <2>1, <2>2
  <2>4. \A n \in 0..N : n # m => g[n] = f[n]  BY <2>1
  <2> HIDE DEF g
  <2>5. g[0] = first  BY <2>1, <2>4
  <2>6. \A n \in 1..m : g[n] = step[n][g[n - 1]]  BY <2>1, <2>3, <2>4
  <2>7. Good(g, m)  BY <2>3, <2>5, <2>6
  <2> HIDE DEF Good
  <2> QED  BY <2>7
<1> HIDE DEF S
<1>3. 0..N \subseteq S
  <2>1. \A m \in 1..N : m - 1 \in S => m \in S  BY <1>2
  <2> QED  BY <1>1, <2>1, SetInduction
<1>4. N \in S  BY <1>3
<1> QED  BY <1>4 DEF S, Iterates

LEMMA RunningRule ==
  ASSUME NEW amounts \in Seq(Int)
  PROVE  /\ Len(amounts) \in Nat
         /\ Running(amounts) \in [0..Len(amounts) -> Int]
         /\ Running(amounts)[0] = 0
         /\ \A n \in 1..Len(amounts) : Running(amounts)[n] = Running(amounts)[n - 1] + amounts[n]
<1> DEFINE N == Len(amounts)
           Rule(f) == [n \in 0..N |-> IF n = 0 THEN 0 ELSE f[n - 1] + amounts[n]]
           step == [n \in 1..N |-> [x \in Int |-> x + amounts[n]]]
<1>1. N \in Nat /\ \A n \in 1..N : amounts[n] \in Int  OBVIOUS
<1>2. step \in [1..N -> [Int -> Int]]  BY <1>1
<1>3. PICK f : Iterates(f, N, Int, 0, step)
  <2>1. 0 \in Int  OBVIOUS
  <2> HIDE DEF step, N
  <2> QED  BY <1>1, <1>2, <2>1, Recursion
<1>4. ASSUME NEW n \in 1..N PROVE f[n] = f[n - 1] + amounts[n]
  <2>1. n - 1 \in 0..N  BY <1>1
  <2>3. f[n - 1] \in Int  BY <1>3, <2>1 DEF Iterates
  <2>2. step[n] = [x \in Int |-> x + amounts[n]]  OBVIOUS
  <2> QED  BY <1>3, <2>3, <2>2 DEF Iterates
<1>5. f = Rule(f)  BY <1>1, <1>3, <1>4 DEF Iterates
<1>6. Running(amounts) = CHOOSE g : g = Rule(g)  BY DEF Running
<1>7. Running(amounts) = Rule(Running(amounts))  BY <1>5, <1>6
<1> DEFINE g == Running(amounts)
<1> HIDE DEF g
<1>8. g[0] = 0 /\ \A n \in 1..N : g[n] = g[n - 1] + amounts[n]
  <2>1. g = [n \in 0..N |-> IF n = 0 THEN 0 ELSE g[n - 1] + amounts[n]]  BY <1>7 DEF g
  <2>2. 0 \in 0..N /\ \A n \in 1..N : n \in 0..N /\ n # 0  BY <1>1
  <2> HIDE DEF N
  <2> QED  BY <2>1, <2>2
<1> DEFINE S == {n \in Nat : g[n] \in Int}
<1>9. 0..N \subseteq S
  <2>1. 0 \in S  BY <1>8
  <2>2. \A n \in 1..N : n - 1 \in S => n \in S  BY <1>1, <1>8
  <2> HIDE DEF S
  <2> QED  BY <1>1, <2>1, <2>2, SetInduction
<1>10. g \in [0..N -> Int]
  <2>1. DOMAIN g = 0..N /\ g = [n \in 0..N |-> g[n]]  BY <1>7 DEF g
  <2> QED  BY <1>9, <2>1
<1> QED  BY <1>1, <1>8, <1>10 DEF g

LEMMA RunningStep ==
  ASSUME NEW a \in Seq(Int), NEW n \in 1..Len(a)
  PROVE  /\ Running(a)[n] = Running(a)[n - 1] + a[n]
         /\ Running(a)[n - 1] \in Int /\ Running(a)[n] \in Int /\ a[n] \in Int
<1>1. n \in 0..Len(a) /\ n - 1 \in 0..Len(a) /\ a[n] \in Int  BY RunningRule
<1> QED  BY <1>1, RunningRule

LEMMA TotalType ==
  ASSUME NEW a \in Seq(Int)
  PROVE  Total(a) \in Int
<1>1. Len(a) \in 0..Len(a)  BY RunningRule
<1> QED  BY <1>1, RunningRule DEF Total

\* Two lists that agree so far have the same sums so far.
LEMMA RunningAgree ==
  ASSUME NEW a \in Seq(Int), NEW b \in Seq(Int), NEW N \in Nat, N <= Len(a), N <= Len(b),
         \A n \in 1..N : a[n] = b[n]
  PROVE  \A n \in 0..N : Running(a)[n] = Running(b)[n]
<1> DEFINE S == {n \in Nat : Running(a)[n] = Running(b)[n]}
<1>1. 0 \in S  BY RunningRule
<1>2. ASSUME NEW n \in 1..N, n - 1 \in S PROVE n \in S
  <2>1. n \in 1..Len(a) /\ n \in 1..Len(b)  OBVIOUS
  <2> QED  BY <1>2, <2>1, RunningRule
<1> HIDE DEF S
<1>3. \A n \in 1..N : n - 1 \in S => n \in S  BY <1>2
<1>4. 0..N \subseteq S  BY <1>1, <1>3, SetInduction
<1> QED  BY <1>4 DEF S

LEMMA ConcatAt ==
  ASSUME NEW X, NEW a \in Seq(X), NEW b \in Seq(X)
  PROVE  /\ a \o b \in Seq(X) /\ Len(a \o b) = Len(a) + Len(b)
         /\ \A i \in 1..Len(a) : (a \o b)[i] = a[i]
         /\ \A i \in (Len(a) + 1)..(Len(a) + Len(b)) : (a \o b)[i] = b[i - Len(a)]
BY ConcatProperties

LEMMA RunningConcat ==
  ASSUME NEW a \in Seq(Int), NEW b \in Seq(Int)
  PROVE  /\ a \o b \in Seq(Int) /\ Len(a \o b) = Len(a) + Len(b)
         /\ \A n \in 0..Len(a) : Running(a \o b)[n] = Running(a)[n]
         /\ \A n \in 0..Len(b) : Running(a \o b)[Len(a) + n] = Total(a) + Running(b)[n]
<1> DEFINE c == a \o b
           M == Len(a)
           S == {n \in Nat : Running(c)[M + n] = Total(a) + Running(b)[n]}
<1>1. /\ c \in Seq(Int) /\ Len(c) = M + Len(b) /\ M \in Nat /\ Len(b) \in Nat
      /\ \A n \in 1..M : c[n] = a[n]
      /\ \A n \in 1..Len(b) : c[M + n] = b[n]
  OBVIOUS
<1>2. Total(a) = Running(a)[M] /\ Total(a) \in Int /\ Len(a) = M
  BY TotalType DEF Total
<1> HIDE DEF c, M
<1>3. \A n \in 0..M : Running(c)[n] = Running(a)[n]
  <2>1. M <= Len(a) /\ M <= Len(c)  BY <1>1, <1>2
  <2> QED  BY <1>1, <2>1, RunningAgree
<1>4. 0 \in S
  <2>1. Running(c)[M] = Total(a) /\ M + 0 = M  BY <1>1, <1>2, <1>3
  <2>2. Running(b)[0] = 0  BY RunningRule
  <2> QED  BY <1>2, <2>1, <2>2
<1>5. ASSUME NEW n \in 1..Len(b), n - 1 \in S PROVE n \in S
  <2>0. n \in Nat /\ n >= 1 /\ n <= Len(b)  BY <1>1
  <2>7. c[M + n] = b[n]  BY <1>1, Zenon
  <2>1. M + n \in 1..Len(c) /\ (M + n) - 1 = M + (n - 1)  BY <1>1, <2>0
  <2>2. Running(c)[M + n] = Running(c)[M + (n - 1)] + b[n]
    BY <1>1, <2>7, <2>1, RunningStep
  <2>3. /\ Running(b)[n] = Running(b)[n - 1] + b[n]
        /\ Running(b)[n - 1] \in Int /\ b[n] \in Int
    BY RunningStep
  <2>4. Running(c)[M + (n - 1)] = Total(a) + Running(b)[n - 1]  BY <1>5
  <2>5. Running(c)[M + n] = Total(a) + Running(b)[n]  BY <1>2, <2>2, <2>3, <2>4
  <2> QED  BY <2>0, <2>5
<1> HIDE DEF S
<1>6. \A n \in 1..Len(b) : n - 1 \in S => n \in S  BY <1>5
<1>7. 0..Len(b) \subseteq S  BY <1>1, <1>4, <1>6, SetInduction
<1>8. \A n \in 0..Len(b) : Running(c)[M + n] = Total(a) + Running(b)[n]  BY <1>7 DEF S
<1> QED  BY <1>1, <1>3, <1>8 DEF c, M

LEMMA TotalConcat ==
  ASSUME NEW a \in Seq(Int), NEW b \in Seq(Int)
  PROVE  Total(a \o b) = Total(a) + Total(b)
<1>1. Len(b) \in 0..Len(b)  BY RunningRule
<1> QED  BY <1>1, RunningConcat DEF Total

\* Lists are added up position by position or one after the other alike.
LEMMA TotalAdds ==
  ASSUME NEW a \in Seq(Int), NEW b \in Seq(Int), NEW c \in Seq(Int),
         Len(a) = Len(c), Len(b) = Len(c), \A n \in 1..Len(c) : c[n] = a[n] + b[n]
  PROVE  Total(c) = Total(a) + Total(b)
<1> DEFINE S == {n \in Nat : Running(c)[n] = Running(a)[n] + Running(b)[n]}
<1>1. Len(c) \in Nat /\ 0 \in S  BY RunningRule
<1>2. ASSUME NEW n \in 1..Len(c), n - 1 \in S PROVE n \in S
  <2>1. n \in 1..Len(a) /\ n \in 1..Len(b) /\ n \in Nat  OBVIOUS
  <2>2. Running(c)[n] = Running(c)[n - 1] + c[n]  BY RunningStep
  <2>3. Running(a)[n] = Running(a)[n - 1] + a[n] /\ Running(a)[n - 1] \in Int /\ a[n] \in Int
    BY <2>1, RunningStep
  <2>4. Running(b)[n] = Running(b)[n - 1] + b[n] /\ Running(b)[n - 1] \in Int /\ b[n] \in Int
    BY <2>1, RunningStep
  <2>5. Running(c)[n - 1] = Running(a)[n - 1] + Running(b)[n - 1]  BY <1>2
  <2>6. c[n] = a[n] + b[n]  OBVIOUS
  <2> QED  BY <2>1, <2>2, <2>3, <2>4, <2>5, <2>6
<1> HIDE DEF S
<1>3. \A n \in 1..Len(c) : n - 1 \in S => n \in S  BY <1>2
<1>4. 0..Len(c) \subseteq S  BY <1>1, <1>3, SetInduction
<1>5. Len(c) \in S  BY <1>1, <1>4
<1> QED  BY <1>5 DEF S, Total

LEMMA TotalZero ==
  ASSUME NEW a \in Seq(Int), \A n \in 1..Len(a) : a[n] = 0
  PROVE  Total(a) = 0
<1>1. \A n \in 1..Len(a) : a[n] = a[n] + a[n]  OBVIOUS
<1>2. Total(a) = Total(a) + Total(a)  BY <1>1, TotalAdds
<1> QED  BY <1>2, TotalType

\* A list with its opposite adds up to nothing.
LEMMA TotalOpposite ==
  ASSUME NEW a \in Seq(Int), NEW b \in Seq(Int), Len(a) = Len(b),
         \A n \in 1..Len(a) : b[n] = -a[n]
  PROVE  Total(a) + Total(b) = 0
<1> DEFINE c == [n \in 1..Len(a) |-> 0]
<1>1. c \in Seq(Int) /\ Len(c) = Len(a) /\ \A n \in 1..Len(c) : c[n] = 0
  OBVIOUS
<1>2. \A n \in 1..Len(c) : c[n] = a[n] + b[n]
  BY <1>1
<1> HIDE DEF c
<1>3. Total(c) = Total(a) + Total(b) /\ Total(c) = 0
  BY <1>1, <1>2, TotalAdds, TotalZero
<1> QED  BY <1>3, TotalType

-----------------------------------------------------------------------------
(* Lists of lists put end to end *)

\* FlattenSeq's function: the first i lists put end to end.
Flattens(f, seqs) ==
  f = [i \in 1..Len(seqs) |-> IF i = 1 THEN seqs[i] ELSE f[i - 1] \o seqs[i]]

LEMMA FlattensExists ==
  ASSUME NEW X, NEW seqs \in Seq(Seq(X))
  PROVE  \E f : Flattens(f, seqs)
<1> DEFINE N == Len(seqs)
           V == Seq(X)
           step == [n \in 1..N |-> [x \in V |-> x \o seqs[n]]]
<1>1. N \in Nat /\ <<>> \in V /\ \A n \in 1..N : seqs[n] \in V  OBVIOUS
<1>2. step \in [1..N -> [V -> V]]  BY <1>1
<1>3. PICK h : Iterates(h, N, V, <<>>, step)
  <2> HIDE DEF N, V, step
  <2> QED  BY <1>1, <1>2, Recursion
<1> DEFINE f == [i \in 1..N |-> h[i]]
<1>4. ASSUME NEW i \in 1..N PROVE f[i] = h[i - 1] \o seqs[i] /\ (i # 1 => f[i - 1] = h[i - 1])
  <2>1. i - 1 \in 0..N  BY <1>1
  <2>2. h[i - 1] \in V  BY <1>3, <2>1 DEF Iterates
  <2>3. h[i] = step[i][h[i - 1]]  BY <1>3 DEF Iterates
  <2>4. i # 1 => i - 1 \in 1..N  BY <1>1
  <2> QED  BY <2>2, <2>3, <2>4
<1>5. ASSUME NEW i \in 1..N, i = 1 PROVE f[i] = seqs[i]
  <2>1. h[0] = <<>>  BY <1>3 DEF Iterates
  <2>2. seqs[i] \in Seq(X)  BY <1>1
  <2>3. f[i] = h[i - 1] \o seqs[i]  BY <1>4, Zenon
  <2>5. i - 1 = 0  BY <1>5
  <2>4. f[i] = <<>> \o seqs[i]  BY <2>1, <2>3, <2>5, Zenon
  <2> HIDE DEF f
  <2> QED  BY <2>2, <2>4
<1> HIDE DEF V, step
<1>6. \A i \in 1..N : f[i] = IF i = 1 THEN seqs[i] ELSE f[i - 1] \o seqs[i]
  <2>1. \A i \in 1..N : i # 1 => f[i] = f[i - 1] \o seqs[i]  BY <1>4
  <2> HIDE DEF f
  <2> QED  BY <1>5, <2>1
<1>7. f = [i \in 1..N |-> f[i]]  OBVIOUS
<1> HIDE DEF f
<1>8. f = [i \in 1..N |-> IF i = 1 THEN seqs[i] ELSE f[i - 1] \o seqs[i]]
  BY <1>6, <1>7, Zenon
<1> QED  BY <1>8 DEF Flattens

LEMMA FlattenRule ==
  ASSUME NEW X, NEW seqs \in Seq(Seq(X)), Len(seqs) # 0
  PROVE  \E f : Flattens(f, seqs) /\ FlattenSeq(seqs) = f[Len(seqs)]
<1>1. FlattenSeq(seqs) = (CHOOSE f : Flattens(f, seqs))[Len(seqs)]
  BY DEF FlattenSeq, Flattens
<1> QED  BY <1>1, FlattensExists, Zenon

LEMMA FlattensStep ==
  ASSUME NEW X, NEW seqs \in Seq(Seq(X)), NEW f, Flattens(f, seqs)
  PROVE  \A i \in 1..Len(seqs) : f[i] = (IF i = 1 THEN <<>> ELSE f[i - 1]) \o seqs[i]
<1> TAKE i \in 1..Len(seqs)
<1>1. f[i] = IF i = 1 THEN seqs[i] ELSE f[i - 1] \o seqs[i]
  BY DEF Flattens
<1>2. seqs[i] \in Seq(X)  OBVIOUS
<1>3. seqs[i] = <<>> \o seqs[i]  BY <1>2
<1> QED  BY <1>1, <1>3

LEMMA FlattensType ==
  ASSUME NEW X, NEW seqs \in Seq(Seq(X)), NEW f, Flattens(f, seqs), NEW i \in 1..Len(seqs)
  PROVE  f[i] \in Seq(X)
<1> DEFINE N == Len(seqs)
           S == {n \in Nat : n = 0 \/ f[n] \in Seq(X)}
<1>1. N \in Nat /\ 0 \in S  OBVIOUS
<1>2. ASSUME NEW n \in 1..N, n - 1 \in S PROVE n \in S
  <2>1. f[n] = (IF n = 1 THEN <<>> ELSE f[n - 1]) \o seqs[n]  BY FlattensStep
  <2>2. seqs[n] \in Seq(X) /\ (n # 1 => f[n - 1] \in Seq(X))  BY <1>2
  <2>3. f[n] \in Seq(X)  BY <2>1, <2>2
  <2> QED  BY <2>3
<1>3. \A n \in 1..N : n - 1 \in S => n \in S  BY <1>2
<1> HIDE DEF S
<1>4. 0..N \subseteq S  BY <1>1, <1>3, SetInduction
<1>5. i \in S /\ i # 0  BY <1>4
<1> QED  BY <1>5 DEF S

\* One list more: it comes last.
LEMMA FlattenAppend ==
  ASSUME NEW X, NEW seqs \in Seq(Seq(X)), NEW t \in Seq(X)
  PROVE  /\ FlattenSeq(seqs) \in Seq(X)
         /\ FlattenSeq(Append(seqs, t)) = FlattenSeq(seqs) \o t
<1> DEFINE N == Len(seqs)
           more == Append(seqs, t)
<1>1. /\ more \in Seq(Seq(X)) /\ Len(more) = N + 1 /\ N \in Nat /\ more[N + 1] = t
      /\ \A i \in 1..N : more[i] = seqs[i]
  OBVIOUS
<1> HIDE DEF more
<1>2. PICK g : Flattens(g, more) /\ FlattenSeq(more) = g[Len(more)]
  <2>1. Len(more) # 0  BY <1>1
  <2> QED  BY <1>1, <2>1, FlattenRule
<1>5. \A i \in 1..Len(more) : g[i] = (IF i = 1 THEN <<>> ELSE g[i - 1]) \o more[i]
  BY <1>1, <1>2, FlattensStep
<1>3. CASE N = 0
  <2>1. FlattenSeq(seqs) = seqs /\ seqs = <<>>  BY <1>3 DEF FlattenSeq
  <2>2. 1 \in 1..Len(more)  BY <1>1, <1>3
  <2>3. g[1] = <<>> \o more[1]  BY <1>5, <2>2, Zenon
  <2> QED  BY <1>1, <1>2, <1>3, <2>1, <2>3 DEF more
<1>4. CASE N # 0
  <2>1. PICK f : Flattens(f, seqs) /\ FlattenSeq(seqs) = f[N]
    BY <1>4, FlattenRule
  <2> DEFINE S == {n \in Nat : n = 0 \/ f[n] = g[n]}
  <2>2. 0 \in S  OBVIOUS
  <2>3. ASSUME NEW n \in 1..N, n - 1 \in S PROVE n \in S
    <3>1. n \in 1..Len(more) /\ more[n] = seqs[n]  BY <1>1
    <3>2. f[n] = (IF n = 1 THEN <<>> ELSE f[n - 1]) \o seqs[n]  BY <2>1, FlattensStep
    <3>3. g[n] = (IF n = 1 THEN <<>> ELSE g[n - 1]) \o seqs[n]  BY <1>5, <3>1
    <3>4. n # 1 => f[n - 1] = g[n - 1]  BY <2>3
    <3>5. f[n] = g[n]  BY <3>2, <3>3, <3>4
    <3> QED  BY <3>5
  <2>4. \A n \in 1..N : n - 1 \in S => n \in S  BY <2>3
  <2> HIDE DEF S
  <2>5. 0..N \subseteq S  BY <1>1, <2>2, <2>4, SetInduction
  <2>6. N \in S  BY <1>1, <2>5
  <2>7. f[N] = g[N] /\ f[N] \in Seq(X)
    BY <1>1, <1>4, <2>1, <2>6, FlattensType DEF S
  <2>8. N + 1 \in 1..Len(more) /\ N + 1 # 1 /\ (N + 1) - 1 = N  BY <1>1, <1>4
  <2>9. g[N + 1] = g[N] \o more[N + 1]
    BY <1>5, <2>8
  <2> QED  BY <1>1, <1>2, <2>1, <2>7, <2>9 DEF more
<1> QED  BY <1>3, <1>4

-----------------------------------------------------------------------------
(* Sums of postings *)

\* What is added up are integers.
LEMMA AmountsType ==
  ASSUME NEW X, \A x \in X : x.amount \in Int,
         NEW postings \in Seq(X), NEW accounts, NEW asset
  PROVE  /\ Amounts(postings, accounts, asset) \in Seq(Int)
         /\ Len(Amounts(postings, accounts, asset)) = Len(postings)
<1>1. Len(postings) \in Nat /\ \A i \in 1..Len(postings) : postings[i].amount \in Int
  <2>1. \A i \in 1..Len(postings) : postings[i] \in X  OBVIOUS
  <2> QED  BY <2>1
<1> DEFINE amounts == [i \in 1..Len(postings) |->
    IF postings[i].account \in accounts /\ postings[i].asset = asset THEN postings[i].amount ELSE 0]
<1>2. amounts \in [1..Len(postings) -> Int]  BY <1>1
<1> HIDE DEF amounts
<1>3. amounts \in Seq(Int) /\ Len(amounts) = Len(postings)  BY <1>1, <1>2
<1> QED  BY <1>3 DEF Amounts, amounts

LEMMA AmountsConcat ==
  ASSUME NEW X, \A x \in X : x.amount \in Int,
         NEW p \in Seq(X), NEW q \in Seq(X), NEW accounts, NEW asset
  PROVE  Amounts(p \o q, accounts, asset) = Amounts(p, accounts, asset) \o Amounts(q, accounts, asset)
<1> DEFINE At(s, i) ==
    IF s[i].account \in accounts /\ s[i].asset = asset THEN s[i].amount ELSE 0
<1>1. \A s : Amounts(s, accounts, asset) = [i \in 1..Len(s) |-> At(s, i)]  BY DEF Amounts
<1>2. Amounts(p, accounts, asset) \in Seq(Int) /\ Amounts(q, accounts, asset) \in Seq(Int)
  BY AmountsType
<1>3. /\ Len(Amounts(p, accounts, asset)) = Len(p) /\ Len(Amounts(q, accounts, asset)) = Len(q)
      /\ Len(p) \in Nat /\ Len(q) \in Nat
  BY AmountsType
<1> DEFINE a == Amounts(p, accounts, asset)
           b == Amounts(q, accounts, asset)
           c == a \o b
           pq == p \o q
           d == Amounts(pq, accounts, asset)
<1>4. /\ pq \in Seq(X) /\ Len(pq) = Len(p) + Len(q)
      /\ \A i \in 1..Len(p) : pq[i] = p[i]
      /\ \A i \in (Len(p) + 1)..(Len(p) + Len(q)) : pq[i] = q[i - Len(p)]
  BY <1>3
<1>5. d \in Seq(Int) /\ Len(d) = Len(p) + Len(q)
  BY <1>4, AmountsType
<1> HIDE DEF a, b, pq, d
<1>6. /\ c \in Seq(Int) /\ Len(c) = Len(p) + Len(q)
      /\ \A i \in 1..Len(p) : c[i] = a[i]
      /\ \A i \in (Len(p) + 1)..(Len(p) + Len(q)) : c[i] = b[i - Len(p)]
  <2>1. a \in Seq(Int) /\ b \in Seq(Int) /\ Len(a) = Len(p) /\ Len(b) = Len(q)
    BY <1>2, <1>3 DEF a, b
  <2>2. /\ c \in Seq(Int) /\ Len(c) = Len(a) + Len(b)
        /\ \A i \in 1..Len(a) : c[i] = a[i]
        /\ \A i \in (Len(a) + 1)..(Len(a) + Len(b)) : c[i] = b[i - Len(a)]
    BY <2>1, ConcatAt, Zenon
  <2> HIDE DEF c
  <2> QED  BY <2>1, <2>2
<1> HIDE DEF c
<1>7. ASSUME NEW i \in 1..(Len(p) + Len(q)) PROVE d[i] = c[i]
  <2>0. d[i] = At(pq, i)  BY <1>1, <1>4 DEF d
  <2>1. CASE i \in 1..Len(p)
    <3>1. pq[i] = p[i]  BY <1>4, <2>1
    <3>2. c[i] = At(p, i)  BY <1>1, <1>6, <2>1 DEF a
    <3> QED  BY <2>0, <3>1, <3>2
  <2>2. CASE i \in (Len(p) + 1)..(Len(p) + Len(q))
    <3>1. i - Len(p) \in 1..Len(q)  BY <1>3, <2>2
    <3>2. pq[i] = q[i - Len(p)]  BY <1>4, <2>2
    <3>3. c[i] = At(q, i - Len(p))  BY <1>1, <1>6, <2>2, <3>1 DEF b
    <3> QED  BY <2>0, <3>2, <3>3
  <2> QED  BY <1>3, <2>1, <2>2
<1>8. d = c  BY <1>5, <1>6, <1>7, SeqEqual
<1> QED  BY <1>8 DEF a, b, c, d, pq

\* The only multiple of m between -m and m is zero.
LEMMA ZeroModulo ==
  ASSUME NEW m \in Nat \ {0}, NEW a \in Int, -m < a, a < m, a % m = 0
  PROVE  a = 0
OBVIOUS

-----------------------------------------------------------------------------
(* Sums over sets *)

\* h adds f up over every subset of I, whatever order the elements come in.
Additive(h, f, I) ==
  /\ h[{}] = 0
  /\ \A s \in SUBSET I : h[s] \in Int
  /\ \A s \in SUBSET I : \A x \in I \ s : h[s \cup {x}] = h[s] + f[x]

\* There is such an h.
LEMMA AdditiveExists ==
  ASSUME NEW I, IsFiniteSet(I), NEW f, \A x \in I : f[x] \in Int
  PROVE  \E h : Additive(h, f, I)
<1> DEFINE S == {n \in Nat : \A J \in SUBSET I : Cardinality(J) = n => \E h : Additive(h, f, J)}
           N == Cardinality(I)
<1>1. N \in Nat /\ \A J \in SUBSET I : IsFiniteSet(J) /\ Cardinality(J) \in Nat
  BY FS_CardinalityType, FS_Subset
<1>2. 0 \in S
  <2> SUFFICES ASSUME NEW J \in SUBSET I, Cardinality(J) = 0 PROVE \E h : Additive(h, f, J)
    OBVIOUS
  <2>1. J = {}  BY <1>1, FS_EmptySet
  <2>2. Additive([s \in {{}} |-> 0], f, J)  BY <2>1 DEF Additive
  <2> QED  BY <2>2
<1>3. ASSUME NEW n \in 1..N, n - 1 \in S PROVE n \in S
  <2> SUFFICES ASSUME NEW J \in SUBSET I, Cardinality(J) = n PROVE \E h : Additive(h, f, J)
    OBVIOUS
  <2>1. J # {}  BY FS_EmptySet
  <2>2. PICK y \in J : TRUE  BY <2>1
  <2> DEFINE K == J \ {y}
  <2>3. K \in SUBSET I /\ Cardinality(K) = n - 1  BY <1>1, <2>2, FS_RemoveElement
  <2>4. PICK h : Additive(h, f, K)  BY <1>3, <2>3
  <2> DEFINE g == [s \in SUBSET J |-> IF y \in s THEN h[s \ {y}] + f[y] ELSE h[s]]
  <2>5. g[{}] = 0  BY <2>4 DEF Additive
  <2>6. \A s \in SUBSET J : s \ {y} \in SUBSET K /\ h[s \ {y}] \in Int /\ f[y] \in Int
    BY <2>2, <2>4 DEF Additive
  <2>7. \A s \in SUBSET J : g[s] \in Int
    <3> TAKE s \in SUBSET J
    <3>1. CASE y \in s
      <4>1. g[s] = h[s \ {y}] + f[y]  BY <3>1
      <4>2. h[s \ {y}] \in Int /\ f[y] \in Int  BY <2>6
      <4> HIDE DEF g
      <4> QED  BY <4>1, <4>2
    <3>2. CASE y \notin s
      <4>1. g[s] = h[s] /\ s = s \ {y}  BY <3>2
      <4> QED  BY <2>6, <4>1
    <3> QED  BY <3>1, <3>2
  <2>8. ASSUME NEW s \in SUBSET J, NEW x \in J \ s PROVE g[s \cup {x}] = g[s] + f[x]
    <3>0. s \cup {x} \in SUBSET J /\ f[x] \in Int  OBVIOUS
    <3>1. CASE x = y
      <4>1. (s \cup {x}) \ {y} = s /\ y \notin s  BY <3>1
      <4> QED  BY <3>0, <3>1, <4>1
    <3>2. CASE x # y /\ y \in s
      <4>1. (s \cup {x}) \ {y} = (s \ {y}) \cup {x} /\ x \in K \ (s \ {y}) /\ s \ {y} \in SUBSET K
        BY <3>2
      <4>2. h[(s \ {y}) \cup {x}] = h[s \ {y}] + f[x]  BY <2>4, <4>1 DEF Additive
      <4>3. h[s \ {y}] \in Int /\ f[y] \in Int  BY <2>6
      <4>4. g[s] = h[s \ {y}] + f[y]  BY <3>2
      <4>5. y \in s \cup {x}  BY <3>2
      <4>6. g[s \cup {x}] = h[(s \cup {x}) \ {y}] + f[y]  BY <3>0, <4>5
      <4>7. g[s \cup {x}] = h[s \ {y}] + f[x] + f[y]  BY <4>1, <4>2, <4>6, Zenon
      <4> HIDE DEF g
      <4> QED  BY <3>0, <4>3, <4>4, <4>7
    <3>3. CASE x # y /\ y \notin s
      <4>1. x \in K \ s /\ s \in SUBSET K /\ y \notin s \cup {x}  BY <3>3
      <4>2. h[s \cup {x}] = h[s] + f[x]  BY <2>4, <4>1 DEF Additive
      <4> QED  BY <3>0, <4>1, <4>2
    <3> QED  BY <3>1, <3>2, <3>3
  <2> HIDE DEF g
  <2>9. Additive(g, f, J)  BY <2>5, <2>7, <2>8 DEF Additive
  <2> QED  BY <2>9
<1> HIDE DEF S
<1>4. \A n \in 1..N : n - 1 \in S => n \in S  BY <1>3
<1>5. 0..N \subseteq S  BY <1>1, <1>2, <1>4, SetInduction
<1>6. N \in S  BY <1>1, <1>5
<1> QED  BY <1>6 DEF S

\* The library's sum is that of any such h.
LEMMA SumIsAdditive ==
  ASSUME NEW I, IsFiniteSet(I), NEW f, \A x \in I : f[x] \in Int, NEW h, Additive(h, f, I)
  PROVE  SumFunctionOnSet(f, I) = h[I]
<1> DEFINE Chosen(s) == CHOOSE x \in s : TRUE
           Rule(g) == [s \in SUBSET I |-> IF s = {} THEN 0 ELSE f[Chosen(s)] + g[s \ {Chosen(s)}]]
           N == Cardinality(I)
<1>1. ASSUME NEW s \in SUBSET I, s # {}
      PROVE  /\ Chosen(s) \in s /\ s \ {Chosen(s)} \in SUBSET I
             /\ h[s] = f[Chosen(s)] + h[s \ {Chosen(s)}]
  <2>1. Chosen(s) \in s  BY <1>1
  <2> HIDE DEF Chosen
  <2> DEFINE rest == s \ {Chosen(s)}
  <2>2. rest \in SUBSET I /\ Chosen(s) \in I \ rest /\ rest \cup {Chosen(s)} = s  BY <2>1
  <2> HIDE DEF rest
  <2>3. h[rest \cup {Chosen(s)}] = h[rest] + f[Chosen(s)]  BY <2>2 DEF Additive
  <2>4. h[rest] \in Int /\ f[Chosen(s)] \in Int  BY <2>1, <2>2 DEF Additive
  <2>5. h[s] = h[rest] + f[Chosen(s)]  BY <2>2, <2>3, Zenon
  <2>6. h[s] = f[Chosen(s)] + h[rest]  BY <2>4, <2>5
  <2> QED  BY <2>1, <2>2, <2>6, Zenon DEF rest
<1> HIDE DEF Chosen
<1>2. \E g : g = Rule(g)
  <2> DEFINE g == [s \in SUBSET I |-> h[s]]
  <2>1. ASSUME NEW s \in SUBSET I
        PROVE  g[s] = IF s = {} THEN 0 ELSE f[Chosen(s)] + g[s \ {Chosen(s)}]
    <3>1. CASE s = {}  BY <3>1 DEF Additive
    <3>2. CASE s # {}  BY <1>1, <3>2
    <3> QED  BY <3>1, <3>2
  <2>2. g = [s \in SUBSET I |-> g[s]]  OBVIOUS
  <2> HIDE DEF g
  <2>3. g = Rule(g)  BY <2>1, <2>2, Zenon
  <2> QED  BY <2>3
<1> DEFINE sum == CHOOSE g : g = Rule(g)
<1>3. SumFunctionOnSet(f, I) = sum[I]
  BY DEF SumFunctionOnSet, FoldFunctionOnSet, MapThenFoldSet, Chosen
<1>4. sum = Rule(sum)  BY <1>2
<1> HIDE DEF sum
<1>5. \A s \in SUBSET I : sum[s] = IF s = {} THEN 0 ELSE f[Chosen(s)] + sum[s \ {Chosen(s)}]
  BY <1>4
<1> DEFINE S == {n \in Nat : \A s \in SUBSET I : Cardinality(s) = n => sum[s] = h[s]}
<1>6. N \in Nat /\ \A s \in SUBSET I : IsFiniteSet(s)
  BY FS_CardinalityType, FS_Subset
<1>7. 0 \in S
  <2> SUFFICES ASSUME NEW s \in SUBSET I, Cardinality(s) = 0 PROVE sum[s] = h[s]
    OBVIOUS
  <2>1. s = {}  BY <1>6, FS_EmptySet
  <2> QED  BY <1>5, <2>1 DEF Additive
<1>8. ASSUME NEW n \in 1..N, n - 1 \in S PROVE n \in S
  <2> SUFFICES ASSUME NEW s \in SUBSET I, Cardinality(s) = n PROVE sum[s] = h[s]
    OBVIOUS
  <2>1. s # {}  BY FS_EmptySet
  <2> DEFINE rest == s \ {Chosen(s)}
  <2>2. Chosen(s) \in s /\ rest \in SUBSET I /\ h[s] = f[Chosen(s)] + h[rest]  BY <1>1, <2>1
  <2>3. Cardinality(rest) = n - 1  BY <1>6, <2>2, FS_RemoveElement
  <2>4. sum[rest] = h[rest]  BY <1>8, <2>2, <2>3
  <2>5. sum[s] = f[Chosen(s)] + sum[rest]  BY <1>5, <2>1
  <2> QED  BY <2>2, <2>4, <2>5
<1> HIDE DEF S
<1>9. \A n \in 1..N : n - 1 \in S => n \in S  BY <1>8
<1>10. 0..N \subseteq S  BY <1>6, <1>7, <1>9, SetInduction
<1>11. N \in S  BY <1>6, <1>10
<1> QED  BY <1>3, <1>11 DEF S

\* One element more adds its value, one element less takes it away.
LEMMA SumGrows ==
  ASSUME NEW I, IsFiniteSet(I), NEW x, x \notin I, NEW f, \A y \in I \cup {x} : f[y] \in Int
  PROVE  /\ SumFunctionOnSet(f, I) \in Int
         /\ SumFunctionOnSet(f, I \cup {x}) = SumFunctionOnSet(f, I) + f[x]
<1> DEFINE J == I \cup {x}
<1>1. IsFiniteSet(J)  BY FS_AddElement
<1>2. PICK h : Additive(h, f, J)  BY <1>1, AdditiveExists
<1>3. Additive(h, f, I)  BY <1>2 DEF Additive
<1>4. SumFunctionOnSet(f, J) = h[J] /\ SumFunctionOnSet(f, I) = h[I]
  BY <1>1, <1>2, <1>3, SumIsAdditive
<1>5. h[I] \in Int  BY <1>3 DEF Additive
<1>6. h[I \cup {x}] = h[I] + f[x]  BY <1>2 DEF Additive
<1> QED  BY <1>4, <1>5, <1>6

LEMMA SumOfNone ==
  ASSUME NEW f
  PROVE  SumFunctionOnSet(f, {}) = 0
<1>1. IsFiniteSet({})  BY FS_EmptySet
<1>2. Additive([s \in {{}} |-> 0], f, {})  BY DEF Additive
<1>3. SumFunctionOnSet(f, {}) = [s \in {{}} |-> 0][{}]  BY <1>1, <1>2, SumIsAdditive
<1> QED  BY <1>3

\* What the function is elsewhere does not matter.
LEMMA SumSame ==
  ASSUME NEW I, IsFiniteSet(I), NEW f, NEW g, \A x \in I : f[x] \in Int /\ g[x] = f[x]
  PROVE  SumFunctionOnSet(g, I) = SumFunctionOnSet(f, I)
<1>1. PICK h : Additive(h, f, I)  BY AdditiveExists
<1>2. Additive(h, g, I)  BY <1>1 DEF Additive
<1>3. \A x \in I : g[x] \in Int  OBVIOUS
<1> QED  BY <1>1, <1>2, <1>3, SumIsAdditive

\* The same of the sum over a whole function.
LEMMA FunctionSumType ==
  ASSUME NEW I, IsFiniteSet(I), NEW f \in [I -> Int]
  PROVE  SumFunction(f) \in Int
<1>1. PICK h : Additive(h, f, I)  BY AdditiveExists
<1>2. SumFunction(f) = h[I]  BY <1>1, SumIsAdditive DEF SumFunction
<1> QED  BY <1>1, <1>2 DEF Additive

LEMMA FunctionGrows ==
  ASSUME NEW I, IsFiniteSet(I), NEW x, x \notin I,
         NEW f \in [I -> Int], NEW g \in [I \cup {x} -> Int], \A y \in I : g[y] = f[y]
  PROVE  SumFunction(g) = SumFunction(f) + g[x]
<1>1. SumFunction(f) = SumFunctionOnSet(f, I) /\ SumFunction(g) = SumFunctionOnSet(g, I \cup {x})
  BY DEF SumFunction
<1>2. SumFunctionOnSet(g, I \cup {x}) = SumFunctionOnSet(g, I) + g[x]
  BY SumGrows
<1>3. SumFunctionOnSet(g, I) = SumFunctionOnSet(f, I)
  BY SumSame
<1> QED  BY <1>1, <1>2, <1>3

\* Two amounts.
LEMMA TwoAmounts ==
  ASSUME NEW a \in Seq(Int), Len(a) = 2
  PROVE  /\ Running(a)[0] = 0 /\ Running(a)[1] = a[1] /\ Running(a)[2] = a[1] + a[2]
         /\ Total(a) = a[1] + a[2]
<1>1. 1 \in 1..Len(a) /\ 2 \in 1..Len(a) /\ a[1] \in Int /\ a[2] \in Int  OBVIOUS
<1>2. Running(a)[0] = 0  BY RunningRule
<1>3. Running(a)[1] = Running(a)[0] + a[1]  BY <1>1, RunningStep
<1>4. Running(a)[2] = Running(a)[1] + a[2]
  <2>1. 2 - 1 = 1  OBVIOUS
  <2>2. Running(a)[2] = Running(a)[2 - 1] + a[2]  BY <1>1, RunningStep
  <2> QED  BY <2>1, <2>2, Zenon
<1> QED  BY <1>1, <1>2, <1>3, <1>4 DEF Total
=============================================================================
