--------------------------- MODULE BackfillProofs ---------------------------
(***************************************************************************)
(* Proofs about Backfill: for every width of the integers, every request,  *)
(* every policy and every chain, the windows fit, the retries are spent    *)
(* and the caller gets what RangeRead promises.                            *)
(***************************************************************************)
EXTENDS Backfill, SumProofs, SequenceTheorems, TLAPS

\* What is read before the window at `start': all of the range below it.
ReadSoFar ==
  /\ request.from <= start /\ start <= request.to
  /\ Ideal!Ascending(events)
  /\ \A i \in 1..Len(events) : events[i] \in request.from..(start - 1)
  /\ \A n \in request.from..(start - 1) :
       n <= known => \E i \in 1..Len(events) : events[i] = n

\* The answer there is at each phase.
AnswerFits ==
  /\ phase # "done" => answer = Ideal!NoAnswer
  /\ phase = "done" => \/ answer.outcome = "ok" /\ Ideal!Reads(answer.events)
                       \/ answer.outcome \in Errors /\ answer.events = <<>>

Inv ==
  /\ TypeOK /\ AnswerFits /\ SpendsItsRetries
  /\ phase = "fetch" => ReadSoFar
  /\ phase = "sleep" => attempt < MaxRetries

\* Requests and flaws are of the kinds assumed.
LEMMA Inputs ==
  ASSUME TypeOK
  PROVE  /\ request.from \in Heights /\ request.to \in Heights /\ request.max_span \in Heights
         /\ request.url \in BOOLEAN
         /\ \A n \in Heights : flaw[n] # "none" => flaw[n] \in FlawKinds
BY RequestsAssumption, FlawsAssumption DEF TypeOK

\* The window at `start' is inside the range, not empty, and as wide as the span at
\* most, whatever saturates.
LEMMA WindowFacts ==
  ASSUME TypeOK, request.from <= start, start <= request.to
  PROVE  /\ WindowEnd \in Heights /\ start <= WindowEnd /\ WindowEnd <= request.to
         /\ WindowEnd = start \/ WindowEnd - start < request.max_span
<1>1. /\ start \in Nat /\ MaxHeight \in Nat /\ request.to \in Nat /\ request.max_span \in Nat
      /\ start <= MaxHeight /\ request.to <= MaxHeight
  BY Inputs, HeightsAssumption DEF TypeOK, Heights
<1> QED
  BY <1>1, HeightsAssumption DEF WindowEnd, SaturatingAdd, Span, Lesser, Heights

\* Reading the window at `start' extends what is read up to its end.
LEMMA ReadOneMore ==
  ASSUME TypeOK, ReadSoFar, NEW read, read = Collected(Found(start, WindowEnd))
  PROVE  /\ read \in Seq(Heights)
         /\ Ideal!Ascending(read)
         /\ \A i \in 1..Len(read) : read[i] \in request.from..WindowEnd
         /\ \A n \in request.from..WindowEnd :
              n <= known => \E i \in 1..Len(read) : read[i] = n
<1> DEFINE found == Found(start, WindowEnd)
           last  == Lesser(WindowEnd, head)
<1>1. /\ start \in Nat /\ WindowEnd \in Nat /\ head \in Nat /\ known \in Nat
      /\ request.from \in Nat /\ known <= head /\ request.from <= start
      /\ start <= WindowEnd /\ WindowEnd <= MaxHeight /\ MaxHeight \in Nat
  BY WindowFacts, Inputs, HeightsAssumption DEF TypeOK, ReadSoFar, Heights
<1>2. last \in Nat /\ last <= WindowEnd /\ last <= head /\ (last = WindowEnd \/ last = head)
  BY <1>1 DEF Lesser
<1>3. PICK w \in Nat : /\ found = [i \in 1..w |-> start + i - 1]
                       /\ w = IF last < start THEN 0 ELSE last - start + 1
  <2>1. CASE last < start
    <3>1. 1..(last - start + 1) = 1..0  BY <1>1, <1>2, <2>1
    <3> QED  BY <3>1, <2>1 DEF Found
  <2>2. CASE ~(last < start)
    BY <1>1, <1>2, <2>2 DEF Found
  <2> QED  BY <2>1, <2>2
<1>4. found \in Seq(Heights) /\ Len(found) = w
  <2>1. \A i \in 1..w : start + i - 1 \in Heights
    BY <1>1, <1>2, <1>3 DEF Heights
  <2> QED  BY <1>3, <2>1
<1>5. \A i \in 1..w : found[i] = start + i - 1
  BY <1>3
<1>6. events \in Seq(Heights) /\ Len(events) \in Nat
  BY DEF TypeOK
<1>7. /\ read \in Seq(Heights) /\ Len(read) = Len(events) + w
      /\ \A i \in 1..Len(events) : read[i] = events[i]
      /\ \A i \in 1..w : read[Len(events) + i] = found[i]
  <2>1. read = events \o found
    BY DEF Collected
  <2> HIDE DEF found
  <2>2. read \in Seq(Heights) /\ Len(read) = Len(events) + w
    BY <1>4, <1>6, <2>1, ConcatProperties
  <2>3. \A i \in 1..Len(read) :
          read[i] = IF i <= Len(events) THEN events[i] ELSE found[i - Len(events)]
    BY <1>4, <1>6, <2>1, <2>2, ConcatProperties
  <2>4. ASSUME NEW i \in 1..w  PROVE read[Len(events) + i] = found[i]
    <3>1. Len(events) + i \in 1..Len(read) /\ ~(Len(events) + i <= Len(events))
      BY <1>6, <2>2
    <3>2. (Len(events) + i) - Len(events) = i
      BY <1>6
    <3> QED  BY <2>3, <3>1, <3>2
  <2>5. ASSUME NEW i \in 1..Len(events)  PROVE read[i] = events[i]
    BY <1>6, <2>2, <2>3
  <2> QED  BY <2>2, <2>4, <2>5
<1>8. \A i \in 1..Len(read) : i \notin 1..Len(events) =>
        /\ i - Len(events) \in 1..w
        /\ read[i] = start + (i - Len(events)) - 1
  <2> TAKE i \in 1..Len(read)
  <2> HAVE i \notin 1..Len(events)
  <2>1. i - Len(events) \in 1..w  BY <1>6, <1>7
  <2>2. read[Len(events) + (i - Len(events))] = found[i - Len(events)]  BY <2>1, <1>7
  <2>3. Len(events) + (i - Len(events)) = i  BY <1>6, <1>7
  <2> QED  BY <2>1, <2>2, <2>3, <1>5
<1>9. \A i \in 1..Len(events) : read[i] \in request.from..(start - 1)
  BY <1>7 DEF ReadSoFar
<1>10. Ideal!Ascending(read)
  <2> SUFFICES ASSUME NEW i \in 1..Len(read), NEW j \in 1..Len(read), i < j
               PROVE  read[i] < read[j]
    BY DEF Ideal!Ascending
  <2>1. CASE j \in 1..Len(events)
    <3>1. i \in 1..Len(events)  BY <1>6, <1>7, <2>1
    <3> QED  BY <1>7, <2>1, <3>1 DEF ReadSoFar, Ideal!Ascending
  <2>2. CASE i \in 1..Len(events) /\ j \notin 1..Len(events)
    BY <1>1, <1>6, <1>8, <1>9, <2>2
  <2>3. CASE i \notin 1..Len(events) /\ j \notin 1..Len(events)
    BY <1>1, <1>6, <1>7, <1>8, <2>3
  <2>4. i \notin 1..Len(events) => j \notin 1..Len(events)
    BY <1>6, <1>7
  <2> QED  BY <2>1, <2>2, <2>3, <2>4
<1>11. \A i \in 1..Len(read) : read[i] \in request.from..WindowEnd
  <2> TAKE i \in 1..Len(read)
  <2>1. CASE i \in 1..Len(events)
    BY <1>1, <1>9, <2>1
  <2>2. CASE i \notin 1..Len(events)
    <3>1. i - Len(events) \in 1..w /\ read[i] = start + (i - Len(events)) - 1
      BY <1>8, <2>2
    <3>2. ASSUME NEW k \in 1..w  PROVE start + k - 1 \in request.from..WindowEnd
      BY <1>1, <1>2, <1>3
    <3> QED  BY <3>1, <3>2
  <2> QED  BY <2>1, <2>2
<1>12. ASSUME NEW n \in request.from..WindowEnd, n <= known
       PROVE  \E i \in 1..Len(read) : read[i] = n
  <2>1. CASE n \in request.from..(start - 1)
    <3>1. PICK i \in 1..Len(events) : events[i] = n  BY <1>12, <2>1 DEF ReadSoFar
    <3>2. i \in 1..Len(read) /\ read[i] = n  BY <1>6, <1>7, <3>1
    <3> QED  BY <3>2
  <2>2. CASE n >= start
    <3>1. n - start + 1 \in 1..w  BY <1>1, <1>2, <1>3, <1>12, <2>2
    <3>2. read[Len(events) + (n - start + 1)] = found[n - start + 1]  BY <1>7, <3>1
    <3>3. found[n - start + 1] = start + (n - start + 1) - 1  BY <1>5, <3>1
    <3>4. start + (n - start + 1) - 1 = n  BY <1>1
    <3>5. Len(events) + (n - start + 1) \in 1..Len(read)  BY <1>6, <1>7, <3>1
    <3> QED  BY <3>2, <3>3, <3>4, <3>5
  <2> QED  BY <1>1, <2>1, <2>2
<1> QED  BY <1>7, <1>10, <1>11, <1>12

LEMMA InvInit ==
  Init => Inv
<1> SUFFICES ASSUME Init PROVE Inv
  OBVIOUS
<1>1. TypeOK
  BY HeightsAssumption, PolicyAssumption DEF Init, TypeOK, Heights
<1>2. AnswerFits
  BY DEF Init, AnswerFits, Ideal!NoAnswer
<1>3. SpendsItsRetries
  BY DEF Init, SpendsItsRetries
<1> QED  BY <1>1, <1>2, <1>3 DEF Init, Inv

\* A failure, of whatever kind, either leads to a sleep with a retry left, or to an
\* answer that tells of it.
LEMMA FailureKeepsInv ==
  ASSUME Inv, phase # "sleep", phase # "done", NEW error \in Errors, Failed(error),
         UNCHANGED <<request, flaw, head, known>>
  PROVE  Inv'
<1>1. answer = Ideal!NoAnswer  BY DEF Inv, AnswerFits
<1>2. TypeOK'
  <2>1. CASE MayRetry(error) /\ phase' = "sleep" /\ UNCHANGED <<attempt, start, events, answer>>
    BY <2>1 DEF Inv, TypeOK
  <2>2. CASE Answered(error, <<>>)
    BY <2>2 DEF Inv, TypeOK, Answered
  <2> QED  BY <2>1, <2>2 DEF Failed
<1>3. AnswerFits' /\ (phase' = "fetch" => ReadSoFar')
  BY <1>1 DEF Failed, Answered, AnswerFits
<1>4. SpendsItsRetries'
  <2>1. CASE MayRetry(error) /\ UNCHANGED <<attempt, answer>>
    BY <2>1 DEF Inv, SpendsItsRetries
  <2>2. CASE ~MayRetry(error) /\ Answered(error, <<>>)
    BY <2>2, PolicyAssumption DEF Inv, TypeOK, SpendsItsRetries, MayRetry, Retryable, Answered
  <2> QED  BY <2>1, <2>2 DEF Failed
<1>5. phase' = "sleep" => attempt' < MaxRetries'
  BY DEF Failed, Answered, MayRetry
<1> QED  BY <1>2, <1>3, <1>4, <1>5 DEF Inv

\* The whole of an empty range is nothing.
LEMMA EmptyRange ==
  ASSUME TypeOK, request.from > request.to
  PROVE  Ideal!Reads(<<>>)
<1>1. request.from \in Nat /\ request.to \in Nat
  BY Inputs, HeightsAssumption DEF Heights
<1>2. \A n \in request.from..request.to : FALSE
  BY <1>1
<1> QED  BY <1>2 DEF Ideal!Reads, Ideal!Ascending

LEMMA InvNext ==
  Inv /\ [Next]_vars => Inv'
<1> SUFFICES ASSUME Inv, [Next]_vars PROVE Inv'
  OBVIOUS
<1>0. TypeOK /\ AnswerFits /\ SpendsItsRetries  BY DEF Inv
<1>1. CASE Begin
  <2>1. CASE Failed("url")
    BY <1>1, <2>1, FailureKeepsInv DEF Begin, Errors
  <2>2. CASE request.from > request.to /\ Answered("ok", <<>>)
    <3>1. Ideal!Reads(<<>>)'
      BY <1>0, <1>1, <2>2, EmptyRange DEF Begin, Ideal!Reads, Ideal!Ascending
    <3>2. TypeOK'
      BY <1>0, <1>1, <2>2 DEF Begin, TypeOK, Answered
    <3>3. AnswerFits' /\ SpendsItsRetries'
      BY <2>2, <3>1 DEF Answered, AnswerFits, SpendsItsRetries
    <3> QED  BY <2>2, <3>2, <3>3 DEF Inv, Answered
  <2>3. CASE /\ request.from <= request.to /\ phase' = "fetch"
             /\ start' = request.from /\ events' = <<>>
             /\ UNCHANGED <<attempt, delay, answer>>
    <3>1. TypeOK'
      BY <1>0, <1>1, <2>3, Inputs DEF Begin, TypeOK
    <3>2. AnswerFits' /\ SpendsItsRetries'
      BY <1>0, <1>1, <2>3 DEF Begin, AnswerFits, SpendsItsRetries
    <3>3. request.from \in Nat /\ request.to \in Nat
      BY <1>0, Inputs, HeightsAssumption DEF Heights
    <3>4. ReadSoFar'
      <4>1. \A n \in request.from..(request.from - 1) : FALSE  BY <3>3
      <4> QED  BY <1>1, <2>3, <3>3, <4>1 DEF Begin, ReadSoFar, Ideal!Ascending
    <3> QED  BY <2>3, <3>1, <3>2, <3>4 DEF Inv
  <2> QED  BY <1>1, <2>1, <2>2, <2>3 DEF Begin
<1>2. CASE FetchWindow
  <2> DEFINE read == Collected(Found(start, WindowEnd))
  <2>1. ReadSoFar /\ phase = "fetch"  BY <1>2 DEF Inv, FetchWindow
  <2>2. /\ read \in Seq(Heights)
        /\ Ideal!Ascending(read)
        /\ \A i \in 1..Len(read) : read[i] \in request.from..WindowEnd
        /\ \A n \in request.from..WindowEnd :
             n <= known => \E i \in 1..Len(read) : read[i] = n
    BY <1>0, <2>1, ReadOneMore
  <2>3. /\ WindowEnd \in Heights /\ start <= WindowEnd /\ WindowEnd <= request.to
        /\ request.to \in Heights /\ request.from \in Heights /\ start \in Heights
    BY <1>0, <2>1, WindowFacts, Inputs DEF ReadSoFar, TypeOK
  <2> HIDE DEF read
  <2>4. CASE WindowEnd = request.to /\ Answered("ok", read)
    <3>1. TypeOK'
      BY <1>0, <1>2, <2>2, <2>4 DEF FetchWindow, TypeOK, Answered
    <3>2. answer' = [outcome |-> "ok", events |-> read] /\ phase' = "done"
      BY <2>4 DEF Answered
    <3>3. Ideal!Reads(read)
      BY <2>2, <2>4 DEF Ideal!Reads
    <3>4. UNCHANGED <<request, known>>
      BY <1>2 DEF FetchWindow
    <3>5. Ideal!Reads(answer.events)'
      BY <3>2, <3>3, <3>4 DEF Ideal!Reads, Ideal!Ascending
    <3>6. AnswerFits' /\ SpendsItsRetries'
      BY <3>2, <3>5 DEF AnswerFits, SpendsItsRetries
    <3> QED  BY <3>1, <3>2, <3>6 DEF Inv
  <2>5. CASE /\ WindowEnd # request.to
             /\ start' = WindowEnd + 1 /\ events' = read
             /\ UNCHANGED <<phase, attempt, delay, answer>>
    <3>1. WindowEnd + 1 \in Heights /\ WindowEnd + 1 <= request.to /\ (WindowEnd + 1) - 1 = WindowEnd
          /\ request.from <= WindowEnd + 1
      BY <2>1, <2>3, <2>5, HeightsAssumption DEF Heights, ReadSoFar
    <3>2. TypeOK'
      BY <1>0, <1>2, <2>2, <2>5, <3>1 DEF FetchWindow, TypeOK
    <3>3. AnswerFits' /\ SpendsItsRetries'
      BY <1>0, <1>2, <2>1, <2>5 DEF FetchWindow, AnswerFits, SpendsItsRetries
    <3>4. ReadSoFar'
      BY <1>2, <2>2, <2>5, <3>1 DEF FetchWindow, ReadSoFar, Ideal!Ascending
    <3> QED  BY <2>1, <2>5, <3>2, <3>3, <3>4 DEF Inv
  <2> QED  BY <1>2, <2>4, <2>5 DEF FetchWindow, read
<1>3. CASE DecodeFails
  <2>1. PICK n \in Window : FirstFlawed(n) /\ Failed(flaw[n])
    BY <1>3 DEF DecodeFails
  <2>2. ReadSoFar  BY <1>3 DEF Inv, DecodeFails
  <2>3. n \in Heights
    BY <1>0, <2>1, <2>2, WindowFacts, HeightsAssumption DEF Window, Heights, TypeOK, ReadSoFar
  <2>4. flaw[n] \in Errors
    BY <1>0, <2>1, <2>3, Inputs DEF FirstFlawed, Flawed, Errors
  <2> QED  BY <1>3, <2>1, <2>4, FailureKeepsInv DEF DecodeFails
<1>4. CASE CallFails
  BY <1>4, FailureKeepsInv DEF CallFails, Errors
<1>5. CASE Wake
  <2>1. TypeOK'
    BY <1>0, <1>5, PolicyAssumption DEF Inv, Wake, TypeOK, NextAttempt
  <2>2. AnswerFits'
    BY <1>0, <1>5 DEF Wake, AnswerFits
  <2>3. SpendsItsRetries'
    BY <1>0, <1>5 DEF Wake, AnswerFits, SpendsItsRetries, Ideal!NoAnswer
  <2> QED  BY <1>5, <2>1, <2>2, <2>3 DEF Inv, Wake
<1>6. CASE Grow
  <2>1. TypeOK'
    BY <1>0, <1>6, HeightsAssumption DEF Grow, TypeOK, Heights
  <2>2. AnswerFits' /\ SpendsItsRetries' /\ (phase' = "fetch" => ReadSoFar')
    BY <1>6 DEF Inv, Grow, AnswerFits, SpendsItsRetries, ReadSoFar,
                Ideal!Reads, Ideal!Ascending, Ideal!NoAnswer
  <2> QED  BY <1>6, <2>1, <2>2 DEF Inv, Grow
<1>7. CASE UNCHANGED vars
  BY <1>7 DEF Inv, vars, TypeOK, AnswerFits, SpendsItsRetries, ReadSoFar,
              Ideal!Reads, Ideal!Ascending, Ideal!NoAnswer
<1> QED  BY <1>1, <1>2, <1>3, <1>4, <1>5, <1>6, <1>7 DEF Next, Task

LEMMA InvHolds ==
  Spec => []Inv
BY InvInit, InvNext, PTL DEF Spec

\* The types, the number of attempts included, for every width and policy.
THEOREM TypeCorrect ==
  Spec => []TypeOK
<1>1. Inv => TypeOK  BY DEF Inv
<1> QED  BY <1>1, InvHolds, PTL

\* Every window asked for makes progress inside the range and the span, for every
\* width of the integers: neither u64::MAX nor a span of 0 is special.
THEOREM WindowsAlwaysFit ==
  Spec => []WindowsFit
<1>1. Inv => WindowsFit
  <2> SUFFICES ASSUME Inv, phase = "fetch" PROVE WindowsFit
    BY DEF WindowsFit
  <2>1. TypeOK /\ ReadSoFar  BY DEF Inv
  <2> QED  BY <2>1, WindowFacts DEF WindowsFit, ReadSoFar
<1> QED  BY <1>1, InvHolds, PTL

\* A transport failure reaches the caller only after the last retry.
THEOREM RetriesAreSpent ==
  Spec => []SpendsItsRetries
<1>1. Inv => SpendsItsRetries  BY DEF Inv
<1> QED  BY <1>1, InvHolds, PTL

\* The loop of windows inside the loop of attempts implements one read of the whole
\* range.
THEOREM BackfillImplementsRangeRead ==
  Spec => ImplementsRangeRead
<1>1. Init => Ideal!Init
  BY DEF Init, Ideal!Init, Ideal!NoAnswer
<1>2. Inv /\ Inv' /\ [Next]_vars => [Ideal!Next]_<<request, known, answer>>
  <2> SUFFICES ASSUME Inv, Inv', [Next]_vars, answer' # answer
               PROVE  Ideal!Next /\ UNCHANGED <<request, known>>
    BY DEF Next, Task, Begin, FetchWindow, DecodeFails, CallFails, Wake, Grow, vars
  <2>1. UNCHANGED <<request, known>>
    BY DEF Next, Task, Begin, FetchWindow, DecodeFails, CallFails, Wake, Grow, vars
  <2>2. phase # "done"
    BY DEF Next, Task, Begin, FetchWindow, DecodeFails, CallFails, Wake, Grow, vars
  <2>3. phase' = "done"
    BY DEF Next, Task, Begin, FetchWindow, DecodeFails, CallFails, Wake, Grow, vars,
           Failed, Answered
  <2>4. answer = Ideal!NoAnswer
    BY <2>2 DEF Inv, AnswerFits
  <2>5. \/ answer'.outcome = "ok" /\ Ideal!Reads(answer'.events)
        \/ answer'.outcome \in Errors /\ answer'.events = <<>>
    BY <2>1, <2>3 DEF Inv, AnswerFits, Ideal!Reads, Ideal!Ascending
  <2> QED  BY <2>1, <2>4, <2>5 DEF Ideal!Next, Ideal!Read
<1> QED  BY <1>1, <1>2, InvHolds, PTL DEF Spec, ImplementsRangeRead, Ideal!Spec

-----------------------------------------------------------------------------
(* The backoff. *)

\* The factor is doubled from one attempt to the next, until it saturates.
LEMMA FactorRule ==
  /\ \A n \in 0..MaxRetries : Factor(n) \in 1..MaxFactor
  /\ \A n \in 1..MaxRetries : Factor(n) = Lesser(2 * Factor(n - 1), MaxFactor)
<1> DEFINE V    == 1..MaxFactor
           Rule(f) == [i \in 0..MaxRetries |-> IF i = 0 THEN 1 ELSE Lesser(2 * f[i - 1], MaxFactor)]
           step == [n \in 1..MaxRetries |-> [x \in V |-> Lesser(2 * x, MaxFactor)]]
           g    == CHOOSE f : f = Rule(f)
<1>1. MaxRetries \in Nat /\ MaxFactor \in Nat /\ MaxFactor > 0 /\ 1 \in V
  BY PolicyAssumption
<1>2. \A x \in V : Lesser(2 * x, MaxFactor) \in V  BY <1>1 DEF Lesser
<1>3. PICK f : Iterates(f, MaxRetries, V, 1, step)
  <2>1. step \in [1..MaxRetries -> [V -> V]]  BY <1>2
  <2> HIDE DEF step, V
  <2> QED  BY <1>1, <2>1, Recursion
<1>4. ASSUME NEW n \in 1..MaxRetries  PROVE f[n] = Lesser(2 * f[n - 1], MaxFactor)
  <2>1. n - 1 \in 0..MaxRetries  BY <1>1
  <2>2. f[n - 1] \in V  BY <1>3, <2>1 DEF Iterates
  <2>3. step[n] = [x \in V |-> Lesser(2 * x, MaxFactor)]  OBVIOUS
  <2> HIDE DEF V
  <2> QED  BY <1>3, <2>2, <2>3 DEF Iterates
<1>5. f = Rule(f)
  <2> HIDE DEF V
  <2> QED  BY <1>1, <1>3, <1>4 DEF Iterates
<1>6. g = Rule(g)  BY <1>5
<1>7. \A n : Factor(n) = g[n]  BY DEF Factor
<1> HIDE DEF g
<1>8. /\ g[0] = 1
      /\ \A n \in 1..MaxRetries : g[n] = Lesser(2 * g[n - 1], MaxFactor)
  <2>1. 0 \in 0..MaxRetries /\ \A n \in 1..MaxRetries : n \in 0..MaxRetries /\ n # 0  BY <1>1
  <2> QED  BY <1>6, <2>1
<1> DEFINE S == {n \in Nat : g[n] \in V}
<1>9. 0..MaxRetries \subseteq S
  <2>1. 0 \in S  BY <1>1, <1>8
  <2>2. \A n \in 1..MaxRetries : n - 1 \in S => n \in S  BY <1>1, <1>2, <1>8
  <2> HIDE DEF S
  <2> QED  BY <1>1, <2>1, <2>2, SetInduction
<1> QED  BY <1>7, <1>8, <1>9

\* The delays do not get shorter from one attempt to the next, nor longer than the ceiling.
LEMMA DelayGrows ==
  /\ \A n \in 0..MaxRetries : DelayFor(n) \in 0..MaxDelay
  /\ \A n \in 1..MaxRetries : DelayFor(n - 1) <= DelayFor(n)
<1>1. /\ MaxRetries \in Nat /\ MaxFactor \in Nat /\ MaxDuration \in Nat /\ BaseDelay \in Nat
      /\ MaxDelay \in Nat
  BY PolicyAssumption
<1>2. \A b, x, y \in Nat : b * x \in Nat /\ (x <= y => b * x <= b * y)  OBVIOUS
<1>3. \A n \in 0..MaxRetries : Factor(n) \in Nat /\ Factor(n) <= MaxFactor
  BY <1>1, FactorRule
<1>4. ASSUME NEW n \in 1..MaxRetries  PROVE Factor(n - 1) <= Factor(n)
  <2>1. n - 1 \in 0..MaxRetries  BY <1>1
  <2> QED  BY <1>1, <1>3, <2>1, FactorRule DEF Lesser
<1>5. ASSUME NEW n \in 0..MaxRetries  PROVE DelayFor(n) \in 0..MaxDelay
  <2>1. BaseDelay * Factor(n) \in Nat  BY <1>1, <1>2, <1>3
  <2> QED  BY <1>1, <2>1 DEF DelayFor, Lesser
<1>6. ASSUME NEW n \in 1..MaxRetries  PROVE DelayFor(n - 1) <= DelayFor(n)
  <2>1. n - 1 \in 0..MaxRetries /\ n \in 0..MaxRetries  BY <1>1
  <2> DEFINE a == BaseDelay * Factor(n - 1)
             b == BaseDelay * Factor(n)
  <2>2. a \in Nat /\ b \in Nat /\ a <= b  BY <1>1, <1>2, <1>3, <1>4, <2>1
  <2>3. /\ DelayFor(n - 1) = Lesser(Lesser(a, MaxDuration), MaxDelay)
        /\ DelayFor(n) = Lesser(Lesser(b, MaxDuration), MaxDelay)
    BY DEF DelayFor
  <2> HIDE DEF a, b
  <2> QED  BY <1>1, <2>2, <2>3 DEF Lesser
<1> QED  BY <1>5, <1>6

\* The last sleep was no longer than the next one will be.
DelayInv == delay \in Nat /\ delay <= DelayFor(attempt)

LEMMA DelayInvNext ==
  ASSUME TypeOK, TypeOK', DelayInv, [Next]_vars
  PROVE  DelayInv' /\ [delay' \in delay..MaxDelay]_vars
<1>1. attempt \in 0..MaxRetries /\ attempt' \in 0..MaxRetries /\ MaxRetries \in Nat /\ MaxDelay \in Nat
  BY PolicyAssumption DEF TypeOK
<1>2. DelayFor(attempt) \in 0..MaxDelay /\ DelayFor(attempt') \in 0..MaxDelay
  BY <1>1, DelayGrows
<1>3. ASSUME UNCHANGED <<delay, attempt>>  PROVE DelayInv' /\ delay' \in delay..MaxDelay
  <2>1. DelayInv'  BY <1>3 DEF DelayInv
  <2>2. delay \in delay..MaxDelay  BY <1>2, <1>1 DEF DelayInv
  <2> QED  BY <1>3, <2>1, <2>2
<1>4. ASSUME NEW error, Failed(error)  PROVE DelayInv' /\ delay' \in delay..MaxDelay
  <2>1. CASE delay' = DelayFor(attempt) /\ attempt' = attempt
    <3>1. delay' \in delay..MaxDelay  BY <1>1, <1>2, <2>1 DEF DelayInv
    <3>2. delay' \in Nat /\ delay' <= DelayFor(attempt')  BY <1>2, <2>1
    <3> QED  BY <3>1, <3>2 DEF DelayInv
  <2>2. CASE Answered(error, <<>>)  BY <1>3, <2>2 DEF Answered
  <2> QED  BY <1>4, <2>1, <2>2 DEF Failed
<1>5. CASE Wake
  <2>1. delay' = delay /\ attempt' = attempt + 1  BY <1>5 DEF Wake, NextAttempt
  <2>2. attempt' \in 1..MaxRetries /\ attempt' - 1 = attempt  BY <1>1, <2>1
  <2>3. DelayFor(attempt) <= DelayFor(attempt')
    <3>1. DelayFor(attempt' - 1) <= DelayFor(attempt')  BY <2>2, DelayGrows
    <3> QED  BY <2>2, <3>1
  <2>4. delay' \in Nat /\ delay' <= DelayFor(attempt')  BY <1>2, <2>1, <2>3 DEF DelayInv
  <2>5. delay' \in delay..MaxDelay  BY <1>1, <1>2, <2>1 DEF DelayInv
  <2> QED  BY <2>4, <2>5 DEF DelayInv
<1>6. CASE Begin \/ FetchWindow
  BY <1>3, <1>4, <1>6 DEF Begin, FetchWindow, Answered
<1>7. CASE DecodeFails \/ CallFails
  BY <1>4, <1>7 DEF DecodeFails, CallFails
<1>8. CASE Grow \/ UNCHANGED vars
  BY <1>3, <1>8 DEF Grow, vars
<1> QED  BY <1>5, <1>6, <1>7, <1>8 DEF Next, Task

\* The sleeps of one call never get shorter nor longer than the ceiling, whatever
\* saturates on the way: the factor, or its product with the base delay.
THEOREM BackoffOnlyGrows ==
  Spec => BackoffNeverShrinks
<1>1. Init => DelayInv
  <2> SUFFICES ASSUME Init PROVE DelayInv  OBVIOUS
  <2>1. delay = 0 /\ attempt = 0 /\ MaxRetries \in Nat  BY PolicyAssumption DEF Init
  <2>2. DelayFor(0) \in 0..MaxDelay  BY <2>1, DelayGrows
  <2> QED  BY <2>1, <2>2, PolicyAssumption DEF DelayInv
<1>2. TypeOK /\ TypeOK' /\ DelayInv /\ [Next]_vars => DelayInv' /\ [delay' \in delay..MaxDelay]_vars
  BY DelayInvNext
<1> QED  BY <1>1, <1>2, TypeCorrect, PTL DEF Spec, BackoffNeverShrinks
=============================================================================
