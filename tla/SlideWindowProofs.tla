-------------------------- MODULE SlideWindowProofs --------------------------
(***************************************************************************)
(* For any times, any number of them, any resolution of the clock: the       *)
(* calculator never panics, and what it returns depends on the set of times. *)
(***************************************************************************)
EXTENDS SlideWindow, TLAPS

\* A width the two functions of window_category.go choose is a whole number of
\* ticks within the bounds MustSlideWindowWidth checks.
LEMMA TargetInBounds ==
    ASSUME NEW type \in TaskTypes
    PROVE  GetTargetAtWindowWidth(type) \in Int /\ InBounds(GetTargetAtWindowWidth(type))
BY SecondAssumption
   DEF GetTargetAtWindowWidth, InBounds, WindowWidthShort, WindowWidthBase,
       MinSlideWindowWidth, MaxSlideWindowWidth, Minute

LEMMA IntermediateInBounds ==
    ASSUME NEW type \in TaskTypes, NEW interval \in Int
    PROVE  /\ GetIntermediateWindowWidth(type, interval) \in Int
           /\ InBounds(GetIntermediateWindowWidth(type, interval))
<1>1. RawWidth(interval) \in Int
  BY DEF RawWidth
<1>2. /\ MaxWidth(type) \in Int /\ MinSlideWindowWidth \in Int
      /\ MinSlideWindowWidth <= MaxWidth(type) /\ MaxWidth(type) <= MaxSlideWindowWidth
  BY SecondAssumption
     DEF MaxWidth, IntermediateMaxWidthShort, MinSlideWindowWidth, MaxSlideWindowWidth, Minute
<1>. QED
  BY <1>1, <1>2, SecondAssumption
     DEF GetIntermediateWindowWidth, InBounds, MaxSlideWindowWidth, Minute

\* An intermediate window is no longer than the interval, or than a minute.
LEMMA IntermediateFits ==
    ASSUME NEW type \in TaskTypes, NEW interval \in Nat
    PROVE  \/ GetIntermediateWindowWidth(type, interval) <= interval
           \/ GetIntermediateWindowWidth(type, interval) = MinSlideWindowWidth
<1>1. RawWidth(interval) \in Int /\ RawWidth(interval) <= interval
  BY DEF RawWidth
<1>2. MaxWidth(type) \in Int /\ MinSlideWindowWidth \in Int
  BY SecondAssumption
     DEF MaxWidth, IntermediateMaxWidthShort, MinSlideWindowWidth, MaxSlideWindowWidth, Minute
<1>. QED
  BY <1>1, <1>2 DEF GetIntermediateWindowWidth

\* A width in bounds is in bounds again after it was cut to whole seconds.
LEMMA CutToSecondsInBounds ==
    ASSUME NEW w \in Int, InBounds(w)
    PROVE  InBounds(FromSeconds(Seconds(w)))
<1>. DEFINE s == w \div Second
            r == w % Second
<1>1. s \in Int /\ r \in Int /\ w = Second * s + r /\ 0 <= r /\ r < Second
  BY SecondAssumption
<1>2. Seconds(w) = s
  BY DEF Seconds
<1>. HIDE DEF s, r
<1>3. 60 * Second <= w /\ w <= 600 * Second
  BY SecondAssumption DEF InBounds, MinSlideWindowWidth, MaxSlideWindowWidth, Minute
<1>4. 60 <= s
  <2>1. SUFFICES ASSUME s <= 59 PROVE FALSE
    BY <1>1
  <2>2. Second * s <= Second * 59
    BY <1>1, <2>1, SecondAssumption
  <2>. QED
    BY <1>1, <1>3, <2>2, SecondAssumption
<1>5. s <= 600
  <2>1. SUFFICES ASSUME s >= 601 PROVE FALSE
    BY <1>1
  <2>2. Second * s >= Second * 601
    BY <1>1, <2>1, SecondAssumption
  <2>. QED
    BY <1>1, <1>3, <2>2, SecondAssumption
<1>6. 60 * Second <= s * Second /\ s * Second <= 600 * Second
  BY <1>1, <1>4, <1>5, SecondAssumption
<1>. QED
  BY <1>2, <1>6, SecondAssumption
     DEF InBounds, FromSeconds, MinSlideWindowWidth, MaxSlideWindowWidth, Minute

-----------------------------------------------------------------------------
(* The loop. *)

\* The sequences of the model are functions on their indices.
LEMMA TimeListIsSeq ==
    ASSUME NEW s \in TimeLists
    PROVE  /\ Len(s) \in 0..MaxTimes
           /\ s \in [1..Len(s) -> Times]
           /\ s \in Seq(Times)
<1>1. PICK n \in 0..MaxTimes : s \in [1..n -> Times]
  BY DEF TimeLists
<1>2. s \in Seq(Times) /\ Len(s) = n
  BY <1>1, MaxTimesAssumption
<1>. QED
  BY <1>1, <1>2

LEMMA FunctionIsTimeList ==
    ASSUME NEW n \in 0..MaxTimes, NEW s \in [1..n -> Times]
    PROVE  s \in TimeLists /\ Len(s) = n /\ DOMAIN s = 1..n
<1>1. s \in Seq(Times) /\ Len(s) = n
  BY MaxTimesAssumption
<1>. QED
  BY <1>1 DEF TimeLists

SortedOK ==
    /\ Len(sorted) = Len(times)
    /\ NonDecreasing(sorted)
    /\ Asked = {sorted[k] : k \in 1..Len(sorted)}

\* Where the loop stands: it has written the entries of the times before i.
LoopOK ==
    /\ pc = "sort" => i = 1 /\ sorted = <<>>
    /\ pc # "sort" => SortedOK
    /\ pc = "loop" => i \in 1..Len(sorted)
    /\ pc = "done" => i = Len(sorted) + 1
    /\ DOMAIN widths = {sorted[k] : k \in 1..(i - 1)}
    /\ i - 1 <= Len(sorted)

\* What it has written is right, but for the entry it is about to write again
\* because the time of i is the one before.
WrittenOK ==
    \A k \in 1..(i - 1) :
        (i <= Len(sorted) => sorted[k] < sorted[i])
            => widths[sorted[k]] = WidthOf(sorted[k])

\* The inductive invariant.
IInv ==
    /\ TypeOK
    /\ NoPanic
    /\ LoopOK
    /\ \A t \in DOMAIN widths : InBounds(widths[t])
    /\ WrittenOK

LEMMA InitIInv == Init => IInv
<1>. SUFFICES ASSUME Init PROVE IInv
  OBVIOUS
<1>1. <<>> \in TimeLists /\ Len(<<>>) = 0
  <2>1. 0 \in 0..MaxTimes
    BY MaxTimesAssumption
  <2>2. <<>> \in [1..0 -> Times]
    OBVIOUS
  <2>. QED
    BY <2>1, <2>2, FunctionIsTimeList
<1>2. TypeOK
  BY <1>1, MaxTimesAssumption DEF Init, TypeOK
<1>. QED
  BY <1>1, <1>2 DEF Init, IInv, NoPanic, LoopOK, WrittenOK

LEMMA SortKeepsIInv == IInv /\ Sort => IInv'
<1>. SUFFICES ASSUME IInv, Sort PROVE IInv'
  OBVIOUS
<1>. DEFINE n == Len(times)
<1>1. n \in 0..MaxTimes /\ times \in [1..n -> Times]
  BY TimeListIsSeq DEF IInv, TypeOK
<1>2. PICK f \in [1..n -> 1..n] : IsReordering(sorted', times, f)
  BY DEF Sort
<1>3. sorted' = [k \in 1..n |-> times[f[k]]]
  BY <1>2 DEF IsReordering
<1>. HIDE DEF n
<1>4. sorted' \in TimeLists /\ Len(sorted') = n
  <2>1. sorted' \in [1..n -> Times]
    BY <1>1, <1>2, <1>3
  <2>. QED
    BY <1>1, <2>1, FunctionIsTimeList
<1>5. Asked' = {sorted'[k] : k \in 1..Len(sorted')}
  <2>1. Asked' = {times[k] : k \in 1..n}
    BY DEF Asked, Sort, n
  <2>2. \A k \in 1..n : \E j \in 1..n : f[j] = k
    BY <1>2 DEF IsReordering, n
  <2>3. \A k \in 1..n : sorted'[k] = times[f[k]] /\ f[k] \in 1..n
    BY <1>2, <1>3
  <2>4. \A k \in 1..n : \E j \in 1..n : sorted'[j] = times[k]
    <3>1. TAKE k \in 1..n
    <3>2. PICK j \in 1..n : f[j] = k
      BY <2>2
    <3>3. sorted'[j] = times[k]
      BY <2>3, <3>2
    <3>. QED
      BY <3>3
  <2>5. {times[k] : k \in 1..n} = {sorted'[k] : k \in 1..n}
    <3>1. \A k \in 1..n : times[k] \in {sorted'[j] : j \in 1..n}
      BY <2>4
    <3>2. \A k \in 1..n : sorted'[k] \in {times[j] : j \in 1..n}
      BY <2>3
    <3>. QED
      BY <3>1, <3>2
  <2>. QED
    BY <1>4, <2>1, <2>5
<1>6. SortedOK'
  BY <1>4, <1>5 DEF SortedOK, Sort, n
<1>7. i = 1 /\ widths = <<>> /\ DOMAIN widths = {}
  BY DEF IInv, LoopOK, Sort
<1>8. TypeOK'
  BY <1>4, <1>7 DEF IInv, TypeOK, Sort
<1>9. LoopOK'
  BY <1>1, <1>4, <1>6, <1>7 DEF LoopOK, Sort, n
<1>. QED
  BY <1>7, <1>8, <1>9 DEF IInv, NoPanic, WrittenOK, Sort

\* The width of index i is the one its time should have, unless the same time
\* follows.
LEMMA WidthAtIsRight ==
    ASSUME IInv, pc = "loop",
           i < Len(sorted) => sorted[i] < sorted[i + 1]
    PROVE  WidthAt(i) = WidthOf(sorted[i])
<1>. DEFINE n == Len(sorted)
<1>1. n \in Nat /\ i \in 1..n /\ sorted \in [1..n -> Nat]
  BY TimeListIsSeq, TimesAssumption DEF IInv, TypeOK, LoopOK
<1>2. NonDecreasing(sorted) /\ Asked = {sorted[k] : k \in 1..n}
  BY DEF IInv, LoopOK, SortedOK
<1>3. \A j, k \in 1..n : j <= k => sorted[j] <= sorted[k]
  BY <1>2 DEF NonDecreasing
<1>. HIDE DEF n
<1>4. CASE i = n
  <2>1. ~ \E u \in Asked : u > sorted[i]
    BY <1>1, <1>2, <1>3, <1>4
  <2>. QED
    BY <1>4, <2>1 DEF WidthAt, WidthOf, n
<1>5. CASE i < n
  <2>. DEFINE u == sorted[i + 1]
  <2>1. i + 1 \in 1..n /\ u \in Asked /\ u > sorted[i] /\ u \in Nat
    BY <1>1, <1>2, <1>5 DEF n
  <2>2. \A v \in Asked : v > sorted[i] => u <= v
    BY <1>1, <1>2, <1>3, <2>1
  <2>. HIDE DEF u
  <2>3. \A v \in Asked : v \in Nat
    BY <1>1, <1>2
  <2>. DEFINE IsNext(v) == v > sorted[i] /\ \A w \in Asked : w > sorted[i] => v <= w
  <2>4. IsNext(u)
    BY <2>1, <2>2
  <2>5. \A v \in Asked : IsNext(v) => v = u
    BY <2>1, <2>2, <2>3
  <2>6. NextAfter(sorted[i]) = CHOOSE v \in Asked : IsNext(v)
    BY DEF NextAfter
  <2>7. NextAfter(sorted[i]) = u
    <3>. HIDE DEF IsNext
    <3>. QED
      BY <2>1, <2>4, <2>5, <2>6
  <2>8. WidthOf(sorted[i]) = GetIntermediateWindowWidth(taskType, u - sorted[i])
    BY <2>1, <2>7 DEF WidthOf
  <2>9. WidthAt(i) = GetIntermediateWindowWidth(taskType, u - sorted[i])
    <3>1. i # n
      BY <1>1, <1>5
    <3>. QED
      BY <3>1 DEF WidthAt, n, u
  <2>. QED
    BY <2>8, <2>9
<1>. QED
  BY <1>1, <1>4, <1>5

LEMMA WidthAtInBounds ==
    ASSUME IInv, pc = "loop"
    PROVE  WidthAt(i) \in Int /\ InBounds(WidthAt(i))
<1>. DEFINE n == Len(sorted)
<1>1. n \in Nat /\ i \in 1..n /\ sorted \in [1..n -> Nat]
  BY TimeListIsSeq, TimesAssumption DEF IInv, TypeOK, LoopOK
<1>. HIDE DEF n
<1>2. taskType \in TaskTypes
  BY DEF IInv, TypeOK
<1>3. CASE i = n
  BY <1>2, <1>3, TargetInBounds DEF WidthAt, n
<1>4. CASE i # n
  <2>1. i + 1 \in 1..n
    BY <1>1, <1>4
  <2>2. sorted[i] \in Nat /\ sorted[i + 1] \in Nat
    BY <1>1, <2>1
  <2>3. sorted[i + 1] - sorted[i] \in Int
    BY <2>2
  <2>. QED
    BY <1>2, <1>4, <2>3, IntermediateInBounds DEF WidthAt, n
<1>. QED
  BY <1>3, <1>4

LEMMA IterateKeepsIInv == IInv /\ Iterate => IInv'
<1>. SUFFICES ASSUME IInv, Iterate PROVE IInv'
  OBVIOUS
<1>. DEFINE n == Len(sorted)
            w == WidthAt(i)
<1>1. pc = "loop" /\ w \in Int /\ InBounds(w)
  BY WidthAtInBounds DEF Iterate
<1>2. /\ widths' = Written(sorted[i], w)
      /\ i' = i + 1
      /\ pc' = IF i = n THEN "done" ELSE "loop"
      /\ times' = times /\ taskType' = taskType /\ sorted' = sorted
  BY <1>1 DEF Iterate
<1>3. /\ n \in Nat /\ n \in 0..MaxTimes /\ i \in 1..n /\ sorted \in [1..n -> Times]
      /\ sorted \in [1..n -> Nat]
  BY <1>1, TimeListIsSeq, TimesAssumption, MaxTimesAssumption DEF IInv, TypeOK, LoopOK
<1>4. (i = n \/ sorted[i] < sorted[i + 1]) => w = WidthOf(sorted[i])
  <2>1. SUFFICES ASSUME i = n \/ sorted[i] < sorted[i + 1] PROVE w = WidthOf(sorted[i])
    OBVIOUS
  <2>2. i < n => sorted[i] < sorted[i + 1]
    <3>. HIDE DEF n
    <3>1. i < n => i # n
      BY <1>3
    <3>. QED
      BY <2>1, <3>1
  <2>. QED
    BY <1>1, <2>2, WidthAtIsRight
<1>5. \A j, k \in 1..n : j <= k => sorted[j] <= sorted[k]
  BY <1>1 DEF IInv, LoopOK, SortedOK, NonDecreasing
<1>6. DOMAIN widths = {sorted[k] : k \in 1..(i - 1)}
  BY DEF IInv, LoopOK
<1>8. SortedOK'
  BY <1>1, <1>2 DEF IInv, LoopOK, SortedOK, Asked
<1>9. n' = n
  BY <1>2
<1>. HIDE DEF n, w
<1>10. /\ DOMAIN widths' = DOMAIN widths \cup {sorted[i]}
       /\ widths'[sorted[i]] = w
       /\ \A t \in DOMAIN widths : t # sorted[i] => widths'[t] = widths[t]
  BY <1>2 DEF Written
<1>11. \A t \in DOMAIN widths' : widths'[t] \in Int /\ InBounds(widths'[t])
  BY <1>1, <1>10 DEF IInv, TypeOK
<1>12. TypeOK'
  <2>1. i' \in 1..MaxTimes + 1
    BY <1>2, <1>3, MaxTimesAssumption
  <2>2. DOMAIN widths' \subseteq Times
    BY <1>3, <1>10 DEF IInv, TypeOK
  <2>3. widths' \in [DOMAIN widths' -> Int]
    BY <1>2, <1>10, <1>11 DEF Written
  <2>. QED
    BY <1>2, <2>1, <2>2, <2>3 DEF IInv, TypeOK
<1>13. LoopOK'
  <2>1. DOMAIN widths' = {sorted[k] : k \in 1..i}
    <3>1. \A k \in 1..i : k \in 1..(i - 1) \/ k = i
      BY <1>3
    <3>2. \A k \in 1..(i - 1) : k \in 1..i
      BY <1>3
    <3>3. i \in 1..i
      BY <1>3
    <3>. QED
      BY <1>6, <1>10, <3>1, <3>2, <3>3
  <2>2. i' - 1 = i
    BY <1>2, <1>3
  <2>3. DOMAIN widths' = {sorted'[k] : k \in 1..(i' - 1)}
    BY <1>2, <2>1, <2>2
  <2>4. pc' = "loop" => i' \in 1..n'
    BY <1>2, <1>3, <1>9
  <2>5. pc' = "done" => i' = n' + 1
    BY <1>2, <1>3, <1>9
  <2>6. i' - 1 <= n' /\ pc' # "sort"
    BY <1>2, <1>3, <1>9, <2>2
  <2>. QED
    BY <1>8, <2>3, <2>4, <2>5, <2>6 DEF LoopOK, n
<1>14. WrittenOK'
  <2>1. SUFFICES ASSUME NEW k \in 1..i, i + 1 <= n => sorted[k] < sorted[i + 1]
                 PROVE  widths'[sorted[k]] = WidthOf(sorted[k])
    <3>1. i' - 1 = i
      BY <1>2, <1>3
    <3>2. \A k \in 1..i : WidthOf(sorted[k])' = WidthOf(sorted[k])
      BY <1>2 DEF WidthOf, NextAfter, Asked
    <3>3. \A k \in 1..(i' - 1) :
            (i' <= Len(sorted') => sorted'[k] < sorted'[i'])
                => widths'[sorted'[k]] = WidthOf(sorted[k])'
      BY <1>2, <2>1, <3>1, <3>2 DEF n
    <3>. QED
      BY <3>3 DEF WrittenOK
  <2>2. k \in 1..n /\ sorted[k] <= sorted[i] /\ sorted[k] \in Nat /\ sorted[i] \in Nat
    BY <1>3, <1>5
  <2>3. CASE sorted[k] = sorted[i]
    <3>1. i = n \/ i + 1 <= n
      BY <1>3
    <3>. QED
      BY <1>4, <1>10, <2>1, <2>3, <3>1
  <2>4. CASE sorted[k] # sorted[i]
    <3>1. k \in 1..(i - 1) /\ sorted[k] < sorted[i]
      BY <1>3, <2>2, <2>4
    <3>2. widths[sorted[k]] = WidthOf(sorted[k])
      BY <3>1 DEF IInv, WrittenOK
    <3>3. sorted[k] \in DOMAIN widths
      BY <1>6, <3>1
    <3>. QED
      BY <1>10, <2>4, <3>2, <3>3
  <2>. QED
    BY <2>3, <2>4
<1>15. NoPanic'
  BY <1>2 DEF NoPanic
<1>. QED
  BY <1>11, <1>12, <1>13, <1>14, <1>15 DEF IInv

LEMMA StutterKeepsIInv == IInv /\ UNCHANGED vars => IInv'
<1>. SUFFICES ASSUME IInv, UNCHANGED vars PROVE IInv'
  OBVIOUS
<1>1. TypeOK' /\ NoPanic'
  BY DEF IInv, TypeOK, NoPanic, vars
<1>2. LoopOK'
  BY DEF IInv, LoopOK, SortedOK, Asked, vars
<1>3. WrittenOK'
  BY DEF IInv, WrittenOK, WidthOf, NextAfter, Asked, vars
<1>. QED
  BY <1>1, <1>2, <1>3 DEF IInv, vars

THEOREM Invariance == Spec => []IInv
<1>1. IInv /\ [Next]_vars => IInv'
  BY SortKeepsIInv, IterateKeepsIInv, StutterKeepsIInv DEF Next, Done
<1>. QED
  BY InitIInv, <1>1, PTL DEF Spec

-----------------------------------------------------------------------------
(* The theorems. *)

\* Every variable always has its type.
THEOREM TypeCorrect == Spec => []TypeOK
<1>1. IInv => TypeOK
  BY DEF IInv
<1>. QED
  BY Invariance, <1>1, PTL

\* No list of times makes MustSlideWindowWidth panic inside a request.
THEOREM NeverPanics == Spec => []NoPanic
<1>1. IInv => NoPanic
  BY DEF IInv
<1>. QED
  BY Invariance, <1>1, PTL

\* The windows CalculateSlideWindowWidths returns are those of the set of
\* times, whatever the order of the request and the times it repeats.
THEOREM WidthsDependOnTheSet == Spec => []WidthsOfTheSet
<1>1. IInv => WidthsOfTheSet
  <2>1. SUFFICES ASSUME IInv, pc = "done"
                 PROVE  DOMAIN widths = Asked /\ \A t \in Asked : widths[t] = WidthOf(t)
    BY DEF WidthsOfTheSet
  <2>. DEFINE n == Len(sorted)
  <2>2. n \in Nat /\ i = n + 1 /\ SortedOK
    BY <2>1, TimeListIsSeq DEF IInv, TypeOK, LoopOK
  <2>3. Asked = {sorted[k] : k \in 1..n} /\ DOMAIN widths = {sorted[k] : k \in 1..(i - 1)}
    BY <2>1, <2>2 DEF IInv, LoopOK, SortedOK
  <2>4. i - 1 = n /\ ~(i <= n)
    BY <2>2
  <2>5. \A k \in 1..n : widths[sorted[k]] = WidthOf(sorted[k])
    BY <2>1, <2>4 DEF IInv, WrittenOK
  <2>. QED
    BY <2>3, <2>4, <2>5
<1>. QED
  BY Invariance, <1>1, PTL

\* Every width the calculator made is readable again from the table.
THEOREM StoredWidthsAreReadable == Spec => []StoredWidthIsReadable
<1>1. IInv => StoredWidthIsReadable
  BY CutToSecondsInBounds DEF IInv, TypeOK, StoredWidthIsReadable
<1>. QED
  BY Invariance, <1>1, PTL

-----------------------------------------------------------------------------
(* A window and the next remind. *)

\* The entries that stay as they are end before the next remind of the request,
\* if there is a minute to it.
FitsOK ==
    \A k \in 1..(i - 1) :
        (i <= Len(sorted) => sorted[k] < sorted[i])
            => \A j \in 1..Len(sorted) :
                  sorted[j] >= sorted[k] + MinSlideWindowWidth
                      => sorted[k] + widths[sorted[k]] <= sorted[j]

\* The window the loop writes fits, unless it will be written again.
LEMMA WidthAtFits ==
    ASSUME IInv, pc = "loop", i = Len(sorted) \/ sorted[i] < sorted[i + 1],
           NEW j \in 1..Len(sorted), sorted[j] >= sorted[i] + MinSlideWindowWidth
    PROVE  sorted[i] + WidthAt(i) <= sorted[j]
<1>. DEFINE n == Len(sorted)
<1>1. n \in Nat /\ i \in 1..n /\ sorted \in [1..n -> Nat] /\ taskType \in TaskTypes
  BY TimeListIsSeq, TimesAssumption DEF IInv, TypeOK, LoopOK
<1>2. \A k, m \in 1..n : k <= m => sorted[k] <= sorted[m]
  BY DEF IInv, LoopOK, SortedOK, NonDecreasing
<1>3. MinSlideWindowWidth \in Nat \ {0}
  BY SecondAssumption DEF MinSlideWindowWidth, Minute
<1>4. j \in 1..n
  OBVIOUS
<1>. HIDE DEF n
<1>5. i < j
  BY <1>1, <1>2, <1>3, <1>4
<1>6. i + 1 \in 1..n /\ i # n /\ sorted[i + 1] <= sorted[j]
  BY <1>1, <1>2, <1>4, <1>5
<1>. DEFINE d == sorted[i + 1] - sorted[i]
<1>7. d \in Nat /\ sorted[i] + d = sorted[i + 1]
  BY <1>1, <1>2, <1>6
<1>8. WidthAt(i) = GetIntermediateWindowWidth(taskType, d)
  BY <1>6 DEF WidthAt, n
<1>. HIDE DEF d
<1>9. WidthAt(i) \in Int /\ (WidthAt(i) <= d \/ WidthAt(i) = MinSlideWindowWidth)
  BY <1>1, <1>7, <1>8, IntermediateFits, WidthAtInBounds
<1>10. sorted[i] \in Nat /\ sorted[i + 1] \in Nat /\ sorted[j] \in Nat
  BY <1>1, <1>4, <1>6
<1>. QED
  BY <1>3, <1>6, <1>7, <1>9, <1>10

LEMMA IterateKeepsFitsOK == IInv /\ FitsOK /\ Iterate => FitsOK'
<1>. SUFFICES ASSUME IInv, FitsOK, Iterate PROVE FitsOK'
  OBVIOUS
<1>. DEFINE n == Len(sorted)
            w == WidthAt(i)
            Fits(t, d) == \A j \in 1..n :
                              sorted[j] >= t + MinSlideWindowWidth => t + d <= sorted[j]
<1>1. pc = "loop" /\ InBounds(w)
  BY WidthAtInBounds DEF Iterate
<1>2. widths' = Written(sorted[i], w) /\ i' = i + 1 /\ sorted' = sorted
  BY <1>1 DEF Iterate
<1>3. n \in Nat /\ i \in 1..n /\ sorted \in [1..n -> Nat]
  BY <1>1, TimeListIsSeq, TimesAssumption DEF IInv, TypeOK, LoopOK
<1>4. \A j, k \in 1..n : j <= k => sorted[j] <= sorted[k]
  BY <1>1 DEF IInv, LoopOK, SortedOK, NonDecreasing
<1>5. DOMAIN widths = {sorted[k] : k \in 1..(i - 1)}
  BY DEF IInv, LoopOK
<1>6. (i = n \/ sorted[i] < sorted[i + 1]) => Fits(sorted[i], w)
  BY <1>1, WidthAtFits
<1>7. \A k \in 1..(i - 1) : sorted[k] < sorted[i] => Fits(sorted[k], widths[sorted[k]])
  BY DEF FitsOK
<1>8. /\ widths'[sorted[i]] = w
      /\ \A t \in DOMAIN widths : t # sorted[i] => widths'[t] = widths[t]
  BY <1>2 DEF Written
<1>9. SUFFICES ASSUME NEW k \in 1..i, i + 1 <= n => sorted[k] < sorted[i + 1]
               PROVE  Fits(sorted[k], widths'[sorted[k]])
  <2>1. i' - 1 = i
    BY <1>2, <1>3
  <2>. HIDE DEF Fits
  <2>2. \A k \in 1..(i' - 1) :
          (i' <= Len(sorted') => sorted'[k] < sorted'[i'])
              => Fits(sorted[k], widths'[sorted[k]])
    BY <1>2, <1>9, <2>1 DEF n
  <2>. QED
    BY <1>2, <2>2 DEF FitsOK, Fits, n
<1>. HIDE DEF n, w, Fits
<1>10. k \in 1..n /\ sorted[k] <= sorted[i] /\ sorted[k] \in Nat /\ sorted[i] \in Nat
  BY <1>3, <1>4
<1>11. CASE sorted[k] = sorted[i]
  <2>1. i = n \/ i + 1 <= n
    BY <1>3
  <2>. QED
    BY <1>6, <1>8, <1>9, <1>11, <2>1
<1>12. CASE sorted[k] # sorted[i]
  <2>1. k \in 1..(i - 1) /\ sorted[k] < sorted[i]
    BY <1>3, <1>10, <1>12
  <2>2. sorted[k] \in DOMAIN widths
    BY <1>5, <2>1
  <2>. QED
    BY <1>7, <1>8, <1>12, <2>1, <2>2
<1>. QED
  BY <1>11, <1>12

\* The window of a remind is over before the next remind of the request that is
\* a minute or more away is due, however close together the others are.
THEOREM WindowsEndInTime == Spec => []WindowEndsBeforeNext
<1>1. Init => FitsOK
  BY DEF Init, FitsOK
<1>2. IInv /\ FitsOK /\ [Next]_vars => FitsOK'
  <2>1. IInv /\ Sort => FitsOK'
    BY DEF IInv, LoopOK, Sort, FitsOK
  <2>2. FitsOK /\ UNCHANGED vars => FitsOK'
    BY DEF FitsOK, vars
  <2>. QED
    BY <2>1, <2>2, IterateKeepsFitsOK DEF Next, Done
<1>3. IInv /\ FitsOK => WindowEndsBeforeNext
  <2>1. SUFFICES ASSUME IInv, FitsOK, pc = "done",
                        NEW t \in Asked, NEW u \in Asked, u >= t + MinSlideWindowWidth
                 PROVE  t + widths[t] <= u
    BY DEF WindowEndsBeforeNext
  <2>. DEFINE n == Len(sorted)
  <2>2. n \in Nat /\ i = n + 1 /\ Asked = {sorted[k] : k \in 1..n}
    BY <2>1, TimeListIsSeq DEF IInv, TypeOK, LoopOK, SortedOK
  <2>3. i - 1 = n /\ ~(i <= n)
    BY <2>2
  <2>4. PICK k \in 1..n, j \in 1..n : t = sorted[k] /\ u = sorted[j]
    BY <2>2
  <2>. QED
    BY <2>1, <2>3, <2>4 DEF FitsOK
<1>. QED
  BY Invariance, <1>1, <1>2, <1>3, PTL DEF Spec

=============================================================================
