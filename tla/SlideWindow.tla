----------------------------- MODULE SlideWindow -----------------------------
(***************************************************************************)
(* SlideWindowWidthCalculator (internal/domain/window_calculator.go): how    *)
(* wide a window the reminds of one create request get.  The loop writes a   *)
(* map keyed by time while it walks a sorted copy of the times, so the       *)
(* entry of a time given twice is written twice; the constructor of a width  *)
(* panics on a value out of bounds.                                          *)
(*                                                                         *)
(* Times and durations are in ticks, Second of them to the second (10^9 in   *)
(* the code).  The float product with IntermediateIntervalRatio (0.30),      *)
(* truncated, is the integer quotient below for every interval the clamp to  *)
(* the maximum leaves alone.                                                 *)
(***************************************************************************)
EXTENDS Integers, Sequences

CONSTANTS
    Second,     \* ticks in a second
    Times,      \* the times a request may ask for
    MaxTimes    \* bound: times in one request

ASSUME SecondAssumption == Second \in Nat \ {0}
ASSUME TimesAssumption == Times \subseteq Nat
ASSUME MaxTimesAssumption == MaxTimes \in Nat

Minute == 60 * Second

MinSlideWindowWidth       == Minute
MaxSlideWindowWidth       == 10 * Minute
WindowWidthShort          == 2 * Minute
WindowWidthBase           == 5 * Minute
IntermediateMaxWidthShort == 5 * Minute

TaskTypes == {"short", "near", "relaxed", "scheduled"}

InBounds(d) == MinSlideWindowWidth <= d /\ d <= MaxSlideWindowWidth

\* int32(w.duration / time.Second), the value stored in the table and sent to
\* clients, and the width read back from it.
Seconds(w) == w \div Second

\* Mutant: time.Duration(seconds) is not multiplied with time.Second.
FromSecondsUnscaled(s) == s

FromSeconds(s) == s * Second

-----------------------------------------------------------------------------

GetTargetAtWindowWidth(type) ==
    IF type \in {"short", "scheduled"} THEN WindowWidthShort ELSE WindowWidthBase

\* Mutant: a ratio of 3.0 for 0.30.
TripleInterval(interval) == 3 * interval

\* 30% of the interval, truncated.
RawWidth(interval) == (3 * interval) \div 10

MaxWidth(type) == IF type = "short" THEN IntermediateMaxWidthShort ELSE MaxSlideWindowWidth

\* Mutant: clamped to the maximum only.
ClampedAbove(type, interval) ==
    LET raw == RawWidth(interval) IN IF raw > MaxWidth(type) THEN MaxWidth(type) ELSE raw

GetIntermediateWindowWidth(type, interval) ==
    LET raw == RawWidth(interval)
    IN  IF raw < MinSlideWindowWidth THEN MinSlideWindowWidth
        ELSE IF raw > MaxWidth(type) THEN MaxWidth(type)
        ELSE raw

-----------------------------------------------------------------------------

VARIABLES
    pc,         \* "sort", "loop", "done", or "panic"
    times,      \* the argument, in the order of the request
    taskType,
    sorted,     \* sortedTimes
    i,          \* the index of the loop, from 1
    widths      \* result

vars == <<pc, times, taskType, sorted, i, widths>>

TimeLists == UNION {[1..n -> Times] : n \in 0..MaxTimes}

\* Mutant: the times are appended to the copy, which already has their length.
AppendedToZeros(s, t, f) ==
    /\ \A k \in 1..Len(t) : \E j \in 1..Len(t) : f[j] = k
    /\ s = [k \in 1..2 * Len(t) |-> IF k <= Len(t) THEN 0 ELSE t[f[k - Len(t)]]]

\* s is t in another order, as the permutation f has it.
IsReordering(s, t, f) ==
    /\ \A k \in 1..Len(t) : \E j \in 1..Len(t) : f[j] = k
    /\ s = [k \in 1..Len(t) |-> t[f[k]]]

NonDecreasing(s) == \A j, k \in 1..Len(s) : j <= k => s[j] <= s[k]

Init ==
    /\ pc = "sort"
    /\ times \in TimeLists
    /\ taskType \in TaskTypes
    /\ sorted = <<>>
    /\ i = 1
    /\ widths = <<>>

\* sort.Slice of a copy; with no time at all the result is nil.
Sort ==
    /\ pc = "sort"
    /\ \E f \in [1..Len(times) -> 1..Len(times)] : IsReordering(sorted', times, f)
    /\ NonDecreasing(sorted')
    /\ pc' = IF Len(times) = 0 THEN "done" ELSE "loop"
    /\ UNCHANGED <<times, taskType, i, widths>>

WidthAt(k) ==
    IF k = Len(sorted)
    THEN GetTargetAtWindowWidth(taskType)
    ELSE GetIntermediateWindowWidth(taskType, sorted[k + 1] - sorted[k])

\* Mutant: the first entry of a time is kept.
WrittenOnce(t, w) ==
    [u \in DOMAIN widths \cup {t} |-> IF u \in DOMAIN widths THEN widths[u] ELSE w]

Written(t, w) == [u \in DOMAIN widths \cup {t} |-> IF u = t THEN w ELSE widths[u]]

\* MustSlideWindowWidth panics on a width out of bounds.
Iterate ==
    /\ pc = "loop"
    /\ IF InBounds(WidthAt(i))
       THEN /\ widths' = Written(sorted[i], WidthAt(i))
            /\ i' = i + 1
            /\ pc' = IF i = Len(sorted) THEN "done" ELSE "loop"
       ELSE pc' = "panic" /\ UNCHANGED <<i, widths>>
    /\ UNCHANGED <<times, taskType, sorted>>

Done == pc \in {"done", "panic"} /\ UNCHANGED vars

Next == Sort \/ Iterate \/ Done

Spec == Init /\ [][Next]_vars

-----------------------------------------------------------------------------
(* Properties. *)

Asked == {times[k] : k \in 1..Len(times)}

\* The type invariant: every variable has its type.
TypeOK ==
    /\ pc \in {"sort", "loop", "done", "panic"}
    /\ times \in TimeLists
    /\ taskType \in TaskTypes
    /\ sorted \in TimeLists
    /\ i \in 1..MaxTimes + 1
    /\ DOMAIN widths \subseteq Times
    /\ widths \in [DOMAIN widths -> Int]

\* No list of times and no task type makes MustSlideWindowWidth panic, which
\* would cost the request an answer.
NoPanic == pc # "panic"

\* The first of the times after t.
NextAfter(t) == CHOOSE u \in Asked : u > t /\ \A v \in Asked : v > t => u <= v

\* What a time's window should be: it depends on the set of times alone.
WidthOf(t) ==
    IF \E u \in Asked : u > t
    THEN GetIntermediateWindowWidth(taskType, NextAfter(t) - t)
    ELSE GetTargetAtWindowWidth(taskType)

\* Every time of the request gets the window of the interval to the next
\* different time, and the last the one of the target: neither the order of the
\* request nor a time given twice changes a window.
WidthsOfTheSet ==
    pc = "done" => DOMAIN widths = Asked /\ \A t \in Asked : widths[t] = WidthOf(t)

\* The window of a remind ends before the next remind of the request is due,
\* if there is a minute between them.
WindowEndsBeforeNext ==
    pc = "done" =>
        \A t, u \in Asked : u >= t + MinSlideWindowWidth => t + widths[t] <= u

\* A width survives the table: what is stored is the width cut to seconds, and
\* reading it back gives a width in bounds again, so no row of the service's own
\* making fails the query that reads it.
StoredWidthIsReadable ==
    \A t \in DOMAIN widths : InBounds(FromSeconds(Seconds(widths[t])))

=============================================================================
