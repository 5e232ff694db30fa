----------------------------- MODULE TaskCurve -----------------------------
(***************************************************************************)
(* The time curve of a task.  TimeControl::Load reads a file with one      *)
(* weight per slot of the day, TimeControlEntry::MakeValue spreads the     *)
(* day's count of a task over the slots, and Task::GetNowLimit reads off,  *)
(* second by second, how many may have been handed out.  The code has 144  *)
(* slots of 600 seconds.  The loops are steps here, so that their          *)
(* invariants can be stated; reading the limit changes nothing.            *)
(***************************************************************************)
EXTENDS Integers, Sequences, FiniteSets

CONSTANTS
  Slots,        \* values in DayLimitedValues
  SlotLength,   \* seconds of a slot
  Bad,          \* a line that is no number
  Files,        \* the contents the curve's file can have
  DayCounts,    \* the DayMTUDistCount a task can have
  MaxInt        \* the largest int

ASSUME SlotAssumption ==
  /\ Slots \in Nat /\ Slots >= 2
  /\ SlotLength \in Nat /\ SlotLength >= 2

\* Weights and counts are not negative.
ASSUME WeightAssumption ==
  /\ MaxInt \in Nat
  /\ Bad \notin Nat
  /\ \A f \in Files : f \in Seq(Nat \cup {Bad})
  /\ DayCounts \subseteq Nat

VARIABLES
  phase,       \* "load", "make" or "day"
  lines,       \* the file
  line,        \* lines read
  timeValues,  \* TimeValues
  sum,         \* Sum
  day,         \* dayDistCount
  i,           \* the slot the loop fills next, in Load and then in MakeValue
  before,      \* beforeSumTimeValue
  values,      \* DayLimitedValues
  second       \* secondOfDay

vars == <<phase, lines, line, timeValues, sum, day, i, before, values, second>>

Slot == 0 .. Slots - 1
SecondOfDay == 0 .. Slots * SlotLength - 1

-----------------------------------------------------------------------------
Init ==
  /\ phase = "load"
  /\ lines \in Files /\ line = 0
  /\ timeValues = [x \in Slot |-> 0] /\ sum = 0
  /\ day \in DayCounts
  /\ i = 0 /\ before = 0
  /\ values = [x \in Slot |-> 0]
  /\ second = 0

\* Mutant: as many slots as the file has lines.
LoadEndsWithFile == line = Len(lines)

LoadEnds == line = Len(lines) \/ i = Slots

\* Mutant: a line that is no number leaves its slot at zero.
SkipSlotOfBadLine ==
  /\ phase = "load" /\ ~LoadEnds
  /\ line' = line + 1
  /\ LET v == IF lines[line + 1] = Bad THEN 0 ELSE lines[line + 1]
     IN /\ timeValues' = [timeValues EXCEPT ![i] = v]
        /\ sum' = sum + v
        /\ i' = i + 1
  /\ UNCHANGED <<phase, lines, day, before, values, second>>

\* A line that is no number is passed over; the next one takes its slot.
ReadLine ==
  /\ phase = "load" /\ ~LoadEnds
  /\ line' = line + 1
  /\ IF lines[line + 1] = Bad
     THEN UNCHANGED <<timeValues, sum, i>>
     ELSE /\ timeValues' = [timeValues EXCEPT ![i] = lines[line + 1]]
          /\ sum' = sum + lines[line + 1]
          /\ i' = i + 1
  /\ UNCHANGED <<phase, lines, day, before, values, second>>

\* An empty curve gets the sum 1, so that MakeValue can divide.
LoadDone ==
  /\ phase = "load" /\ LoadEnds
  /\ phase' = "make"
  /\ sum' = IF sum = 0 THEN 1 ELSE sum
  /\ i' = 0
  /\ UNCHANGED <<lines, line, timeValues, day, before, values, second>>

\* Mutant: the share of the slot alone instead of the running total.
MakeShare ==
  /\ phase = "make" /\ i < Slots
  /\ before' = timeValues[i]
  /\ values' = [values EXCEPT ![i] = (before' * day) \div sum]
  /\ i' = i + 1
  /\ UNCHANGED <<phase, lines, line, timeValues, sum, day, second>>

\* Mutant: divides first.
MakeRounded ==
  /\ phase = "make" /\ i < Slots
  /\ before' = before + timeValues[i]
  /\ values' = [values EXCEPT ![i] = before' * (day \div sum)]
  /\ i' = i + 1
  /\ UNCHANGED <<phase, lines, line, timeValues, sum, day, second>>

MakeValue ==
  /\ phase = "make" /\ i < Slots
  /\ before' = before + timeValues[i]
  /\ values' = [values EXCEPT ![i] = (before' * day) \div sum]
  /\ i' = i + 1
  /\ UNCHANGED <<phase, lines, line, timeValues, sum, day, second>>

MakeDone ==
  /\ phase = "make" /\ i = Slots
  /\ phase' = "day"
  /\ UNCHANGED <<lines, line, timeValues, sum, day, i, before, values, second>>

\* An int that got too large comes out negative.
AsInt(n) == ((n + MaxInt + 1) % (2 * (MaxInt + 1))) - (MaxInt + 1)

\* Division of the code: towards zero.
Quotient(n, d) == IF n >= 0 THEN n \div d ELSE -((-n) \div d)

\* Mutant: the slots after the first start at their own value.
LimitFromOwnValue(s) ==
  LET x == s \div SlotLength
      y == s % SlotLength
  IN IF x = 0 THEN Quotient(AsInt(y * values[0]), SlotLength)
     ELSE values[x] + Quotient((values[x] - values[x - 1]) * y, SlotLength)

\* Task::GetNowLimit.  In a slot the limit runs from the value of the slot before to
\* the slot's own.  The first slot multiplies in int, the others in double.
GetNowLimit(s) ==
  LET x == s \div SlotLength
      y == s % SlotLength
  IN IF x = 0 THEN Quotient(AsInt(y * values[0]), SlotLength)
     ELSE values[x - 1] + Quotient((values[x] - values[x - 1]) * y, SlotLength)

Tick ==
  /\ phase = "day" /\ second + 1 \in SecondOfDay
  /\ second' = second + 1
  /\ UNCHANGED <<phase, lines, line, timeValues, sum, day, i, before, values>>

Next == ReadLine \/ LoadDone \/ MakeValue \/ MakeDone \/ Tick

Spec == Init /\ [][Next]_vars

-----------------------------------------------------------------------------
(***************************************************************************)
(* Properties                                                              *)
(***************************************************************************)

\* Types; what has been read and filled so far bounds the indices.
TypeOK ==
  /\ phase \in {"load", "make", "day"}
  /\ lines \in Files /\ line \in 0 .. Len(lines)
  /\ timeValues \in [Slot -> Nat] /\ sum \in Nat
  /\ day \in DayCounts
  /\ i \in 0 .. Slots /\ before \in Nat
  /\ values \in [Slot -> Nat]
  /\ second \in SecondOfDay

\* The product of the first slot fits an int.
FirstSlotFits == (SlotLength - 1) * values[0] <= MaxInt

\* What TipsServer takes for granted of a curve (CurveAssumption): where the product of the
\* first slot does not overflow (FirstSlotFits), the limit is never negative and never
\* falls in the course of the day (MakeValue, GetNowLimit).
NeverFalls ==
  (phase = "day" /\ FirstSlotFits) =>
    \A s \in SecondOfDay :
      /\ GetNowLimit(s) >= 0
      /\ \A t \in SecondOfDay : s <= t => GetNowLimit(s) <= GetNowLimit(t)

\* The limit never exceeds the day's count, and the last slot ends at exactly the
\* day's count unless the curve has no weight at all: rounding loses nothing.
DayCountReached ==
  (phase = "day" /\ FirstSlotFits) =>
    /\ \A s \in SecondOfDay : GetNowLimit(s) <= day
    /\ values[Slots - 1] = IF before = 0 THEN 0 ELSE day

\* The weight of the seconds before s, times SlotLength: what an exact curve follows.
Weight[x \in 0 .. Slots] == IF x = 0 THEN 0 ELSE Weight[x - 1] + timeValues[x - 1]

ExactShare(s) ==
  LET x == s \div SlotLength
  IN day * (SlotLength * Weight[x] + (s % SlotLength) * timeValues[x])

\* The integer arithmetic of MakeValue and GetNowLimit never runs ahead of the exact
\* curve and stays less than two behind it, at every second of the day.
CloseToCurve ==
  (phase = "day" /\ FirstSlotFits) =>
    LET unit == SlotLength * sum
    IN /\ GetNowLimit(second) * unit <= ExactShare(second)
       /\ (GetNowLimit(second) + 2) * unit > ExactShare(second)

\* The lines before line k that hold a number.
NumbersBefore(k) == Cardinality({j \in 1 .. k - 1 : lines[j] # Bad})

\* The numbers of the file fill the slots from the first one on, however many lines
\* that are no numbers lie between them, the slots left over are empty, and numbers
\* beyond the last slot are not counted into the sum either (Load).
NumbersFillSlots ==
  phase # "load" =>
    /\ \A k \in DOMAIN lines :
         lines[k] # Bad /\ NumbersBefore(k) < Slots => timeValues[NumbersBefore(k)] = lines[k]
    /\ \A x \in Slot : x >= NumbersBefore(Len(lines) + 1) => timeValues[x] = 0
    /\ sum = IF Weight[Slots] = 0 THEN 1 ELSE Weight[Slots]
=============================================================================
