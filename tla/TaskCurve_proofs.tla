-------------------------- MODULE TaskCurve_proofs --------------------------
(***************************************************************************)
(* A curve never falls in the course of the day, for every file of weights *)
(* and every count: what TipsServer assumes of the limits of a task.       *)
(***************************************************************************)
EXTENDS TaskCurve, FiniteSetTheorems, TLAPS

-----------------------------------------------------------------------------
(***************************************************************************)
(* Division                                                                *)
(***************************************************************************)

\* Quotient and remainder.
LEMMA DivMod ==
  ASSUME NEW d \in Nat, d >= 1, NEW n \in Nat
  PROVE  /\ n \div d \in Nat /\ n % d \in 0 .. d - 1
         /\ n = d * (n \div d) + (n % d)
OBVIOUS

\* A quotient does not fall when the dividend grows.
LEMMA DivMonotone ==
  ASSUME NEW d \in Nat, d >= 1, NEW a \in Nat, NEW b \in Nat, a <= b
  PROVE  a \div d <= b \div d
<1> DEFINE p == a \div d
           q == b \div d
<1>1. /\ p \in Nat /\ q \in Nat
      /\ a % d \in 0 .. d - 1 /\ b % d \in 0 .. d - 1
      /\ a = d * p + (a % d) /\ b = d * q + (b % d)
  BY DivMod
<1> HIDE DEF p, q
<1>2. ASSUME p >= q + 1 PROVE FALSE
  <2>1. d * p >= d * (q + 1)
    BY <1>1, <1>2
  <2>2. d * (q + 1) = d * q + d
    BY <1>1
  <2> QED
    BY <1>1, <2>1, <2>2
<1> QED
  BY <1>1, <1>2 DEF p, q

\* A quotient is at most m when the dividend is at most d times m.
LEMMA DivBounded ==
  ASSUME NEW d \in Nat, d >= 1, NEW m \in Nat, NEW n \in Nat, n <= d * m
  PROVE  n \div d <= m
<1> DEFINE q == n \div d
<1>1. q \in Nat /\ n % d \in 0 .. d - 1 /\ n = d * q + (n % d)
  BY DivMod
<1> HIDE DEF q
<1>2. ASSUME q >= m + 1 PROVE FALSE
  <2>1. d * q >= d * (m + 1)
    BY <1>1, <1>2
  <2>2. d * (m + 1) = d * m + d
    BY <1>1
  <2> QED
    BY <1>1, <2>1, <2>2
<1> QED
  BY <1>1, <1>2 DEF q

\* Products of natural numbers keep the order.
LEMMA TimesMonotone ==
  ASSUME NEW k \in Nat, NEW a \in Nat, NEW b \in Nat, a <= b
  PROVE  k * a <= k * b /\ k * a \in Nat /\ k * b \in Nat
OBVIOUS

-----------------------------------------------------------------------------
(***************************************************************************)
(* The loop of MakeValue                                                   *)
(***************************************************************************)

\* The values filled so far do not fall, and the last of them belongs to the running
\* total; the sum is fit to divide by.
Filled ==
  /\ phase # "load" => sum >= 1
  /\ phase = "load" => before = 0
  /\ phase = "make" =>
       /\ \A x, z \in Slot : (x <= z /\ z < i) => values[x] <= values[z]
       /\ i > 0 => values[i - 1] = (before * day) \div sum
       /\ i = 0 => before = 0
  /\ phase = "day" => \A x, z \in Slot : x <= z => values[x] <= values[z]

CurveInv == TypeOK /\ Filled

\* The first state satisfies the invariant.
LEMMA InitFilled == Init => CurveInv
<1> SUFFICES ASSUME Init PROVE CurveInv
  OBVIOUS
<1>1. Len(lines) \in Nat /\ SecondOfDay = 0 .. Slots * SlotLength - 1
  BY WeightAssumption DEF Init, SecondOfDay
<1>2. Slots * SlotLength \in Nat /\ Slots * SlotLength >= 1
  BY SlotAssumption
<1>3. 0 \in SecondOfDay
  BY <1>1, <1>2
<1> QED
  BY <1>1, <1>3, SlotAssumption, WeightAssumption DEF Init, CurveInv, TypeOK, Filled, Slot

\* Reading a line.
LEMMA ReadLineFilled == ASSUME CurveInv, ReadLine PROVE CurveInv'
<1>1. /\ lines \in Seq(Nat \cup {Bad}) /\ Len(lines) \in Nat
      /\ line \in 0 .. Len(lines) /\ line # Len(lines) /\ i \in 0 .. Slots /\ i # Slots
  BY WeightAssumption DEF CurveInv, TypeOK, ReadLine, LoadEnds
<1>2. lines[line + 1] \in Nat \cup {Bad}
  BY <1>1
<1>3. lines[line + 1] # Bad => lines[line + 1] \in Nat
  BY <1>2
<1>4. /\ timeValues \in [Slot -> Nat] /\ sum \in Nat /\ i \in Slot /\ i + 1 \in 0 .. Slots
      /\ line + 1 \in 0 .. Len(lines)
  BY <1>1, SlotAssumption DEF CurveInv, TypeOK, Slot
<1>5. line' = line + 1 /\ lines' = lines
  BY DEF ReadLine
<1>6. CASE lines[line + 1] = Bad
  <2>1. UNCHANGED <<phase, lines, timeValues, sum, day, i, before, values, second>>
    BY <1>6 DEF ReadLine
  <2> QED
    BY <1>4, <1>5, <2>1 DEF CurveInv, TypeOK, Filled, Slot, SecondOfDay
<1>7. CASE lines[line + 1] # Bad
  <2> DEFINE v == lines[line + 1]
  <2>1. v \in Nat
    BY <1>3, <1>7
  <2>2. /\ timeValues' = [timeValues EXCEPT ![i] = v] /\ sum' = sum + v /\ i' = i + 1
        /\ phase = "load"
        /\ UNCHANGED <<phase, lines, day, before, values, second>>
    BY <1>7 DEF ReadLine
  <2> HIDE DEF v
  <2>3. timeValues' \in [Slot -> Nat] /\ sum' \in Nat /\ i' \in 0 .. Slots
    BY <1>4, <2>1, <2>2
  <2> QED
    BY <1>4, <1>5, <2>2, <2>3 DEF CurveInv, TypeOK, Filled, Slot, SecondOfDay
<1> QED
  BY <1>6, <1>7

\* The end of the file.
LEMMA LoadDoneFilled == ASSUME CurveInv, LoadDone PROVE CurveInv'
<1>1. sum' \in Nat /\ sum' >= 1 /\ i' \in 0 .. Slots
  BY SlotAssumption DEF CurveInv, TypeOK, LoadDone
<1> QED
  BY <1>1, SlotAssumption DEF CurveInv, TypeOK, Filled, LoadDone, Slot, SecondOfDay

\* Filling a slot.
LEMMA MakeValueFilled == ASSUME CurveInv, MakeValue PROVE CurveInv'
<1>1. /\ day \in Nat /\ sum \in Nat /\ sum >= 1 /\ before \in Nat
      /\ i \in Slot /\ timeValues[i] \in Nat /\ i' = i + 1 /\ i' \in 0 .. Slots
      /\ before' = before + timeValues[i] /\ before' \in Nat /\ before <= before'
      /\ phase = "make" /\ Slots \in Nat
  <2>1. /\ phase = "make" /\ i < Slots /\ i' = i + 1
        /\ before' = before + timeValues[i]
    BY DEF MakeValue
  <2>2. /\ day \in Nat /\ sum \in Nat /\ before \in Nat /\ i \in 0 .. Slots
        /\ timeValues \in [Slot -> Nat]
    BY WeightAssumption DEF CurveInv, TypeOK
  <2>3. sum >= 1
    BY <2>1 DEF CurveInv, Filled
  <2>4. i \in Slot /\ i + 1 \in 0 .. Slots
    BY <2>1, <2>2, SlotAssumption DEF Slot
  <2>5. timeValues[i] \in Nat
    BY <2>2, <2>4
  <2> QED
    BY <2>1, <2>2, <2>3, <2>4, <2>5, SlotAssumption
<1> DEFINE a == before * day
           b == before' * day
<1>2. a \in Nat /\ b \in Nat /\ a <= b
  <2>1. before * day = day * before /\ before' * day = day * before'
    BY <1>1
  <2> QED
    BY <1>1, <2>1, TimesMonotone
<1>3. /\ values' = [values EXCEPT ![i] = b \div sum]
      /\ UNCHANGED <<phase, lines, line, timeValues, sum, day, second>>
  BY DEF MakeValue
<1> HIDE DEF a, b
<1>4. b \div sum \in Nat /\ a \div sum <= b \div sum
  BY <1>1, <1>2, DivMod, DivMonotone
<1>5. values \in [Slot -> Nat] /\ values' \in [Slot -> Nat] /\ values'[i] = b \div sum
  BY <1>1, <1>3, <1>4 DEF CurveInv, TypeOK
<1>6. TypeOK'
  BY <1>1, <1>3, <1>5 DEF CurveInv, TypeOK, Slot, SecondOfDay
<1>7. ASSUME NEW x \in Slot, NEW z \in Slot, x <= z, z < i'
      PROVE  values'[x] <= values'[z]
  <2>1. x \in Nat /\ z \in Nat /\ i \in Nat
    BY <1>1 DEF Slot
  <2>2. CASE z < i
    <3>1. x # i /\ z # i
      BY <1>7, <2>1, <2>2
    <3>2. values'[x] = values[x] /\ values'[z] = values[z]
      BY <1>3, <1>5, <3>1
    <3> QED
      BY <1>1, <1>7, <2>2, <3>2 DEF CurveInv, Filled
  <2>3. CASE z = i /\ x = i
    BY <1>5, <2>3, <1>4
  <2>4. CASE z = i /\ x < i
    <3>1. i - 1 \in Slot /\ x <= i - 1 /\ i - 1 < i /\ i > 0
      BY <1>1, <2>1, <2>4 DEF Slot
    <3>2. values[x] <= values[i - 1]
      BY <1>1, <3>1 DEF CurveInv, Filled
    <3>3. values[i - 1] = a \div sum
      BY <1>1, <3>1 DEF CurveInv, Filled, a
    <3>4. values'[x] = values[x] /\ values[x] \in Nat /\ values[i - 1] \in Nat
      BY <1>3, <1>5, <2>1, <2>4, <3>1
    <3> QED
      BY <1>4, <1>5, <2>4, <3>2, <3>3, <3>4
  <2> QED
    BY <1>1, <1>7, <2>1, <2>2, <2>3, <2>4
<1>8. i' > 0 => values'[i' - 1] = (before' * day') \div sum'
  <2>1. i' - 1 = i
    BY <1>1 DEF Slot
  <2> QED
    BY <1>3, <1>5, <2>1 DEF b
<1>9. i' # 0
  BY <1>1 DEF Slot
<1> QED
  BY <1>1, <1>3, <1>6, <1>7, <1>8, <1>9 DEF CurveInv, Filled, Slot

\* The table is complete.
LEMMA MakeDoneFilled == ASSUME CurveInv, MakeDone PROVE CurveInv'
<1>1. \A x \in Slot : x < Slots
  BY SlotAssumption DEF Slot
<1> QED
  BY <1>1 DEF CurveInv, TypeOK, Filled, MakeDone, Slot, SecondOfDay

\* The values never fall from one slot to the next, whatever the file says.
LEMMA CurveInvariant == Spec => []CurveInv
<1>1. CurveInv /\ [Next]_vars => CurveInv'
  <2> SUFFICES ASSUME CurveInv, [Next]_vars PROVE CurveInv'
    OBVIOUS
  <2>1. CASE ReadLine
    BY <2>1, ReadLineFilled
  <2>2. CASE LoadDone
    BY <2>2, LoadDoneFilled
  <2>3. CASE MakeValue
    BY <2>3, MakeValueFilled
  <2>4. CASE MakeDone
    BY <2>4, MakeDoneFilled
  <2>5. CASE Tick
    BY <2>5 DEF CurveInv, TypeOK, Filled, Tick, Slot, SecondOfDay
  <2>6. CASE UNCHANGED vars
    BY <2>6 DEF CurveInv, TypeOK, Filled, vars, Slot, SecondOfDay
  <2> QED
    BY <2>1, <2>2, <2>3, <2>4, <2>5, <2>6 DEF Next
<1> QED
  BY <1>1, InitFilled, PTL DEF Spec

-----------------------------------------------------------------------------
(***************************************************************************)
(* The limit of a second                                                   *)
(***************************************************************************)

\* The slot of a second and the second's place in it.
LEMMA SecondSplits ==
  ASSUME NEW s \in SecondOfDay
  PROVE  /\ s \div SlotLength \in Slot
         /\ s % SlotLength \in 0 .. SlotLength - 1
         /\ s \in Nat
<1>1. Slots * SlotLength \in Nat
  BY SlotAssumption
<1>2. s \in Nat /\ s + 1 <= Slots * SlotLength
  BY <1>1 DEF SecondOfDay
<1> DEFINE x == s \div SlotLength
           y == s % SlotLength
<1>3. x \in Nat /\ y \in 0 .. SlotLength - 1 /\ s = SlotLength * x + y
  <2>1. SlotLength \in Nat /\ SlotLength >= 1 /\ s \in Nat
    BY <1>2, SlotAssumption
  <2> QED
    BY <2>1, DivMod
<1> HIDE DEF x, y
<1>4. ASSUME x >= Slots PROVE FALSE
  <2>1. SlotLength * Slots <= SlotLength * x
    BY <1>3, <1>4, SlotAssumption, TimesMonotone
  <2>2. SlotLength * Slots = Slots * SlotLength
    BY SlotAssumption
  <2>3. SlotLength * x \in Nat
    BY <1>3, SlotAssumption
  <2> QED
    BY <1>1, <1>2, <1>3, <2>1, <2>2, <2>3
<1>5. x \in Slot
  BY <1>3, <1>4, SlotAssumption DEF Slot
<1> QED
  BY <1>2, <1>3, <1>5 DEF x, y

\* An int in range is itself.
LEMMA AsIntFits == ASSUME NEW n \in Nat, n <= MaxInt PROVE AsInt(n) = n
<1> DEFINE m == 2 * (MaxInt + 1)
           k == n + MaxInt + 1
<1>1. m \in Nat /\ m >= 1 /\ k \in Nat /\ k < m
  BY WeightAssumption
<1>2. k % m = k
  <2> HIDE DEF m, k
  <2> QED
    BY <1>1
<1> QED
  BY <1>2, WeightAssumption DEF AsInt

\* The value a slot starts from: that of the slot before it, 0 in the first.
From(x) == IF x = 0 THEN 0 ELSE values[x - 1]

\* Within a slot the limit runs from From to the slot's own value.
LEMMA LimitInSlot ==
  ASSUME CurveInv, phase = "day", FirstSlotFits, NEW s \in SecondOfDay
  PROVE  LET x == s \div SlotLength
             y == s % SlotLength
         IN /\ From(x) \in Nat /\ values[x] - From(x) \in Nat
            /\ GetNowLimit(s) = From(x) + (((values[x] - From(x)) * y) \div SlotLength)
            /\ ((values[x] - From(x)) * y) \div SlotLength \in Nat
            /\ ((values[x] - From(x)) * y) \div SlotLength <= values[x] - From(x)
<1> DEFINE x == s \div SlotLength
           y == s % SlotLength
           gap == values[x] - From(x)
<1>1. x \in Slot /\ y \in 0 .. SlotLength - 1
  BY SecondSplits
<1> HIDE DEF x, y
<1>2. values \in [Slot -> Nat] /\ 0 \in Slot /\ SlotLength \in Nat /\ SlotLength >= 1
  BY SlotAssumption DEF CurveInv, TypeOK, Slot
<1>3. From(x) \in Nat /\ From(x) <= values[x] /\ values[x] \in Nat
  <2>1. CASE x = 0
    BY <1>1, <1>2, <2>1 DEF From
  <2>2. CASE x # 0
    <3>1. x - 1 \in Slot /\ x - 1 <= x
      BY <1>1, <2>2, SlotAssumption DEF Slot
    <3>2. values[x - 1] <= values[x]
      BY <1>1, <3>1 DEF CurveInv, Filled
    <3> QED
      BY <1>1, <1>2, <2>2, <3>1, <3>2 DEF From
  <2> QED
    BY <2>1, <2>2
<1>4. gap \in Nat
  BY <1>3
<1>5. gap * y \in Nat /\ gap * y <= SlotLength * gap
  <2> HIDE DEF gap
  <2>1. y \in Nat /\ y <= SlotLength
    BY <1>1, <1>2
  <2>2. gap * y <= gap * SlotLength /\ gap * y \in Nat
    BY <1>2, <1>4, <2>1, TimesMonotone
  <2>3. gap * SlotLength = SlotLength * gap
    BY <1>2, <1>4
  <2> QED
    BY <2>2, <2>3
<1>6. (gap * y) \div SlotLength \in Nat /\ (gap * y) \div SlotLength <= gap
  <2> HIDE DEF gap
  <2>1. (gap * y) \div SlotLength <= gap
    BY <1>2, <1>4, <1>5, DivBounded
  <2>2. (gap * y) \div SlotLength \in Nat
    BY <1>2, <1>5, DivMod
  <2> QED
    BY <2>1, <2>2
<1>7. GetNowLimit(s) = From(x) + ((gap * y) \div SlotLength)
  <2>1. CASE x = 0
    <3>1. gap = values[0] /\ From(x) = 0
      BY <1>2, <2>1 DEF From
    <3>2. y * values[0] = gap * y
      BY <1>1, <1>2, <3>1
    <3>3. y * values[0] <= MaxInt
      <4>1. values[0] \in Nat /\ y \in Nat /\ SlotLength - 1 \in Nat /\ y <= SlotLength - 1
        BY <1>1, <1>2
      <4>2. values[0] * y <= values[0] * (SlotLength - 1)
        BY <4>1, TimesMonotone
      <4>3. /\ values[0] * (SlotLength - 1) = (SlotLength - 1) * values[0]
            /\ values[0] * y = y * values[0]
            /\ values[0] * y \in Nat /\ (SlotLength - 1) * values[0] \in Nat
        BY <4>1
      <4> QED
        BY <4>2, <4>3, WeightAssumption DEF FirstSlotFits
    <3>4. AsInt(y * values[0]) = gap * y
      BY <1>5, <3>2, <3>3, AsIntFits
    <3>5. Quotient(gap * y, SlotLength) = (gap * y) \div SlotLength
      <4> HIDE DEF gap
      <4> QED
        BY <1>5 DEF Quotient
    <3>6. GetNowLimit(s) = Quotient(AsInt(y * values[0]), SlotLength)
      BY <2>1 DEF GetNowLimit, x, y
    <3>7. GetNowLimit(s) = (gap * y) \div SlotLength
      BY <3>4, <3>5, <3>6
    <3> HIDE DEF gap
    <3> QED
      BY <1>6, <3>1, <3>7
  <2>2. CASE x # 0
    <3>1. gap = values[x] - values[x - 1] /\ From(x) = values[x - 1]
      BY <2>2 DEF From
    <3>2. GetNowLimit(s) = values[x - 1] + Quotient((values[x] - values[x - 1]) * y, SlotLength)
      BY <2>2 DEF GetNowLimit, x, y
    <3>3. GetNowLimit(s) = From(x) + Quotient(gap * y, SlotLength)
      BY <3>1, <3>2
    <3> HIDE DEF gap
    <3>4. Quotient(gap * y, SlotLength) = (gap * y) \div SlotLength
      BY <1>5 DEF Quotient
    <3> QED
      BY <3>3, <3>4
  <2> QED
    BY <2>1, <2>2
<1> QED
  BY <1>3, <1>4, <1>6, <1>7 DEF x, y

\* From one second to a later one the limit does not fall.
LEMMA LimitMonotone ==
  ASSUME CurveInv, phase = "day", FirstSlotFits,
         NEW s \in SecondOfDay, NEW t \in SecondOfDay, s <= t
  PROVE  GetNowLimit(s) <= GetNowLimit(t)
<1> DEFINE xs == s \div SlotLength
           ys == s % SlotLength
           xt == t \div SlotLength
           yt == t % SlotLength
           gs == values[xs] - From(xs)
           gt == values[xt] - From(xt)
           ds == (gs * ys) \div SlotLength
           dt == (gt * yt) \div SlotLength
<1>1. /\ xs \in Slot /\ xt \in Slot /\ s \in Nat /\ t \in Nat
      /\ ys \in 0 .. SlotLength - 1 /\ yt \in 0 .. SlotLength - 1
  BY SecondSplits
<1>2. SlotLength \in Nat /\ SlotLength >= 1 /\ values \in [Slot -> Nat]
  BY SlotAssumption DEF CurveInv, TypeOK
<1>3. xs <= xt
  BY <1>1, <1>2, DivMonotone
<1>4. s = SlotLength * xs + ys /\ t = SlotLength * xt + yt
  BY <1>1, <1>2, DivMod
<1>5. /\ From(xs) \in Nat /\ gs \in Nat /\ ds \in Nat /\ ds <= gs
      /\ GetNowLimit(s) = From(xs) + ds
  BY LimitInSlot
<1>6. /\ From(xt) \in Nat /\ gt \in Nat /\ dt \in Nat /\ dt <= gt
      /\ GetNowLimit(t) = From(xt) + dt
  BY LimitInSlot
<1> HIDE DEF xs, ys, xt, yt
<1>7. CASE xs = xt
  <2>1. gs = gt
    BY <1>7
  <2> HIDE DEF gs, gt
  <2>2. ys \in Nat /\ yt \in Nat
    BY <1>1, <1>2
  <2>3. ys <= yt
    <3> DEFINE z == SlotLength * xt
    <3>1. z \in Nat
      BY <1>1, <1>2 DEF Slot
    <3>2. s = z + ys /\ t = z + yt
      BY <1>4, <1>7
    <3> HIDE DEF z
    <3> QED
      BY <2>2, <3>1, <3>2
  <2>4. gs * ys <= gs * yt /\ gs * ys \in Nat /\ gs * yt \in Nat
    BY <1>5, <2>2, <2>3, TimesMonotone
  <2>5. (gs * ys) \div SlotLength <= (gs * yt) \div SlotLength
    BY <1>2, <2>4, DivMonotone
  <2>6. ds <= dt
    BY <2>1, <2>5
  <2> HIDE DEF ds, dt
  <2> QED
    BY <1>5, <1>6, <1>7, <2>6
<1>8. CASE xs # xt
  <2> HIDE DEF ds, dt
  <2>1. xs \in Nat /\ xt \in Nat /\ xs <= xt - 1 /\ xt # 0 /\ xt - 1 \in Slot
    BY <1>1, <1>3, <1>8, SlotAssumption DEF Slot
  <2>2. values[xs] <= values[xt - 1]
    BY <1>1, <2>1 DEF CurveInv, Filled
  <2>3. From(xt) = values[xt - 1]
    BY <2>1 DEF From
  <2>4. values[xs] \in Nat /\ values[xs] = From(xs) + gs
    BY <1>1, <1>2, <1>5
  <2> HIDE DEF gs, gt
  <2> QED
    BY <1>5, <1>6, <2>2, <2>3, <2>4
<1> QED
  BY <1>7, <1>8

\* Theorem: for every file of weights, and every count for which the product of the first
\* slot does not overflow (FirstSlotFits), the limit is never negative and never falls in
\* the course of the day (MakeValue, GetNowLimit).
THEOREM LimitNeverFalls == Spec => []NeverFalls
<1>1. CurveInv => NeverFalls
  <2> SUFFICES ASSUME CurveInv, phase = "day", FirstSlotFits, NEW s \in SecondOfDay
               PROVE  /\ GetNowLimit(s) >= 0
                      /\ \A t \in SecondOfDay : s <= t => GetNowLimit(s) <= GetNowLimit(t)
    BY DEF NeverFalls
  <2>1. GetNowLimit(s) >= 0
    BY LimitInSlot
  <2>2. ASSUME NEW t \in SecondOfDay, s <= t PROVE GetNowLimit(s) <= GetNowLimit(t)
    BY <2>2, LimitMonotone
  <2> QED
    BY <2>1, <2>2
<1> QED
  BY <1>1, CurveInvariant, PTL
-----------------------------------------------------------------------------
(***************************************************************************)
(* The day's count                                                         *)
(***************************************************************************)

\* f[x] is the weight of the slots before x.
Prefix(f) ==
  /\ f \in [0 .. Slots -> Nat] /\ f[0] = 0
  /\ \A x \in Slot : f[x + 1] = f[x] + timeValues[x]

\* The sum is the weight of all slots, MakeValue's running total that of the slots filled, and
\* a value the share of the slots up to its own.
Total(f) ==
  /\ Prefix(f)
  /\ phase = "load" => f[Slots] = sum /\ \A x \in Slot : x >= i => timeValues[x] = 0
  /\ phase # "load" => sum = IF f[Slots] = 0 THEN 1 ELSE f[Slots]
  /\ phase = "make" =>
       before = f[i] /\ \A x \in Slot : x < i => values[x] = (f[x + 1] * day) \div sum
  /\ phase = "day" =>
       before = f[Slots] /\ \A x \in Slot : values[x] = (f[x + 1] * day) \div sum

\* As far as MakeValue has come, f is the recursive Weight.
Weighed(f) ==
  /\ phase = "make" => \A x \in 0 .. i : Weight[x] = f[x]
  /\ phase = "day" => \A x \in 0 .. Slots : Weight[x] = f[x]

Totals == \E f : Total(f) /\ Weighed(f)

\* A prefix sum shows that the recursion of Weight has a solution.
LEMMA WeightUnfolds ==
  ASSUME NEW f, Prefix(f)
  PROVE  Weight[0] = 0 /\ \A x \in Slot : Weight[x + 1] = Weight[x] + timeValues[x]
<1>0. Slots \in Nat /\ Slot = 0 .. Slots - 1
  BY SlotAssumption DEF Slot
<1>1. f = [x \in 0 .. Slots |-> IF x = 0 THEN 0 ELSE f[x - 1] + timeValues[x - 1]]
  <2>1. ASSUME NEW x \in 0 .. Slots
        PROVE  f[x] = IF x = 0 THEN 0 ELSE f[x - 1] + timeValues[x - 1]
    <3>1. CASE x = 0
      BY <3>1 DEF Prefix
    <3>2. CASE x # 0
      <4>1. x - 1 \in Slot /\ (x - 1) + 1 = x
        BY <1>0, <3>2
      <4>2. f[(x - 1) + 1] = f[x - 1] + timeValues[x - 1]
        BY <4>1 DEF Prefix
      <4> QED BY <3>2, <4>1, <4>2
    <3> QED BY <3>1, <3>2
  <2> QED BY <2>1 DEF Prefix
<1>2. Weight = [x \in 0 .. Slots |-> IF x = 0 THEN 0 ELSE Weight[x - 1] + timeValues[x - 1]]
  BY <1>1, Zenon DEF Weight
<1>3. PICK w : w = Weight
  OBVIOUS
<1>4. w = [x \in 0 .. Slots |-> IF x = 0 THEN 0 ELSE w[x - 1] + timeValues[x - 1]]
  BY <1>2, <1>3, Zenon
<1>5. w[0] = 0
  BY <1>0, <1>4
<1>6. ASSUME NEW x \in Slot
      PROVE  w[x + 1] = w[x] + timeValues[x]
  <2>1. x + 1 \in 0 .. Slots /\ x + 1 # 0 /\ (x + 1) - 1 = x
    BY <1>0
  <2>2. w[x + 1] = w[(x + 1) - 1] + timeValues[(x + 1) - 1]
    BY <1>4, <2>1, Zenon
  <2> QED BY <2>1, <2>2
<1> QED BY <1>3, <1>5, <1>6, Zenon

LEMMA WeighedKept ==
  ASSUME CurveInv, NEW f, Total(f), Weighed(f), Total(f)', [Next]_vars, ~ReadLine
  PROVE  Weighed(f)'
<1>0. Slots \in Nat /\ Slot = 0 .. Slots - 1 /\ i \in 0 .. Slots
  BY SlotAssumption DEF Slot, CurveInv, TypeOK
<1>1. timeValues' = timeValues
  BY DEF Next, LoadDone, MakeValue, MakeDone, Tick, vars
<1>2. Weight' = Weight
  BY <1>1, Zenon DEF Weight
<1>3. PICK w : w = Weight /\ w = Weight'
  BY <1>2
<1>4. w[0] = 0 /\ \A x \in Slot : w[x + 1] = w[x] + timeValues[x]
  BY <1>3, WeightUnfolds DEF Total
<1>5. f[0] = 0 /\ \A x \in Slot : f[x + 1] = f[x] + timeValues[x]
  BY DEF Total, Prefix
<1>6. /\ phase = "make" => \A x \in 0 .. i : w[x] = f[x]
      /\ phase = "day" => \A x \in 0 .. Slots : w[x] = f[x]
  BY <1>3 DEF Weighed
<1>7. /\ phase' = "make" => \A x \in 0 .. i' : w[x] = f[x]
      /\ phase' = "day" => \A x \in 0 .. Slots : w[x] = f[x]
  <2>1. CASE LoadDone
    BY <1>4, <1>5, <2>1 DEF LoadDone
  <2>2. CASE MakeValue
    <3>1. phase = "make" /\ phase' = "make" /\ i' = i + 1 /\ i \in Slot
      BY <1>0, <2>2 DEF MakeValue
    <3>2. ASSUME NEW x \in 0 .. i + 1 PROVE w[x] = f[x]
      <4>1. CASE x \in 0 .. i
        BY <1>6, <3>1, <4>1
      <4>2. CASE x = i + 1
        <5>1. w[i] = f[i]
          BY <1>0, <1>6, <3>1
        <5> QED BY <1>4, <1>5, <3>1, <4>2, <5>1
      <4> QED BY <1>0, <4>1, <4>2
    <3> QED BY <3>1, <3>2
  <2>3. CASE MakeDone
    BY <1>6, <2>3 DEF MakeDone
  <2>4. CASE Tick \/ UNCHANGED vars
    BY <1>6, <2>4 DEF Tick, vars
  <2> QED BY <2>1, <2>2, <2>3, <2>4 DEF Next
<1> QED BY <1>3, <1>7 DEF Weighed

LEMMA TotalsKept ==
  ASSUME CurveInv, Totals, [Next]_vars
  PROVE  Totals'
<1>1. PICK f : Total(f) /\ Weighed(f)
  BY DEF Totals
<1>2. /\ f \in [0 .. Slots -> Nat] /\ i \in 0 .. Slots /\ Slots \in Nat /\ Slots >= 2
      /\ timeValues \in [Slot -> Nat] /\ phase \in {"load", "make", "day"}
      /\ Slot = 0 .. Slots - 1 /\ lines \in Seq(Nat \cup {Bad}) /\ line \in 0 .. Len(lines)
  BY <1>1, SlotAssumption, WeightAssumption DEF CurveInv, TypeOK, Total, Prefix, Slot
<1>3. CASE ReadLine
  <2>1. CASE lines[line + 1] = Bad
    <3>1. phase = "load" /\ UNCHANGED <<phase, timeValues, sum, i>>
      BY <1>3, <2>1 DEF ReadLine
    <3>2. Total(f)'
      BY <1>1, <3>1 DEF Total, Prefix
    <3> QED BY <3>1, <3>2 DEF Weighed, Totals
  <2>2. CASE lines[line + 1] # Bad
    <3>1. PICK v \in Nat : v = lines[line + 1]
      <4>1. line + 1 \in 1 .. Len(lines)
        BY <1>2, <1>3 DEF ReadLine, LoadEnds
      <4> QED BY <1>2, <2>2, <4>1
    <3>2. /\ phase = "load" /\ phase' = "load" /\ i \in Slot /\ i' = i + 1
          /\ timeValues' = [timeValues EXCEPT ![i] = v] /\ sum' = sum + v
      BY <1>2, <1>3, <2>2, <3>1 DEF ReadLine, LoadEnds
    <3>3. /\ f[Slots] = sum /\ timeValues[i] = 0 /\ f[0] = 0
          /\ \A x \in Slot : f[x + 1] = f[x] + timeValues[x]
          /\ \A x \in Slot : x >= i => timeValues[x] = 0
      BY <1>1, <1>2, <3>2 DEF Total, Prefix
    <3>4. PICK g : g = [x \in 0 .. Slots |-> IF x <= i THEN f[x] ELSE f[x] + v]
      OBVIOUS
    <3>5. g \in [0 .. Slots -> Nat] /\ g[0] = 0 /\ g[Slots] = sum'
      <4>1. 0 \in 0 .. Slots /\ Slots \in 0 .. Slots /\ 0 <= i /\ ~(Slots <= i)
        BY <1>2, <3>2
      <4>2. g[0] = f[0] /\ g[Slots] = f[Slots] + v
        BY <3>4, <4>1
      <4>3. \A x \in 0 .. Slots : f[x] \in Nat /\ f[x] + v \in Nat
        BY <1>2, SMTT(30)
      <4>4. g \in [0 .. Slots -> Nat]
        BY <3>4, <4>3
      <4> QED BY <3>2, <3>3, <4>2, <4>4
    <3>6. ASSUME NEW x \in Slot
          PROVE  g[x + 1] = g[x] + timeValues'[x] /\ (x >= i' => timeValues'[x] = 0)
      <4>1. x \in 0 .. Slots /\ x + 1 \in 0 .. Slots /\ x \in Int /\ i \in Int
        BY <1>2
      <4>2. f[x] \in Nat /\ f[x + 1] = f[x] + timeValues[x] /\ timeValues[x] \in Nat
        BY <1>2, <3>3, <4>1
      <4>3. CASE x < i
        BY <1>2, <3>2, <3>4, <4>1, <4>2, <4>3
      <4>4. CASE x = i
        BY <1>2, <3>2, <3>3, <3>4, <4>1, <4>2, <4>4
      <4>5. CASE x > i
        BY <1>2, <3>2, <3>3, <3>4, <4>1, <4>2, <4>5
      <4> QED BY <4>1, <4>3, <4>4, <4>5
    <3> QED BY <3>2, <3>5, <3>6 DEF Total, Prefix, Weighed, Totals
  <2> QED BY <2>1, <2>2
<1>4. ASSUME LoadDone PROVE Total(f)'
  <2>1. before' = 0 /\ i' = 0 /\ phase' = "make" /\ timeValues' = timeValues
    BY <1>4 DEF LoadDone, CurveInv, Filled
  <2>2. sum' = IF f[Slots] = 0 THEN 1 ELSE f[Slots]
    BY <1>1, <1>4 DEF LoadDone, Total
  <2>3. \A x \in Slot : ~(x < i')
    BY <1>2, <2>1
  <2> QED BY <1>1, <2>1, <2>2, <2>3 DEF Total, Prefix
<1>5. ASSUME MakeValue PROVE Total(f)'
  <2>1. /\ phase = "make" /\ phase' = "make" /\ i \in Slot /\ i' = i + 1
        /\ before' = before + timeValues[i] /\ sum' = sum /\ timeValues' = timeValues
    BY <1>2, <1>5 DEF MakeValue
  <2>2. before' = f[i + 1]
    BY <1>1, <2>1 DEF Total, Prefix
  <2>3. PICK b : b = (before' * day) \div sum
    OBVIOUS
  <2>4. values' = [values EXCEPT ![i] = b] /\ values \in [Slot -> Nat] /\ day' = day
    BY <1>5, <2>3 DEF MakeValue, CurveInv, TypeOK
  <2>5. ASSUME NEW x \in Slot, x < i'
        PROVE  values'[x] = (f[x + 1] * day) \div sum
    <3>1. CASE x = i
      BY <2>2, <2>3, <2>4, <3>1
    <3>2. CASE x # i
      <4>1. x < i /\ values'[x] = values[x]
        BY <1>2, <2>1, <2>4, <2>5, <3>2
      <4> QED BY <1>1, <2>1, <4>1 DEF Total
    <3> QED BY <3>1, <3>2
  <2> QED BY <1>1, <2>1, <2>2, <2>4, <2>5 DEF Total, Prefix
<1>6. ASSUME MakeDone PROVE Total(f)'
  <2>1. /\ phase = "make" /\ phase' = "day" /\ i = Slots
        /\ UNCHANGED <<timeValues, sum, day, before, values>>
    BY <1>6 DEF MakeDone
  <2>2. \A x \in Slot : x < i
    BY <1>2, <2>1
  <2>3. before = f[Slots] /\ \A x \in Slot : values[x] = (f[x + 1] * day) \div sum
    BY <1>1, <2>1, <2>2 DEF Total
  <2> QED BY <1>1, <2>1, <2>3 DEF Total, Prefix
<1>7. ASSUME Tick \/ UNCHANGED vars PROVE Total(f)'
  <2>1. UNCHANGED <<phase, timeValues, sum, day, i, before, values>>
    BY <1>7 DEF Tick, vars
  <2> QED BY <1>1, <2>1 DEF Total, Prefix
<1>8. CASE ~ReadLine
  <2>1. Total(f)'
    BY <1>4, <1>5, <1>6, <1>7, <1>8 DEF Next
  <2>2. Weighed(f)'
    BY <1>1, <1>8, <2>1, WeighedKept
  <2> QED BY <2>1, <2>2 DEF Totals
<1> QED BY <1>3, <1>8

LEMMA TotalsInvariant == Spec => []Totals
<1>1. Init => Totals
  <2> SUFFICES ASSUME Init PROVE Totals
    OBVIOUS
  <2>1. PICK f : f = [x \in 0 .. Slots |-> 0]
    OBVIOUS
  <2>2. f \in [0 .. Slots -> Nat] /\ f[0] = 0 /\ f[Slots] = 0 /\ \A x \in Slot : f[x + 1] = 0 /\ f[x] = 0
    BY <2>1, SlotAssumption DEF Slot
  <2>3. phase = "load" /\ sum = 0 /\ \A x \in Slot : timeValues[x] = 0
    BY DEF Init
  <2>4. Prefix(f)
    BY <2>2, <2>3 DEF Prefix
  <2>5. Total(f)
    BY <2>2, <2>3, <2>4 DEF Total
  <2> QED BY <2>3, <2>5 DEF Weighed, Totals
<1>2. CurveInv /\ Totals /\ [Next]_vars => Totals'
  BY TotalsKept
<1> QED BY <1>1, <1>2, CurveInvariant, PTL DEF Spec

LEMMA ExactDivision == ASSUME NEW d \in Nat, d >= 1, NEW m \in Nat PROVE (d * m) \div d = m
<1>1. PICK q \in Nat, r \in 0 .. d - 1 : q = (d * m) \div d /\ d * m = d * q + r
  <2>1. d * m \in Nat
    OBVIOUS
  <2> QED BY <2>1, DivMod
<1>2. q <= m
  BY <1>1, DivBounded
<1>3. ~(q < m)
  <2> SUFFICES ASSUME q < m PROVE FALSE
    OBVIOUS
  <2>1. q + 1 <= m
    OBVIOUS
  <2>2. d * (q + 1) <= d * m
    BY <2>1, TimesMonotone
  <2>3. d * (q + 1) = d * q + d
    OBVIOUS
  <2> QED BY <1>1, <2>2, <2>3
<1> QED BY <1>1, <1>2, <1>3

\* Types; what has been read and filled so far bounds the indices.
THEOREM CurveTypes == Spec => []TypeOK
<1>1. CurveInv => TypeOK
  BY DEF CurveInv
<1> QED BY <1>1, CurveInvariant, PTL

\* The limit never exceeds the day's count, and the last slot ends at exactly the day's count
\* unless the curve has no weight at all.
THEOREM CountReached == Spec => []DayCountReached
<1>1. CurveInv /\ Totals => DayCountReached
  <2> SUFFICES ASSUME CurveInv, Totals, phase = "day", FirstSlotFits
               PROVE  /\ \A s \in SecondOfDay : GetNowLimit(s) <= day
                      /\ values[Slots - 1] = IF before = 0 THEN 0 ELSE day
    BY DEF DayCountReached
  <2>1. PICK f : Total(f)
    BY DEF Totals
  <2>2. /\ day \in Nat /\ before \in Nat /\ sum \in Nat /\ values \in [Slot -> Nat]
        /\ Slots \in Nat /\ Slots >= 2 /\ Slot = 0 .. Slots - 1
    BY SlotAssumption, WeightAssumption DEF CurveInv, TypeOK, Slot
  <2>3. values[Slots - 1] = (before * day) \div sum /\ sum = IF before = 0 THEN 1 ELSE before
    <3>1. Slots - 1 \in Slot /\ (Slots - 1) + 1 = Slots
      BY <2>2
    <3>2. before = f[Slots] /\ values[Slots - 1] = (f[(Slots - 1) + 1] * day) \div sum
      BY <2>1, <3>1 DEF Total
    <3> QED BY <2>1, <3>1, <3>2 DEF Total
  <2>4. values[Slots - 1] = IF before = 0 THEN 0 ELSE day
    <3>1. CASE before = 0
      <4>1. before * day = 0 /\ 0 \div 1 = 0
        BY <2>2, <3>1
      <4> QED BY <2>3, <3>1, <4>1
    <3>2. CASE before # 0
      <4>1. before >= 1 /\ sum = before
        BY <2>2, <2>3, <3>2
      <4>2. (before * day) \div before = day
        BY <2>2, <4>1, ExactDivision
      <4> QED BY <2>3, <3>2, <4>1, <4>2
    <3> QED BY <3>1, <3>2
  <2>5. ASSUME NEW s \in SecondOfDay
        PROVE  GetNowLimit(s) <= day
    <3>1. PICK x \in Slot : x = s \div SlotLength
      BY SecondSplits
    <3>2. PICK q \in Nat : /\ From(x) \in Nat /\ values[x] - From(x) \in Nat
                           /\ GetNowLimit(s) = From(x) + q /\ q <= values[x] - From(x)
      BY <3>1, LimitInSlot
    <3>3. values[x] \in Nat /\ Slots - 1 \in Slot /\ x <= Slots - 1
      BY <2>2
    <3>4. values[x] <= values[Slots - 1]
      BY <3>3 DEF CurveInv, Filled
    <3>5. values[Slots - 1] <= day
      BY <2>2, <2>4
    <3>6. GetNowLimit(s) <= values[x]
      BY <3>2, <3>3
    <3> QED BY <2>2, <3>2, <3>3, <3>4, <3>5, <3>6
  <2> QED BY <2>4, <2>5
<1> QED BY <1>1, CurveInvariant, TotalsInvariant, PTL

\* The arithmetic of one second: u and v are the slots' values, a and b the weights they
\* were made of, both times the day's count.
LEMMA SharesAddUp ==
  ASSUME NEW L \in Nat, L >= 1, NEW S \in Nat, S >= 1, NEW y \in 0 .. L - 1,
         NEW a \in Nat, NEW b \in Nat, NEW u \in Nat, NEW v \in Nat, u <= v,
         S * u <= a, a < S * u + S, S * v <= b, b < S * v + S,
         NEW q \in Nat, L * q <= (v - u) * y, (v - u) * y < L * q + L
  PROVE  /\ (u + q) * (L * S) <= (L - y) * a + y * b
         /\ (L - y) * a + y * b < ((u + q) + 2) * (L * S)
<1>1. PICK z \in Nat : z = L - y /\ z >= 1 /\ L = z + y /\ y \in Nat
  OBVIOUS
<1>2. PICK U \in Nat, V \in Nat : U = S * u /\ V = S * v
  OBVIOUS
<1>3. z * U <= z * a /\ y * V <= y * b
  BY <1>1, <1>2, TimesMonotone
<1>4. z * a <= z * (U + S) /\ y * b <= y * (V + S)
  BY <1>1, <1>2, TimesMonotone
<1>5. S * (L * q) <= S * ((v - u) * y) /\ S * ((v - u) * y + 1) <= S * (L * q + L)
  <2>1. L * q \in Nat /\ (v - u) * y \in Nat
    BY <1>1
  <2> QED BY <2>1, TimesMonotone
<1>6. z * a < z * U + z * S
  <2>1. a + 1 <= U + S
    BY <1>2
  <2>2. z * (a + 1) <= z * (U + S)
    BY <1>1, <1>2, <2>1, TimesMonotone
  <2>3. z * (a + 1) = z * a + z /\ z * (U + S) = z * U + z * S
    BY <1>1, <1>2
  <2> QED BY <1>1, <2>2, <2>3
<1>7. y * b <= y * V + y * S
  BY <1>1, <1>2, <1>4
<1>8. (u + q) * (L * S) = z * U + y * U + S * (L * q)
  <2>1. (u + q) * (L * S) = u * (L * S) + q * (L * S)
    OBVIOUS
  <2>2. u * (L * S) = L * U /\ q * (L * S) = S * (L * q)
    BY <1>2
  <2>3. L * U = z * U + y * U
    BY <1>1, <1>2
  <2> QED BY <2>1, <2>2, <2>3
<1>9. S * ((v - u) * y) = y * V - y * U
  BY <1>1, <1>2
<1>10. (u + q) * (L * S) <= z * a + y * b
  BY <1>3, <1>5, <1>8, <1>9, SMTT(30)
<1>11. ((u + q) + 2) * (L * S) = (u + q) * (L * S) + 2 * (L * S)
  OBVIOUS
<1>12. L * S = z * S + y * S /\ S * (L * q + L) = S * (L * q) + L * S
  BY <1>1
<1>13. y * V - y * U <= S * (L * q) + L * S
  BY <1>5, <1>9, <1>12
<1>14. z * a + y * b < ((u + q) + 2) * (L * S)
  BY <1>6, <1>7, <1>8, <1>11, <1>12, <1>13
<1> QED BY <1>1, <1>10, <1>14

\* The integer arithmetic never runs ahead of the exact curve and stays less than two behind.
THEOREM CurveFollowed == Spec => []CloseToCurve
<1>1. CurveInv /\ Totals => CloseToCurve
  <2> SUFFICES ASSUME CurveInv, Totals, phase = "day", FirstSlotFits
               PROVE  /\ GetNowLimit(second) * (SlotLength * sum) <= ExactShare(second)
                      /\ (GetNowLimit(second) + 2) * (SlotLength * sum) > ExactShare(second)
    BY DEF CloseToCurve
  <2>1. PICK f : Total(f) /\ Weighed(f)
    BY DEF Totals
  <2>2. /\ day \in Nat /\ sum \in Nat /\ sum >= 1 /\ values \in [Slot -> Nat]
        /\ timeValues \in [Slot -> Nat] /\ second \in SecondOfDay
        /\ Slots \in Nat /\ Slots >= 2 /\ Slot = 0 .. Slots - 1
        /\ SlotLength \in Nat /\ SlotLength >= 1
    BY SlotAssumption, WeightAssumption DEF CurveInv, TypeOK, Filled, Slot
  <2>3. PICK x \in Slot, y \in 0 .. SlotLength - 1 :
          x = second \div SlotLength /\ y = second % SlotLength
    BY <2>2, SecondSplits
  <2>4. PICK L \in Nat, S \in Nat : L = SlotLength /\ S = sum /\ L >= 1 /\ S >= 1 /\ y \in 0 .. L - 1
    BY <2>2
  <2>5. /\ f \in [0 .. Slots -> Nat] /\ f[0] = 0
        /\ \A z \in Slot : f[z + 1] = f[z] + timeValues[z] /\ values[z] = (f[z + 1] * day) \div S
    BY <2>1, <2>4 DEF Total, Prefix
  <2>6. PICK a \in Nat, b \in Nat : a = f[x] * day /\ b = f[x + 1] * day
    <3>1. x \in 0 .. Slots /\ x + 1 \in 0 .. Slots
      BY <2>2
    <3>2. f[x] \in Nat /\ f[x + 1] \in Nat
      BY <2>5, <3>1
    <3>3. f[x] * day \in Nat /\ f[x + 1] * day \in Nat
      BY <2>2, <3>2, SMTT(30)
    <3> QED BY <3>3
  <2>7. PICK u \in Nat, v \in Nat : u = From(x) /\ v = values[x] /\ u <= v
    <3>1. From(x) \in Nat /\ values[x] - From(x) \in Nat /\ values[x] \in Nat
      BY <2>2, <2>3, LimitInSlot
    <3> QED BY <3>1
  <2>8. S * v <= b /\ b < S * v + S
    <3>1. v = b \div S
      BY <2>5, <2>6, <2>7
    <3> QED BY <2>4, <3>1, DivMod
  <2>9. S * u <= a /\ a < S * u + S
    <3>1. CASE x = 0
      <4>1. u = 0 /\ a = 0
        BY <2>2, <2>5, <2>6, <2>7, <3>1 DEF From
      <4> QED BY <2>4, <4>1
    <3>2. CASE x # 0
      <4>1. x - 1 \in Slot /\ (x - 1) + 1 = x
        BY <2>2, <3>2
      <4>2. values[x - 1] = (f[(x - 1) + 1] * day) \div S
        BY <2>5, <4>1
      <4>3. u = a \div S
        BY <2>6, <2>7, <3>2, <4>1, <4>2 DEF From
      <4> QED BY <2>4, <4>3, DivMod
    <3> QED BY <3>1, <3>2
  <2>10. PICK q \in Nat :
           /\ GetNowLimit(second) = u + q
           /\ L * q <= (v - u) * y /\ (v - u) * y < L * q + L
    <3>1. PICK m \in Nat : m = (v - u) * y
      BY <2>3, <2>7
    <3>2. m \div L \in Nat /\ L * (m \div L) <= m /\ m < L * (m \div L) + L
      BY <2>4, DivMod
    <3>3. GetNowLimit(second) = u + (((v - u) * y) \div L)
      BY <2>2, <2>3, <2>4, <2>7, LimitInSlot
    <3> QED BY <3>1, <3>2, <3>3
  <2>11. /\ (u + q) * (L * S) <= (L - y) * a + y * b
         /\ (L - y) * a + y * b < ((u + q) + 2) * (L * S)
    BY <2>4, <2>6, <2>7, <2>8, <2>9, <2>10, SharesAddUp
  <2>12. ExactShare(second) = (L - y) * a + y * b
    <3>1. Weight[x] = f[x]
      BY <2>1, <2>2 DEF Weighed
    <3>2. PICK d \in Nat, g \in Nat, h \in Nat : d = day /\ g = f[x] /\ h = timeValues[x]
      <4>1. x \in 0 .. Slots
        BY <2>2
      <4> QED BY <2>2, <2>5, <4>1
    <3>3. ExactShare(second) = d * (L * g + y * h)
      BY <2>3, <2>4, <3>1, <3>2 DEF ExactShare
    <3>4. a = g * d /\ b = (g + h) * d
      BY <2>5, <2>6, <3>2
    <3>5. d * (L * g + y * h) = (L - y) * (g * d) + y * ((g + h) * d)
      <4>1. PICK z \in Nat, w \in Nat : y = w /\ L = z + w
        BY <2>4
      <4>2. d * ((z + w) * g + w * h) = z * (g * d) + w * ((g + h) * d)
        OBVIOUS
      <4>3. L - y = z
        BY <4>1
      <4> QED BY <4>1, <4>2, <4>3
    <3> QED BY <3>3, <3>4, <3>5
  <2> QED BY <2>4, <2>10, <2>11, <2>12
<1> QED BY <1>1, CurveInvariant, TotalsInvariant, PTL
-----------------------------------------------------------------------------
(***************************************************************************)
(* The numbers of the file                                                 *)
(***************************************************************************)

\* A set of natural numbers has a least element.
LEMMA LeastNatural ==
  ASSUME NEW N \in SUBSET Nat, N # {}
  PROVE  \E x \in N : \A y \in N : x <= y
<1>1. PICK R : R = {p \in Nat \X Nat : p[1] < p[2]}
  OBVIOUS
<1>2. IsWellFoundedOn(R, Nat)
  BY <1>1, NatLessThanWellFounded DEF OpToRel
<1>3. PICK x \in N : \A y \in N : <<y, x>> \notin R
  BY <1>2, WFMin
<1>4. ASSUME NEW y \in N PROVE x <= y
  <2>1. x \in Nat /\ y \in Nat /\ <<y, x>> \notin R /\ <<y, x>> \in Nat \X Nat
    BY <1>3
  <2>2. ~(y < x)
    BY <1>1, <2>1
  <2> QED BY <2>1, <2>2
<1> QED BY <1>4

\* Induction: a set with 0 that holds the successor of each of its numbers has them all.
LEMMA NaturalsCovered ==
  ASSUME NEW S, 0 \in S, \A n \in Nat : n \in S => n + 1 \in S
  PROVE  Nat \subseteq S
<1> SUFFICES ASSUME Nat \ S # {} PROVE FALSE
  OBVIOUS
<1>1. PICK x \in Nat \ S : \A y \in Nat \ S : x <= y
  BY LeastNatural
<1>2. x # 0 /\ x - 1 \in Nat /\ ~(x <= x - 1)
  BY <1>1
<1>3. x - 1 \in S
  BY <1>1, <1>2
<1> QED BY <1>1, <1>2, <1>3

\* The recursion of Weight has one solution: every prefix sum is Weight itself.
LEMMA PrefixIsWeight ==
  ASSUME NEW f, Prefix(f)
  PROVE  \A x \in 0 .. Slots : Weight[x] = f[x]
<1>0. Slots \in Nat /\ Slot = 0 .. Slots - 1
  BY SlotAssumption DEF Slot
<1>1. PICK w : w = Weight
  OBVIOUS
<1>2. w[0] = 0 /\ \A x \in Slot : w[x + 1] = w[x] + timeValues[x]
  BY <1>1, WeightUnfolds, Zenon
<1>3. f[0] = 0 /\ \A x \in Slot : f[x + 1] = f[x] + timeValues[x]
  BY DEF Prefix
<1>4. PICK S : S = {n \in Nat : n <= Slots => w[n] = f[n]}
  OBVIOUS
<1>5. 0 \in S
  BY <1>2, <1>3, <1>4
<1>6. ASSUME NEW n \in Nat, n \in S PROVE n + 1 \in S
  <2>1. ASSUME n + 1 <= Slots PROVE w[n + 1] = f[n + 1]
    <3>1. n \in Slot /\ w[n] = f[n]
      BY <1>0, <1>4, <1>6, <2>1
    <3> QED BY <1>2, <1>3, <3>1
  <2> QED BY <1>4, <2>1
<1>7. Nat \subseteq S
  BY <1>5, <1>6, NaturalsCovered
<1> QED BY <1>0, <1>1, <1>4, <1>7

\* Counting the numbers line by line.
LEMMA NumbersCounted ==
  /\ NumbersBefore(1) = 0
  /\ \A k \in Nat \ {0} :
       /\ NumbersBefore(k) \in Nat
       /\ NumbersBefore(k + 1) = IF lines[k] = Bad THEN NumbersBefore(k) ELSE NumbersBefore(k) + 1
<1> DEFINE Numbers(k) == {j \in 1 .. k - 1 : lines[j] # Bad}
<1>1. NumbersBefore(1) = 0
  <2>1. Numbers(1) = {}
    OBVIOUS
  <2> QED BY <2>1, FS_EmptySet DEF NumbersBefore
<1>2. ASSUME NEW k \in Nat \ {0}
      PROVE  /\ NumbersBefore(k) \in Nat
             /\ NumbersBefore(k + 1) =
                  IF lines[k] = Bad THEN NumbersBefore(k) ELSE NumbersBefore(k) + 1
  <2>1. IsFiniteSet(1 .. k - 1) /\ Numbers(k) \in SUBSET (1 .. k - 1)
    BY FS_Interval
  <2>2. IsFiniteSet(Numbers(k))
    BY <2>1, FS_Subset
  <2>3. Cardinality(Numbers(k)) \in Nat
    BY <2>2, FS_CardinalityType
  <2>4. CASE lines[k] = Bad
    <3>1. Numbers(k + 1) = Numbers(k)
      BY <2>4
    <3> QED BY <2>3, <2>4, <3>1 DEF NumbersBefore
  <2>5. CASE lines[k] # Bad
    <3>1. Numbers(k + 1) = Numbers(k) \cup {k} /\ k \notin Numbers(k)
      BY <2>5
    <3>2. Cardinality(Numbers(k) \cup {k}) = Cardinality(Numbers(k)) + 1
      BY <2>2, <3>1, FS_AddElement
    <3> QED BY <2>3, <2>5, <3>1, <3>2 DEF NumbersBefore
  <2> QED BY <2>4, <2>5
<1> QED BY <1>1, <1>2

\* A later line has no fewer numbers before it.
LEMMA NumbersGrow ==
  ASSUME NEW j \in Nat \ {0}, NEW k \in Nat, k >= j
  PROVE  NumbersBefore(j) <= NumbersBefore(k)
<1>1. IsFiniteSet({m \in 1 .. k - 1 : lines[m] # Bad})
  <2>1. IsFiniteSet(1 .. k - 1)
    BY FS_Interval
  <2> QED BY <2>1, FS_Subset
<1>2. {m \in 1 .. j - 1 : lines[m] # Bad} \in SUBSET {m \in 1 .. k - 1 : lines[m] # Bad}
  OBVIOUS
<1> QED BY <1>1, <1>2, FS_Subset DEF NumbersBefore

\* The numbers read so far are in their slots, the slots after them are empty, and the
\* loop ended with the file or with the last slot.
Placed ==
  /\ NumbersBefore(line + 1) <= Slots
  /\ \A k \in 1 .. line :
       lines[k] # Bad =>
         NumbersBefore(k) < NumbersBefore(line + 1) /\ timeValues[NumbersBefore(k)] = lines[k]
  /\ \A x \in Slot : x >= NumbersBefore(line + 1) => timeValues[x] = 0
  /\ phase = "load" => i = NumbersBefore(line + 1)
  /\ phase # "load" => line = Len(lines) \/ NumbersBefore(line + 1) = Slots

LEMMA PlacedKept ==
  ASSUME CurveInv, Placed, [Next]_vars
  PROVE  Placed'
<1>1. /\ lines \in Seq(Nat \cup {Bad}) /\ Len(lines) \in Nat /\ line \in 0 .. Len(lines)
      /\ i \in 0 .. Slots /\ timeValues \in [Slot -> Nat]
      /\ Slots \in Nat /\ Slots >= 2 /\ Slot = 0 .. Slots - 1
  BY SlotAssumption, WeightAssumption DEF CurveInv, TypeOK, Slot
<1>2. lines' = lines
  BY DEF Next, ReadLine, LoadDone, MakeValue, MakeDone, Tick, vars
<1>3. \A k \in Nat : NumbersBefore(k)' = NumbersBefore(k)
  BY <1>2 DEF NumbersBefore
<1>4. PICK b : b = [k \in Nat |-> NumbersBefore(k)]
  OBVIOUS
<1>5. /\ \A k \in Nat \ {0} : b[k] \in Nat
      /\ \A k \in Nat \ {0} : b[k + 1] = IF lines[k] = Bad THEN b[k] ELSE b[k] + 1
      /\ \A k \in Nat : NumbersBefore(k) = b[k] /\ NumbersBefore(k)' = b[k]
  BY <1>3, <1>4, NumbersCounted
<1>6. /\ b[line + 1] <= Slots
      /\ \A k \in 1 .. line : lines[k] # Bad => b[k] < b[line + 1] /\ timeValues[b[k]] = lines[k]
      /\ \A x \in Slot : x >= b[line + 1] => timeValues[x] = 0
      /\ phase = "load" => i = b[line + 1]
      /\ phase # "load" => line = Len(lines) \/ b[line + 1] = Slots
  <2>1. line + 1 \in Nat /\ \A k \in 1 .. line : k \in Nat
    BY <1>1
  <2>2. NumbersBefore(line + 1) = b[line + 1] /\ \A k \in 1 .. line : NumbersBefore(k) = b[k]
    BY <1>5, <2>1
  <2> QED BY <2>2 DEF Placed
<1>7. /\ line' \in Nat /\ b[line' + 1] <= Slots
      /\ \A k \in 1 .. line' :
           lines[k] # Bad => b[k] < b[line' + 1] /\ timeValues'[b[k]] = lines[k]
      /\ \A x \in Slot : x >= b[line' + 1] => timeValues'[x] = 0
      /\ phase' = "load" => i' = b[line' + 1]
      /\ phase' # "load" => line' = Len(lines) \/ b[line' + 1] = Slots
  <2>1. CASE ReadLine
    <3>1. /\ phase = "load" /\ phase' = "load" /\ line' = line + 1 /\ line # Len(lines)
          /\ i = b[line + 1] /\ i # Slots /\ i \in Slot /\ b[line + 1] \in Nat
          /\ line + 1 \in Nat \ {0}
      BY <1>1, <1>6, <2>1 DEF ReadLine, LoadEnds
    <3>2. CASE lines[line + 1] = Bad
      <4>1. UNCHANGED <<timeValues, i>> /\ b[line' + 1] = b[line + 1]
        BY <1>5, <2>1, <3>1, <3>2 DEF ReadLine
      <4> QED BY <1>1, <1>6, <3>1, <3>2, <4>1
    <3>3. CASE lines[line + 1] # Bad
      <4>1. /\ timeValues' = [timeValues EXCEPT ![i] = lines[line + 1]] /\ i' = i + 1
            /\ b[line' + 1] = b[line + 1] + 1
        BY <1>5, <2>1, <3>1, <3>3 DEF ReadLine
      <4>2. ASSUME NEW k \in 1 .. line', lines[k] # Bad
            PROVE  b[k] < b[line' + 1] /\ timeValues'[b[k]] = lines[k]
        <5>1. CASE k = line + 1
          BY <1>1, <3>1, <4>1, <5>1
        <5>2. CASE k # line + 1
          <6>1. k \in 1 .. line /\ b[k] \in Nat
            BY <1>1, <1>5, <3>1, <5>2
          <6>2. b[k] < i /\ timeValues[b[k]] = lines[k]
            BY <1>6, <3>1, <4>2, <6>1
          <6>3. b[k] \in Slot /\ b[k] # i
            BY <1>1, <3>1, <6>1, <6>2
          <6> QED BY <1>1, <3>1, <4>1, <6>1, <6>2, <6>3, SMTT(30)
        <5> QED BY <5>1, <5>2
      <4>3. ASSUME NEW x \in Slot, x >= b[line' + 1] PROVE timeValues'[x] = 0
        <5>1. x # i /\ x >= b[line + 1]
          BY <1>1, <3>1, <4>1, <4>3, SMTT(30)
        <5> QED BY <1>1, <1>6, <4>1, <5>1
      <4> QED BY <1>1, <3>1, <4>1, <4>2, <4>3
    <3> QED BY <3>2, <3>3
  <2>2. CASE LoadDone
    <3>1. /\ UNCHANGED <<timeValues, line>> /\ phase = "load" /\ phase' = "make"
          /\ line = Len(lines) \/ i = Slots
      BY <2>2 DEF LoadDone, LoadEnds
    <3> QED BY <1>1, <1>6, <3>1
  <2>3. CASE MakeValue \/ MakeDone \/ Tick
    <3>1. UNCHANGED <<timeValues, line>> /\ phase # "load" /\ phase' # "load"
      BY <2>3 DEF MakeValue, MakeDone, Tick
    <3> QED BY <1>1, <1>6, <3>1
  <2>4. CASE UNCHANGED vars
    <3>1. UNCHANGED <<timeValues, line, phase, i>>
      BY <2>4 DEF vars
    <3> QED BY <1>1, <1>6, <3>1
  <2> QED BY <2>1, <2>2, <2>3, <2>4 DEF Next
<1>8. \A k \in 1 .. line' : NumbersBefore(k)' = b[k]
  <2>1. line' \in Nat
    BY <1>7
  <2>2. \A k \in 1 .. line' : k \in Nat
    BY <2>1
  <2> QED BY <1>5, <2>2
<1>9. NumbersBefore(line + 1)' = b[line' + 1]
  <2>a. PICK m : m = line'
    OBVIOUS
  <2>b. m \in Nat
    BY <1>7, <2>a
  <2>1. PICK l \in Nat : l = m + 1
    BY <2>b
  <2>2. NumbersBefore(line + 1)' = Cardinality({j \in 1 .. l - 1 : lines[j] # Bad})
    BY <1>2, <2>a, <2>1 DEF NumbersBefore
  <2>3. NumbersBefore(l) = b[l]
    BY <1>5, <2>1
  <2> QED BY <2>a, <2>1, <2>2, <2>3 DEF NumbersBefore
<1>10. ASSUME NEW k \in 1 .. line', lines[k] # Bad
       PROVE  /\ NumbersBefore(k)' < NumbersBefore(line + 1)'
              /\ timeValues'[NumbersBefore(k)'] = lines[k]
  BY <1>7, <1>8, <1>9, <1>10
<1> QED BY <1>2, <1>7, <1>8, <1>9, <1>10 DEF Placed, Slot

LEMMA PlacedInvariant == Spec => []Placed
<1>1. Init => Placed
  <2> SUFFICES ASSUME Init PROVE Placed
    OBVIOUS
  <2>1. line = 0 /\ i = 0 /\ phase = "load" /\ timeValues = [x \in Slot |-> 0]
    BY DEF Init
  <2>2. NumbersBefore(line + 1) = 0
    BY <2>1, NumbersCounted
  <2>3. \A k \in 1 .. line : FALSE
    BY <2>1
  <2> QED BY <2>1, <2>2, <2>3, SlotAssumption DEF Placed
<1>2. CurveInv /\ Placed /\ [Next]_vars => Placed'
  BY PlacedKept
<1> QED BY <1>1, <1>2, CurveInvariant, PTL DEF Spec

\* The numbers of the file fill the slots from the first one on, the slots left over are
\* empty, and the sum is that of the numbers in the slots and of no other.
THEOREM NumbersAlwaysFill == Spec => []NumbersFillSlots
<1>1. CurveInv /\ Totals /\ Placed => NumbersFillSlots
  <2> SUFFICES ASSUME CurveInv, Totals, Placed, phase # "load"
               PROVE  /\ \A k \in DOMAIN lines :
                           lines[k] # Bad /\ NumbersBefore(k) < Slots =>
                             timeValues[NumbersBefore(k)] = lines[k]
                      /\ \A x \in Slot : x >= NumbersBefore(Len(lines) + 1) => timeValues[x] = 0
                      /\ sum = IF Weight[Slots] = 0 THEN 1 ELSE Weight[Slots]
    BY DEF NumbersFillSlots
  <2>1. /\ lines \in Seq(Nat \cup {Bad}) /\ Len(lines) \in Nat /\ line \in 0 .. Len(lines)
        /\ Slots \in Nat /\ Slot = 0 .. Slots - 1
    BY SlotAssumption, WeightAssumption DEF CurveInv, TypeOK, Slot
  <2>2. ASSUME NEW k \in Nat, k >= line + 1
        PROVE  NumbersBefore(k) \in Nat /\ NumbersBefore(k) >= NumbersBefore(line + 1)
    <3>a. line + 1 \in Nat \ {0} /\ k \in Nat \ {0}
      BY <2>1, <2>2
    <3>1. NumbersBefore(line + 1) \in Nat /\ NumbersBefore(k) \in Nat
      BY <3>a, NumbersCounted
    <3> QED BY <2>1, <2>2, <3>1, NumbersGrow
  <2>3. ASSUME NEW k \in DOMAIN lines, lines[k] # Bad, NumbersBefore(k) < Slots
        PROVE  timeValues[NumbersBefore(k)] = lines[k]
    <3>1. k \in 1 .. line
      <4> SUFFICES ASSUME k > line PROVE FALSE
        BY <2>1
      <4>1. k \in Nat /\ k >= line + 1 /\ line # Len(lines)
        BY <2>1
      <4>2. NumbersBefore(k) \in Nat /\ NumbersBefore(k) >= Slots
        BY <2>2, <4>1 DEF Placed
      <4> QED BY <2>1, <2>3, <4>2
    <3> QED BY <2>3, <3>1 DEF Placed
  <2>4. ASSUME NEW x \in Slot, x >= NumbersBefore(Len(lines) + 1)
        PROVE  timeValues[x] = 0
    <3>1. Len(lines) + 1 \in Nat /\ Len(lines) + 1 >= line + 1 /\ NumbersBefore(line + 1) \in Nat
      BY <2>1, NumbersCounted, SMTT(30)
    <3>2. x >= NumbersBefore(line + 1)
      BY <2>1, <2>2, <2>4, <3>1
    <3> QED BY <3>2 DEF Placed
  <2>5. PICK f : Total(f)
    BY DEF Totals
  <2>6. Weight[Slots] = f[Slots] /\ sum = IF f[Slots] = 0 THEN 1 ELSE f[Slots]
    BY <2>1, <2>5, PrefixIsWeight DEF Total
  <2> QED BY <2>3, <2>4, <2>6
<1> QED BY <1>1, CurveInvariant, TotalsInvariant, PlacedInvariant, PTL
=============================================================================
