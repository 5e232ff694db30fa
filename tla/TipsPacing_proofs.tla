------------------------- MODULE TipsPacing_proofs -------------------------
(***************************************************************************)
(* The pacing of TipsServer, proved for every set of tasks, every curve,   *)
(* every length of the day and every sequence of edits, restarts and       *)
(* requests: the inductive invariant PacingInv, and the refinement of      *)
(* DailyPacing.                                                            *)
(***************************************************************************)
EXTENDS TipsPacing, TipsServer_proofs

\* The part of PacingInv about one entry of the table.
EntryOK(g) ==
  /\ taskMap[g].par.curve = HomeCurve[g]
  /\ LimitIsCurrent(g)
  /\ (Day(clock) = Day(lastTick) \/ taskMap[g].limit > 0) => CountCovers(g)

-----------------------------------------------------------------------------
\* A quota is a number, and it does not fall during the day.
LEMMA QuotaGrows ==
  ASSUME NEW g \in Guid
  PROVE  /\ \A s \in 0 .. DayLength - 1 : Quota[g][s] \in Nat
         /\ \A s, t \in 0 .. DayLength - 1 : s <= t => Quota[g][s] <= Quota[g][t]
<1>1. HomeCurve[g] \in Curve /\ Quota[g] = Limit[HomeCurve[g]]
  BY HomeCurveAssumption DEF Quota
<1> QED
  BY <1>1, CurveAssumption

\* As long as the day is that of the last tick, the quota at the clock is at least
\* that of the last tick.
LEMMA QuotaAtClock ==
  ASSUME TypeOK, lastTick <= clock, lastSecondOfDay = Second(lastTick), NEW g \in Guid,
         Day(clock) = Day(lastTick)
  PROVE  /\ lastSecondOfDay <= Second(clock)
         /\ Quota[g][lastSecondOfDay] <= Quota[g][Second(clock)]
<1>1. clock \in Nat /\ lastTick \in Nat
  BY ClockNumbers
<1>2. lastSecondOfDay <= Second(clock)
  BY <1>1, SameDayOrder
<1>3. lastSecondOfDay \in 0 .. DayLength - 1 /\ Second(clock) \in 0 .. DayLength - 1
  BY <1>1, DayAndSecond
<1> QED
  BY <1>2, <1>3, QuotaGrows

\* Every line of a task carries the task's own curve.
LEMMA HomeLines ==
  ASSUME NEW f \in Files, NEW g \in Guid, NEW i \in GoodLines(f, g)
  PROVE  f[i].par.curve = HomeCurve[g]
BY HomeCurveAssumption DEF GoodLines

\* So does the task that was loaded; a new task starts at the quota of the clock.
LEMMA HomeLoaded ==
  ASSUME NEW f \in Files, NEW T, TableOK(T), clock \in Nat, NEW g \in Listed(f)
  PROVE  /\ g \in Guid
         /\ LoadedTable(f, T)[g].par.curve = HomeCurve[g]
         /\ g \notin DOMAIN T => LoadedTable(f, T)[g].start = Quota[g][Second(clock)]
<1>1. g \in Guid /\ GoodLines(f, g) # {} /\ GoodLines(f, g) \subseteq DOMAIN f
  BY DEF Listed, GoodLines
<1>2. FirstOf(GoodLines(f, g)) \in GoodLines(f, g) /\ LastOf(GoodLines(f, g)) \in GoodLines(f, g)
  BY <1>1, ChosenLines
<1>3. /\ f[FirstOf(GoodLines(f, g))].par.curve = HomeCurve[g]
      /\ f[LastOf(GoodLines(f, g))].par.curve = HomeCurve[g]
  BY <1>1, <1>2, HomeLines
<1> QED
  BY <1>1, <1>3, LoadedProgress DEF Quota

\* The types of an entry of the table.
LEMMA EntryNumbers ==
  ASSUME TypeOK, NEW g \in DOMAIN taskMap
  PROVE  /\ g \in Guid /\ taskMap[g] \in TaskType
         /\ taskMap[g].count \in Nat /\ taskMap[g].start \in Int /\ taskMap[g].limit \in Int
         /\ dispatched[g] \in Nat
         /\ Quota[g][lastSecondOfDay] \in Nat
BY QuotaGrows DEF TypeOK, TaskType

\* The limit of a task at the clock is its quota.
LEMMA HomeLimit ==
  ASSUME NEW t, NEW g \in Guid, t.par.curve = HomeCurve[g]
  PROVE  NowLimit(t) = Quota[g][Second(clock)]
BY DEF NowLimit, Quota

-----------------------------------------------------------------------------
\* A fresh process: nothing of today has been handed out beyond the quota at which
\* every task now starts to count.
LEMMA StartPacing ==
  ASSUME TypeOK, LagBounded, PacingInv, Start
  PROVE  PacingInv'
<1>1. /\ clock \in Nat /\ lastTick \in Nat /\ clock' = clock
      /\ lastTick' = clock /\ lastSecondOfDay' = Second(clock)
      /\ dispatched' = IF Day(clock) > Day(lastTick) THEN NothingDispatched ELSE dispatched
      /\ Second(clock) \in 0 .. DayLength - 1
  BY ClockNumbers, SecondType DEF Start, ObserveClock
<1>2. ASSUME NEW g \in Guid PROVE dispatched'[g] <= Quota[g][Second(clock)]
  <2>1. CASE Day(clock) > Day(lastTick)
    BY <1>1, <2>1, QuotaGrows DEF NothingDispatched
  <2>2. CASE ~(Day(clock) > Day(lastTick))
    <3>1. Day(clock) = Day(lastTick)
      <4>1. Day(lastTick) <= Day(clock)
        BY <1>1, DayMonotone DEF LagBounded
      <4>2. Day(lastTick) \in Nat /\ Day(clock) \in Nat
        BY <1>1, DayAndSecond
      <4> QED
        BY <2>2, <4>1, <4>2
    <3>2. Quota[g][lastSecondOfDay] <= Quota[g][Second(clock)]
      BY <3>1, QuotaAtClock DEF LagBounded
    <3>3. dispatched[g] <= Quota[g][lastSecondOfDay] /\ dispatched[g] \in Nat
      BY DEF PacingInv, WithinQuota, TypeOK
    <3>4. Quota[g][lastSecondOfDay] \in Nat /\ Quota[g][Second(clock)] \in Nat
      BY <1>1, QuotaGrows DEF TypeOK
    <3> QED
      BY <1>1, <2>2, <3>2, <3>3, <3>4
  <2> QED
    BY <2>1, <2>2
<1>3. ASSUME NEW g \in DOMAIN taskMap' PROVE EntryOK(g)'
  <2> DEFINE T == LoadedTable(file, NoTasks)
  <2>1. file \in Files
    BY DEF Start, NoTasks, TypeOK
  <2>2. TableOK(T) /\ DOMAIN T = Listed(file)
    BY <1>1, <2>1, NoTasksType, LoadedTableType
  <2>3. taskMap' = [h \in DOMAIN T |-> [T[h] EXCEPT !.start = NowLimit(T[h])]]
    BY <2>1, FileAssumption DEF Start
  <2>4. g \in Listed(file) /\ g \notin DOMAIN NoTasks
    BY <2>2, <2>3 DEF NoTasks
  <2>5. /\ g \in Guid /\ T[g].par.curve = HomeCurve[g]
        /\ T[g].count = 0 /\ T[g].limit = 0
    BY <1>1, <2>1, <2>4, NoTasksType, HomeLoaded, LoadedProgress
  <2>6. NowLimit(T[g]) = Quota[g][Second(clock)]
    BY <2>5, HomeLimit
  <2>7. T[g] \in TaskType
    BY <2>2, <2>4 DEF TableOK
  <2>8. g \in DOMAIN T
    BY <2>2, <2>4
  <2> HIDE DEF T
  <2>9. taskMap'[g] = [T[g] EXCEPT !.start = Quota[g][Second(clock)]]
    BY <2>3, <2>6, <2>8
  <2>10. /\ taskMap'[g].par = T[g].par /\ taskMap'[g].count = 0 /\ taskMap'[g].limit = 0
         /\ taskMap'[g].start = Quota[g][Second(clock)]
    BY <2>5, <2>7, <2>9 DEF TaskType
  <2>11. LimitIsCurrent(g)'
    BY <2>10 DEF LimitIsCurrent
  <2>12. CountCovers(g)'
    <3>1. Quota[g][Second(clock)] \in Nat /\ dispatched'[g] <= Quota[g][Second(clock)]
      BY <1>1, <1>2, <2>5, QuotaGrows
    <3> QED
      BY <2>10, <3>1 DEF CountCovers
  <2> QED
    BY <2>5, <2>10, <2>11, <2>12 DEF EntryOK
<1>4. WithinQuota'
  BY <1>1, <1>2 DEF WithinQuota, Quota
<1> QED
  BY <1>3, <1>4 DEF PacingInv, EntryOK

\* A timer tick: the limit follows the curve from where the task started to count.
LEMMA TickPacing ==
  ASSUME TypeOK, LagBounded, PacingInv, OnAppTimer
  PROVE  PacingInv'
<1>1. /\ clock \in Nat /\ lastTick \in Nat /\ clock' = clock /\ phase = "up"
      /\ Second(clock) \in 0 .. DayLength - 1
  BY ClockNumbers, SecondType DEF OnAppTimer, TickReturns
<1>2. CASE TickReturns
  <2>1. UNCHANGED <<taskMap, lastSecondOfDay, dispatched, lastTick, clock>>
    BY <1>2 DEF OnAppTimer, TickReturns, historyVars
  <2> QED
    BY <2>1 DEF PacingInv, WithinQuota, LimitIsCurrent, CountCovers, Day
<1>3. CASE ~(TickReturns)
  <2> DEFINE reload == times' = 0 /\ FileChanged
             loaded == IF reload THEN LoadedTable(file, taskMap) ELSE taskMap
             newDay == Day(lastTick) < Day(clock)
  <2>1. /\ TableOK(loaded) /\ DOMAIN taskMap' = DOMAIN loaded
        /\ lastTick' = clock /\ lastSecondOfDay' = Second(clock)
        /\ dispatched' = IF newDay THEN NothingDispatched ELSE dispatched
        /\ \A g \in DOMAIN loaded :
             /\ taskMap'[g].par = loaded[g].par
             /\ taskMap'[g].count = IF newDay THEN 0 ELSE loaded[g].count
             /\ taskMap'[g].start = IF newDay THEN NowLimit(loaded[g]) ELSE loaded[g].start
             /\ taskMap'[g].limit = NowLimit(loaded[g]) - taskMap'[g].start
    BY <1>3, FullTick
  <2>2. ~newDay => Day(clock) = Day(lastTick)
    BY <1>1, TickSeesMidnight
  <2>3. WithinQuota'
    <3>1. ASSUME NEW g \in Guid PROVE dispatched'[g] <= Quota[g][Second(clock)]
      <4>1. Quota[g][lastSecondOfDay] \in Nat /\ Quota[g][Second(clock)] \in Nat
        BY <1>1, QuotaGrows DEF TypeOK
      <4>2. CASE newDay
        BY <2>1, <4>1, <4>2 DEF NothingDispatched
      <4>3. CASE ~newDay
        <5>1. Quota[g][lastSecondOfDay] <= Quota[g][Second(clock)]
          BY <2>2, <4>3, QuotaAtClock DEF LagBounded
        <5>2. dispatched[g] <= Quota[g][lastSecondOfDay] /\ dispatched[g] \in Nat
          BY DEF PacingInv, WithinQuota, TypeOK
        <5> QED
          BY <2>1, <4>1, <4>3, <5>1, <5>2
      <4> QED
        BY <4>2, <4>3
    <3> QED
      BY <2>1, <3>1 DEF WithinQuota, Quota
  <2>4. ASSUME NEW g \in DOMAIN loaded
        PROVE  /\ g \in Guid /\ loaded[g].par.curve = HomeCurve[g]
               /\ ~newDay => dispatched[g] <= loaded[g].start + loaded[g].count
               /\ loaded[g].count \in Nat /\ loaded[g].start \in Int
    <3>1. loaded[g] \in TaskType /\ g \in Guid
      BY <2>1 DEF TableOK
    <3>2. loaded[g].count \in Nat /\ loaded[g].start \in Int
      BY <3>1 DEF TaskType
    <3>3. dispatched[g] \in Nat /\ Quota[g][lastSecondOfDay] \in Nat
          /\ Quota[g][Second(clock)] \in Nat /\ dispatched[g] <= Quota[g][lastSecondOfDay]
      BY <1>1, <3>1, QuotaGrows DEF TypeOK, PacingInv, WithinQuota
    <3>4. CASE ~reload
      <4>1. loaded = taskMap
        BY <3>4
      <4>2. EntryOK(g)
        BY <4>1 DEF PacingInv, EntryOK
      <4> QED
        BY <2>2, <3>1, <3>2, <4>1, <4>2 DEF EntryOK, CountCovers
    <3>5. CASE reload
      <4>1. /\ file \in Files /\ TableOK(taskMap) /\ loaded = LoadedTable(file, taskMap)
        BY <1>3, <3>5 DEF TickReturns, TypeOK, TableOK
      <4>2. g \in Listed(file)
        BY <1>1, <4>1, LoadedTableType
      <4>3. loaded[g].par.curve = HomeCurve[g]
        BY <1>1, <4>1, <4>2, HomeLoaded
      <4>4. ASSUME ~newDay PROVE dispatched[g] <= loaded[g].start + loaded[g].count
        <5>1. CASE g \in DOMAIN taskMap
          <6>1. CountCovers(g)
            BY <2>2, <4>4, <5>1 DEF PacingInv
          <6>2. loaded[g].start = taskMap[g].start /\ loaded[g].count = taskMap[g].count
            BY <1>1, <4>1, <4>2, <5>1, LoadedProgress
          <6> QED
            BY <6>1, <6>2 DEF CountCovers
        <5>2. CASE g \notin DOMAIN taskMap
          <6>1. loaded[g].start = Quota[g][Second(clock)] /\ loaded[g].count = 0
            BY <1>1, <4>1, <4>2, <5>2, HomeLoaded, LoadedProgress
          <6>2. Quota[g][lastSecondOfDay] <= Quota[g][Second(clock)]
            BY <2>2, <3>1, <4>4, QuotaAtClock DEF LagBounded
          <6> QED
            BY <3>3, <6>1, <6>2
        <5> QED
          BY <5>1, <5>2
      <4> QED
        BY <3>1, <3>2, <4>3, <4>4
    <3> QED
      BY <3>4, <3>5
  <2> HIDE DEF loaded
  <2>5. ASSUME NEW g \in DOMAIN taskMap' PROVE EntryOK(g)'
    <3>1. g \in DOMAIN loaded /\ g \in Guid
      BY <2>1, <2>4
    <3>2. taskMap'[g].par.curve = HomeCurve[g]
      BY <2>1, <2>4, <3>1
    <3>3. NowLimit(loaded[g]) = Quota[g][Second(clock)]
      BY <2>4, <3>1, HomeLimit
    <3>4. LimitIsCurrent(g)'
      BY <2>1, <3>1, <3>3 DEF LimitIsCurrent, Quota
    <3>5. CountCovers(g)'
      <4>1. CASE newDay
        <5>1. Quota[g][Second(clock)] \in Nat
          BY <1>1, <3>1, QuotaGrows
        <5> QED
          BY <2>1, <3>1, <3>3, <4>1, <5>1 DEF CountCovers, NothingDispatched
      <4>2. CASE ~newDay
        BY <2>1, <2>4, <3>1, <4>2 DEF CountCovers
      <4> QED
        BY <4>1, <4>2
    <3> QED
      BY <3>2, <3>4, <3>5 DEF EntryOK
  <2> QED
    BY <2>3, <2>5 DEF PacingInv, EntryOK
<1> QED
  BY <1>2, <1>3

\* The command "update": a task that is new starts to count at the quota of the clock.
LEMMA UpdatePacing ==
  ASSUME TypeOK, LagBounded, PacingInv, UserUpdateTask
  PROVE  PacingInv'
<1>1. /\ clock \in Nat /\ file \in Files /\ TableOK(taskMap)
      /\ taskMap' = LoadedTable(file, taskMap)
      /\ UNCHANGED <<clock, lastTick, lastSecondOfDay, dispatched>>
      /\ Second(clock) \in 0 .. DayLength - 1
  BY ClockNumbers, SecondType DEF UserUpdateTask, TypeOK, TableOK, historyVars
<1>2. WithinQuota'
  BY <1>1 DEF PacingInv, WithinQuota
<1>3. ASSUME NEW g \in DOMAIN taskMap' PROVE EntryOK(g)'
  <2>1. g \in Listed(file)
    BY <1>1, LoadedTableType
  <2>2. g \in Guid /\ taskMap'[g].par.curve = HomeCurve[g]
    BY <1>1, <2>1, HomeLoaded
  <2>3. CASE g \in DOMAIN taskMap
    <3>1. /\ taskMap'[g].count = taskMap[g].count
          /\ taskMap'[g].start = taskMap[g].start
          /\ taskMap'[g].limit = taskMap[g].limit
      BY <1>1, <2>1, <2>3, LoadedProgress
    <3>2. EntryOK(g)
      BY <2>3 DEF PacingInv, EntryOK
    <3> QED
      BY <1>1, <2>2, <3>1, <3>2 DEF EntryOK, LimitIsCurrent, CountCovers, Day
  <2>4. CASE g \notin DOMAIN taskMap
    <3>1. /\ taskMap'[g].count = 0 /\ taskMap'[g].limit = 0
          /\ taskMap'[g].start = Quota[g][Second(clock)]
      BY <1>1, <2>1, <2>4, LoadedProgress, HomeLoaded
    <3>2. ASSUME Day(clock) = Day(lastTick) PROVE CountCovers(g)'
      <4>1. Quota[g][lastSecondOfDay] <= Quota[g][Second(clock)]
        BY <2>2, <3>2, QuotaAtClock DEF LagBounded
      <4>2. dispatched[g] <= Quota[g][lastSecondOfDay] /\ dispatched[g] \in Nat
        BY <2>2 DEF PacingInv, WithinQuota, TypeOK
      <4>3. Quota[g][lastSecondOfDay] \in Nat /\ Quota[g][Second(clock)] \in Nat
        BY <1>1, <2>2, QuotaGrows DEF TypeOK
      <4> QED
        BY <1>1, <3>1, <4>1, <4>2, <4>3 DEF CountCovers
    <3> QED
      BY <1>1, <2>2, <3>1, <3>2 DEF EntryOK, LimitIsCurrent, Day
  <2> QED
    BY <2>3, <2>4
<1> QED
  BY <1>2, <1>3 DEF PacingInv, EntryOK

\* The command "day": every task starts to count at the quota of the clock.
LEMMA DayCommandPacing ==
  ASSUME TypeOK, LagBounded, PacingInv, UserOnDayTimer
  PROVE  PacingInv'
<1>1. /\ clock \in Nat /\ TableOK(taskMap) /\ taskMap' = ResetTable(taskMap)
      /\ UNCHANGED <<clock, lastTick, lastSecondOfDay, dispatched>>
      /\ Second(clock) \in 0 .. DayLength - 1
  BY ClockNumbers, SecondType DEF UserOnDayTimer, TypeOK, TableOK, historyVars
<1>2. WithinQuota'
  BY <1>1 DEF PacingInv, WithinQuota
<1>3. ASSUME NEW g \in DOMAIN taskMap' PROVE EntryOK(g)'
  <2>1. g \in DOMAIN taskMap /\ taskMap'[g] = DayReset(taskMap[g]) /\ taskMap[g] \in TaskType
    BY <1>1, ResetTableType DEF TableOK
  <2>2. g \in Guid /\ taskMap[g].par.curve = HomeCurve[g]
    BY <1>1, <2>1 DEF PacingInv, TableOK
  <2>3. /\ taskMap'[g].count = 0 /\ taskMap'[g].limit = 0
        /\ taskMap'[g].start = Quota[g][Second(clock)]
        /\ taskMap'[g].par.curve = HomeCurve[g]
    BY <1>1, <2>1, <2>2, DayResetType, HomeLimit
  <2>4. ASSUME Day(clock) = Day(lastTick) PROVE CountCovers(g)'
    <3>1. Quota[g][lastSecondOfDay] <= Quota[g][Second(clock)]
      BY <2>2, <2>4, QuotaAtClock DEF LagBounded
    <3>2. dispatched[g] <= Quota[g][lastSecondOfDay] /\ dispatched[g] \in Nat
      BY <2>2 DEF PacingInv, WithinQuota, TypeOK
    <3>3. Quota[g][lastSecondOfDay] \in Nat /\ Quota[g][Second(clock)] \in Nat
      BY <1>1, <2>2, QuotaGrows DEF TypeOK
    <3> QED
      BY <1>1, <2>3, <3>1, <3>2, <3>3 DEF CountCovers
  <2> QED
    BY <1>1, <2>3, <2>4 DEF EntryOK, LimitIsCurrent, Day
<1> QED
  BY <1>2, <1>3 DEF PacingInv, EntryOK

\* A task below its limit is below its quota at the last tick.
LEMMA BelowLimitBelowQuota ==
  ASSUME TypeOK, PacingInv, NEW g \in DOMAIN taskMap, taskMap[g].count < taskMap[g].limit
  PROVE  dispatched[g] < Quota[g][lastSecondOfDay]
<1>1. /\ taskMap[g].count \in Nat /\ taskMap[g].start \in Int /\ taskMap[g].limit \in Int
      /\ dispatched[g] \in Nat /\ Quota[g][lastSecondOfDay] \in Nat
  BY EntryNumbers
<1>2. taskMap[g].limit > 0
  BY <1>1
<1>3. LimitIsCurrent(g) /\ CountCovers(g)
  BY <1>2 DEF PacingInv
<1> QED
  BY <1>1, <1>2, <1>3 DEF LimitIsCurrent, CountCovers

\* Counting the tasks of S, and handing them out or not, keeps the entries.
LEMMA CountPacing ==
  ASSUME TypeOK, PacingInv, NEW S, NEW D \in SUBSET S,
         taskMap' = [g \in DOMAIN taskMap |->
                       [taskMap[g] EXCEPT !.count = @ + IF g \in S THEN 1 ELSE 0]],
         dispatched' = [g \in Guid |-> dispatched[g] + IF g \in D THEN 1 ELSE 0],
         \A g \in D : g \in DOMAIN taskMap /\ taskMap[g].count < taskMap[g].limit,
         UNCHANGED <<clock, lastTick, lastSecondOfDay>>
  PROVE  PacingInv'
<1>1. WithinQuota'
  <2>1. ASSUME NEW g \in Guid PROVE dispatched'[g] <= Quota[g][lastSecondOfDay]
    <3>1. dispatched[g] \in Nat /\ Quota[g][lastSecondOfDay] \in Nat
      BY QuotaGrows DEF TypeOK
    <3>2. dispatched[g] <= Quota[g][lastSecondOfDay]
      BY DEF PacingInv, WithinQuota
    <3>3. g \in D => dispatched[g] < Quota[g][lastSecondOfDay]
      BY BelowLimitBelowQuota
    <3> QED
      BY <3>1, <3>2, <3>3
  <2> QED
    BY <2>1 DEF WithinQuota, Quota
<1>2. ASSUME NEW g \in DOMAIN taskMap' PROVE EntryOK(g)'
  <2>1. /\ g \in DOMAIN taskMap
        /\ taskMap'[g].count = taskMap[g].count + IF g \in S THEN 1 ELSE 0
        /\ taskMap'[g].start = taskMap[g].start
        /\ taskMap'[g].limit = taskMap[g].limit
        /\ taskMap'[g].par = taskMap[g].par
    <3>1. TableOK(taskMap)
      BY DEF TypeOK, TableOK
    <3>2. DOMAIN taskMap' = DOMAIN taskMap
      OBVIOUS
    <3> QED
      BY <3>1, <3>2, CountedTableType
  <2>2. /\ g \in Guid /\ taskMap[g].count \in Nat /\ taskMap[g].start \in Int
        /\ dispatched[g] \in Nat
    BY <2>1, EntryNumbers
  <2>3. EntryOK(g)
    BY <2>1 DEF PacingInv, EntryOK
  <2>4. CountCovers(g) => CountCovers(g)'
    BY <2>1, <2>2 DEF CountCovers
  <2> QED
    BY <2>1, <2>3, <2>4 DEF EntryOK, LimitIsCurrent, Day
<1> QED
  BY <1>1, <1>2 DEF PacingInv, EntryOK

\* An answer hands out tasks that are below their limits.
LEMMA AnswerPacing ==
  ASSUME TypeOK, PacingInv, NEW r, HandleRequest(r), AnswerRequest(r)
  PROVE  PacingInv'
<1>1. PICK lucky \in SUBSET DOMAIN taskMap, S \in SUBSET DOMAIN taskMap :
       /\ FirstFew(S, Candidates(r, lucky))
       /\ taskMap' = [g \in DOMAIN taskMap |->
                        [taskMap[g] EXCEPT !.count = @ + IF g \in S THEN 1 ELSE 0]]
       /\ dispatched' = [g \in Guid |-> dispatched[g] + IF g \in S THEN 1 ELSE 0]
  BY AnswerRequestStep
<1>2. \A g \in S : g \in DOMAIN taskMap /\ taskMap[g].count < taskMap[g].limit
  BY <1>1 DEF FirstFew, Candidates
<1>3. UNCHANGED <<clock, lastTick, lastSecondOfDay>>
  BY DEF HandleRequest
<1> QED
  BY <1>1, <1>2, <1>3, CountPacing

\* The command "request" counts tasks that it does not hand out.
LEMMA RequestCommandPacing ==
  ASSUME TypeOK, PacingInv, NEW q, UserRequest(q)
  PROVE  PacingInv'
<1>1. /\ taskMap' = [g \in DOMAIN taskMap |->
                       [taskMap[g] EXCEPT !.count = @ + IF g \in Asked(q) THEN 1 ELSE 0]]
      /\ UNCHANGED <<clock, lastTick, lastSecondOfDay, dispatched>>
  BY DEF UserRequest, historyVars
<1>2. dispatched' = [g \in Guid |-> dispatched[g] + IF g \in {} THEN 1 ELSE 0]
  BY <1>1 DEF TypeOK
<1>3. {} \in SUBSET Asked(q)
  OBVIOUS
<1>4. UNCHANGED <<clock, lastTick, lastSecondOfDay>>
  BY <1>1
<1>5. \A g \in {} : g \in DOMAIN taskMap /\ taskMap[g].count < taskMap[g].limit
  OBVIOUS
<1> QED
  BY <1>1, <1>2, <1>3, <1>4, <1>5, CountPacing

\* The clock: what is only promised for the day of the last tick stays promised.
LEMMA ClockPacing ==
  ASSUME TypeOK, LagBounded, PacingInv, ClockAdvance
  PROVE  PacingInv'
<1>1. /\ clock \in Nat /\ lastTick \in Nat /\ lastTick <= clock /\ clock' = clock + 1
      /\ UNCHANGED <<taskMap, lastTick, lastSecondOfDay, dispatched>>
  BY ClockNumbers DEF ClockAdvance, serverVars, historyVars, LagBounded
<1>2. Day(clock)' = Day(clock') /\ Day(lastTick)' = Day(lastTick)
  BY <1>1 DEF Day
<1>3. Day(clock') = Day(lastTick) => Day(clock) = Day(lastTick)
  <2>1. Day(lastTick) <= Day(clock)
    BY <1>1, DayMonotone
  <2>2. clock' \in Nat /\ clock <= clock'
    BY <1>1
  <2>3. Day(clock) <= Day(clock')
    BY <1>1, <2>2, DayMonotone
  <2>4. Day(lastTick) \in Nat /\ Day(clock) \in Nat /\ Day(clock') \in Nat
    BY <1>1, <2>2, DayAndSecond
  <2> QED
    BY <2>1, <2>3, <2>4
<1>4. WithinQuota'
  BY <1>1 DEF PacingInv, WithinQuota
<1>5. ASSUME NEW g \in DOMAIN taskMap' PROVE EntryOK(g)'
  <2>1. EntryOK(g)
    BY <1>1 DEF PacingInv, EntryOK
  <2> QED
    BY <1>1, <1>2, <1>3, <2>1 DEF EntryOK, LimitIsCurrent, CountCovers
<1> QED
  BY <1>4, <1>5 DEF PacingInv, EntryOK

\* The steps that leave the table, the hand-outs and the clock alone.
LEMMA QuietPacing ==
  ASSUME PacingInv, taskMap' = taskMap \/ taskMap' = NoTasks,
         UNCHANGED <<clock, lastTick, lastSecondOfDay, dispatched>>
  PROVE  PacingInv'
<1>1. WithinQuota'
  BY DEF PacingInv, WithinQuota
<1>2. CASE taskMap' = taskMap
  BY <1>1, <1>2 DEF PacingInv, LimitIsCurrent, CountCovers, Day
<1>3. CASE taskMap' = NoTasks
  <2>1. DOMAIN taskMap' = {}
    BY <1>3 DEF NoTasks
  <2> QED
    BY <1>1, <2>1 DEF PacingInv
<1> QED
  BY <1>2, <1>3

\* Every step keeps the pacing invariant.
LEMMA NextPacing == TypeOK /\ LagBounded /\ PacingInv /\ [Next]_vars => PacingInv'
<1> SUFFICES ASSUME TypeOK, LagBounded, PacingInv, [Next]_vars PROVE PacingInv'
  OBVIOUS
<1>1. CASE Start
  BY <1>1, StartPacing
<1>2. CASE OnAppTimer
  BY <1>2, TickPacing
<1>3. CASE \E r \in Requests : HandleRequest(r)
  <2>1. PICK r \in Requests : HandleRequest(r)
    BY <1>3
  <2>2. CASE AnswerRequest(r)
    BY <2>1, <2>2, AnswerPacing
  <2>3. CASE DropRequest(r)
    BY <2>1, <2>3, QuietPacing DEF DropRequest, HandleRequest
  <2> QED
    BY <2>1, <2>2, <2>3 DEF HandleRequest
<1>4. CASE UserUpdateTask
  BY <1>4, UpdatePacing
<1>5. CASE UserOnDayTimer
  BY <1>5, DayCommandPacing
<1>6. CASE \E q \in Queries : UserRequest(q)
  BY <1>6, RequestCommandPacing
<1>7. CASE ClockAdvance
  BY <1>7, ClockPacing
<1>8. CASE \/ UNCHANGED vars \/ Stop \/ RunnerStop \/ Crash
           \/ HandleOtherPacket \/ OnSocketReceiveFailed \/ UserBlacksRefresh
           \/ EditTaskFile \/ EditBlackFile
  <2>1. /\ taskMap' = taskMap \/ taskMap' = NoTasks
        /\ UNCHANGED <<clock, lastTick, lastSecondOfDay, dispatched>>
    BY <1>8 DEF vars, serverVars, fileVars, historyVars, Stop, RunnerStop, Crash, Gone,
                HandleOtherPacket, OnSocketReceiveFailed, UserBlacksRefresh,
                EditTaskFile, EditBlackFile
  <2> QED
    BY <2>1, QuietPacing
<1> QED
  BY <1>1, <1>2, <1>3, <1>4, <1>5, <1>6, <1>7, <1>8 DEF Next

\* The first state satisfies the pacing invariant.
LEMMA InitPacing == Init => PacingInv
<1> SUFFICES ASSUME Init PROVE PacingInv
  OBVIOUS
<1>1. DOMAIN taskMap = {}
  BY DEF Init, NoTasks
<1>2. WithinQuota
  <2>1. lastSecondOfDay \in 0 .. DayLength - 1 /\ \A g \in Guid : dispatched[g] = 0
    BY ClockAssumption, SizesAssumption DEF Init, NothingDispatched
  <2>2. \A g \in Guid : Quota[g][lastSecondOfDay] \in Nat
    BY <2>1, QuotaGrows
  <2> QED
    BY <2>1, <2>2 DEF WithinQuota
<1> QED
  BY <1>1, <1>2 DEF PacingInv

\* No task is handed out more often in a day than its curve allows at the last tick:
\* not across reloads, not after a task was dropped and added again, not after a
\* restart that has lost the counts, and not after the counts were cleared by hand.
THEOREM PacingAlwaysHolds == Spec => []PacingInv
<1>1. Init => PacingInv
  BY InitPacing
<1>2. TypeOK /\ LagBounded /\ PacingInv /\ [Next]_vars => PacingInv'
  BY NextPacing
<1> QED
  BY <1>1, <1>2, TypeCorrect, LagAlwaysBounded, PTL DEF Spec

-----------------------------------------------------------------------------
(***************************************************************************)
(* TipsServer implements DailyPacing                                       *)
(***************************************************************************)

\* The first state of the server is a first state of DailyPacing.
LEMMA InitRefines == Init => DP!Init
BY ClockAssumption, SizesAssumption DEF Init, NothingDispatched, DP!Init, DP!Second

\* A step that moves the remembered second to the clock is an Advance or a NewDay.
LEMMA ObserveRefines ==
  ASSUME TypeOK, LagBounded, ObserveClock, lastSecondOfDay' = Second(clock)
  PROVE  DP!Advance \/ DP!NewDay
<1>1. clock \in Nat /\ lastTick \in Nat /\ Second(clock) \in 0 .. DayLength - 1
  BY ClockNumbers, SecondType
<1>2. CASE Day(clock) > Day(lastTick)
  BY <1>1, <1>2 DEF ObserveClock, NothingDispatched, DP!NewDay, DP!Second
<1>3. CASE ~(Day(clock) > Day(lastTick))
  <2>1. Day(lastTick) <= Day(clock)
    BY <1>1, DayMonotone DEF LagBounded
  <2>2. Day(clock) = Day(lastTick)
    BY <1>1, <1>3, <2>1, DayAndSecond
  <2>3. lastSecondOfDay <= Second(clock)
    BY <1>1, <2>2, SameDayOrder DEF LagBounded
  <2>4. lastSecondOfDay' >= lastSecondOfDay
    BY <1>1, <2>3 DEF TypeOK
  <2> QED
    BY <1>1, <1>3, <2>4 DEF ObserveClock, DP!Advance, DP!Second
<1> QED
  BY <1>2, <1>3

\* An answer is a Dispatch.
LEMMA AnswerRefines ==
  ASSUME TypeOK, PacingInv, NEW r, HandleRequest(r), AnswerRequest(r)
  PROVE  DP!Dispatch
<1>1. PICK lucky \in SUBSET DOMAIN taskMap, S \in SUBSET DOMAIN taskMap :
       /\ FirstFew(S, Candidates(r, lucky))
       /\ dispatched' = [g \in Guid |-> dispatched[g] + IF g \in S THEN 1 ELSE 0]
  BY AnswerRequestStep
<1>2. S \in SUBSET Guid /\ Cardinality(S) <= TaskCountEachUser
  BY <1>1 DEF FirstFew, TypeOK
<1>3. \A g \in S : dispatched[g] < Quota[g][lastSecondOfDay]
  BY <1>1, BelowLimitBelowQuota DEF FirstFew, Candidates
<1>4. lastSecondOfDay' = lastSecondOfDay
  BY DEF HandleRequest
<1> QED
  <2>1. \E T \in SUBSET Guid :
          /\ Cardinality(T) <= TaskCountEachUser
          /\ \A g \in T : dispatched[g] < Quota[g][lastSecondOfDay]
          /\ dispatched' = [g \in Guid |-> dispatched[g] + IF g \in T THEN 1 ELSE 0]
          /\ UNCHANGED lastSecondOfDay
    BY <1>1, <1>2, <1>3, <1>4, Zenon
  <2> QED
    BY <2>1, Zenon DEF DP!Dispatch, DP!Cardinality, Cardinality

\* Every step of the server is a step of DailyPacing or changes none of its variables.
LEMMA NextRefines ==
  TypeOK /\ LagBounded /\ PacingInv /\ [Next]_vars => [DP!Next]_(DP!vars)
<1> SUFFICES ASSUME TypeOK, LagBounded, PacingInv, [Next]_vars
             PROVE  DP!Next \/ UNCHANGED <<lastSecondOfDay, dispatched>>
  BY DEF DP!vars
<1>1. CASE Start
  BY <1>1, ObserveRefines DEF Start, DP!Next
<1>2. CASE OnAppTimer
  <2>1. CASE TickReturns
    BY <1>2, <2>1 DEF OnAppTimer, TickReturns, historyVars
  <2>2. CASE ~(TickReturns)
    BY <1>2, <2>2, ObserveRefines DEF OnAppTimer, TickReturns, DP!Next
  <2> QED
    BY <2>1, <2>2
<1>3. CASE \E r \in Requests : HandleRequest(r)
  <2>1. PICK r \in Requests : HandleRequest(r)
    BY <1>3
  <2>2. CASE AnswerRequest(r)
    BY <2>1, <2>2, AnswerRefines DEF DP!Next
  <2>3. CASE DropRequest(r)
    BY <2>1, <2>3 DEF DropRequest, HandleRequest
  <2> QED
    BY <2>1, <2>2, <2>3 DEF HandleRequest
<1>4. CASE \/ UNCHANGED vars \/ Stop \/ RunnerStop \/ Crash
           \/ HandleOtherPacket \/ OnSocketReceiveFailed
           \/ UserUpdateTask \/ UserOnDayTimer \/ UserBlacksRefresh
           \/ \E q \in Queries : UserRequest(q)
           \/ ClockAdvance \/ EditTaskFile \/ EditBlackFile
  BY <1>4 DEF vars, serverVars, fileVars, historyVars, Stop, RunnerStop, Crash, Gone,
              HandleOtherPacket, OnSocketReceiveFailed, UserUpdateTask, UserOnDayTimer,
              UserBlacksRefresh, UserRequest, ClockAdvance, EditTaskFile, EditBlackFile
<1> QED
  BY <1>1, <1>2, <1>3, <1>4 DEF Next

\* The task server implements DailyPacing.
THEOREM ImplementsDailyPacing == Spec => DPSpec
<1>1. Init => DP!Init
  BY InitRefines
<1>2. TypeOK /\ LagBounded /\ PacingInv /\ [Next]_vars => [DP!Next]_(DP!vars)
  BY NextRefines
<1> QED
  BY <1>1, <1>2, TypeCorrect, LagAlwaysBounded, PacingAlwaysHolds, PTL
  DEF Spec, DPSpec, DP!Spec
=============================================================================
