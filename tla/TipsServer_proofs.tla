------------------------- MODULE TipsServer_proofs -------------------------
(***************************************************************************)
(* Proofs about TipsServer: the types of its variables, and the agreement  *)
(* of its packet counters, for every table, every file and every request.  *)
(***************************************************************************)
EXTENDS TipsServer, FiniteSetTheorems, WellFoundedInduction, TLAPS

-----------------------------------------------------------------------------
(***************************************************************************)
(* Least and greatest line numbers                                         *)
(***************************************************************************)

NatLess == {ss \in Nat \X Nat : ss[1] < ss[2]}

\* The order of the natural numbers is well founded.
LEMMA NatLessWellFounded == IsWellFoundedOn(NatLess, Nat)
  BY NatLessThanWellFounded DEF OpToRel, NatLess

\* A set of line numbers that is not empty has a least element.
LEMMA LeastExists ==
  ASSUME NEW T, T \subseteq Nat, T # {}
  PROVE  \E x \in T : \A y \in T : x <= y
<1>1. PICK x \in T : \A y \in T : ~(<<y, x>> \in NatLess)
  BY NatLessWellFounded, WFMin, Zenon
<1>2. ASSUME NEW y \in T PROVE x <= y
  <2>1. x \in Nat /\ y \in Nat
    OBVIOUS
  <2>2. y < x => <<y, x>> \in NatLess
    BY <2>1 DEF NatLess
  <2> QED
    BY <1>1, <2>1, <2>2
<1> QED
  BY <1>2

\* A set of numbers up to n that is not empty has a greatest element.
LEMMA GreatestExists ==
  ASSUME NEW n \in Nat, NEW T, T \subseteq 1 .. n, T # {}
  PROVE  \E x \in T : \A y \in T : y <= x
<1> DEFINE U == {n - i : i \in T}
<1>1. PICK t : t \in T
  OBVIOUS
<1>2. U \subseteq Nat
  OBVIOUS
<1>3. n - t \in U
  BY <1>1
<1>4. PICK u \in U : \A v \in U : u <= v
  <2> HIDE DEF U
  <2> QED
    BY <1>2, <1>3, LeastExists
<1>5. PICK x \in T : u = n - x
  BY <1>4
<1>6. ASSUME NEW y \in T PROVE y <= x
  <2>1. n - y \in U
    OBVIOUS
  <2>2. u <= n - y
    BY <1>4, <2>1
  <2> QED
    BY <1>5, <2>2
<1> QED
  BY <1>6

-----------------------------------------------------------------------------
(***************************************************************************)
(* Loading Task.txt                                                        *)
(***************************************************************************)

\* FirstOf and LastOf choose a line among the lines they are given.
LEMMA ChosenLines ==
  ASSUME NEW f \in Files, NEW I, I \subseteq DOMAIN f, I # {}
  PROVE  FirstOf(I) \in I /\ LastOf(I) \in I
<1>1. Len(f) \in Nat /\ DOMAIN f = 1 .. Len(f)
  BY FileAssumption
<1>2. \E i \in I : \A j \in I : i <= j
  BY <1>1, LeastExists
<1>3. \E i \in I : \A j \in I : j <= i
  BY <1>1, GreatestExists
<1> QED
  BY <1>2, <1>3 DEF FirstOf, LastOf

\* A good line carries the parameters of a task.
LEMMA GoodLineParams ==
  ASSUME NEW f \in Files, NEW g, NEW i \in GoodLines(f, g)
  PROVE  f[i].par \in Params /\ f[i].par \in ParamsType /\ f[i].par.curve \in Curve
<1>1. f \in Seq(Line) /\ i \in DOMAIN f /\ f[i].par # Unparsable
  BY FileAssumption DEF GoodLines
<1>2. f[i] \in Line
  BY <1>1
<1> QED
  BY <1>1, <1>2, FileAssumption DEF Line, ParamsType

\* The second of the day of a moment is one of the day's seconds.
LEMMA SecondType ==
  ASSUME NEW c \in Nat
  PROVE  Second(c) \in 0 .. DayLength - 1
BY ClockAssumption, SizesAssumption DEF Second

TableOK(T) == DOMAIN T \subseteq Guid /\ T \in [DOMAIN T -> TaskType]

\* The limit of a task at the current second.
LEMMA NowLimitType ==
  ASSUME NEW t \in TaskType, clock \in Nat
  PROVE  NowLimit(t) \in Nat
<1>1. t.par \in ParamsType /\ t.par.curve \in Curve
  BY FileAssumption DEF TaskType, ParamsType
<1> QED
  BY <1>1, SecondType, CurveAssumption DEF NowLimit

\* What LoadFromTaskFile makes of a task that gets its first good line.
LEMMA NewTaskType ==
  ASSUME NEW f \in Files, NEW g, GoodLines(f, g) # {}, clock \in Nat
  PROVE  NewTask(f, g) \in TaskType
<1> DEFINE p == f[FirstOf(GoodLines(f, g))].par
<1>1. p \in Params /\ p.curve \in Curve
  BY ChosenLines, GoodLineParams DEF GoodLines
<1>2. Limit[p.curve][Second(clock)] \in Nat
  BY <1>1, SecondType, CurveAssumption
<1> HIDE DEF p
<1>3. [par |-> p, allow |-> {}, forbid |-> {}, count |-> 0,
       start |-> Limit[p.curve][Second(clock)], limit |-> 0] \in TaskType
  BY <1>1, <1>2 DEF TaskType
<1> QED
  BY <1>3 DEF NewTask, p

\* What the lines of a task may change of it: everything but its progress.
LEMMA UpdatedTaskType ==
  ASSUME NEW f \in Files, NEW g, GoodLines(f, g) # {}, NEW t \in TaskType
  PROVE  /\ UpdatedTask(t, f, g) \in TaskType
         /\ UpdatedTask(t, f, g).par = f[LastOf(GoodLines(f, g))].par
         /\ UpdatedTask(t, f, g).count = t.count
         /\ UpdatedTask(t, f, g).start = t.start
         /\ UpdatedTask(t, f, g).limit = t.limit
<1> DEFINE I == AddressLines(f, g)
<1> DEFINE p == f[LastOf(GoodLines(f, g))].par
<1> DEFINE al == IF I = {} THEN t.allow ELSE f[LastOf(I)].par.allow
<1> DEFINE fo == IF I = {} THEN t.forbid ELSE f[LastOf(I)].par.forbid
<1>1. p \in Params
  BY ChosenLines, GoodLineParams DEF GoodLines
<1>2. al \in SUBSET NetType /\ fo \in SUBSET NetType
  <2>1. CASE I = {}
    BY <2>1 DEF TaskType
  <2>2. CASE I # {}
    <3>1. I \subseteq GoodLines(f, g) /\ I \subseteq DOMAIN f
      BY DEF AddressLines, GoodLines
    <3>2. LastOf(I) \in GoodLines(f, g)
      <4> HIDE DEF I
      <4> QED
        BY <2>2, <3>1, ChosenLines
    <3>3. f[LastOf(I)].par \in ParamsType
      BY <3>2, GoodLineParams
    <3> QED
      BY <2>2, <3>3 DEF ParamsType
  <2> QED
    BY <2>1, <2>2
<1>3. UpdatedTask(t, f, g) = [t EXCEPT !.par = p, !.allow = al, !.forbid = fo]
  BY DEF UpdatedTask
<1> HIDE DEF I, p, al, fo
<1>4. /\ [t EXCEPT !.par = p, !.allow = al, !.forbid = fo] \in TaskType
      /\ [t EXCEPT !.par = p, !.allow = al, !.forbid = fo].par = p
  BY <1>1, <1>2 DEF TaskType
<1>5. /\ [t EXCEPT !.par = p, !.allow = al, !.forbid = fo].count = t.count
      /\ [t EXCEPT !.par = p, !.allow = al, !.forbid = fo].start = t.start
      /\ [t EXCEPT !.par = p, !.allow = al, !.forbid = fo].limit = t.limit
  BY DEF TaskType
<1> QED
  BY <1>3, <1>4, <1>5 DEF p

\* The table after LoadFromTaskFile is a table again.
LEMMA LoadedTableType ==
  ASSUME NEW f \in Files, NEW T, TableOK(T), clock \in Nat
  PROVE  TableOK(LoadedTable(f, T)) /\ DOMAIN LoadedTable(f, T) = Listed(f)
<1>1. DOMAIN LoadedTable(f, T) = Listed(f) /\ Listed(f) \subseteq Guid
  BY DEF LoadedTable, Listed
<1>2. ASSUME NEW g \in Listed(f) PROVE LoadedTable(f, T)[g] \in TaskType
  <2>1. GoodLines(f, g) # {}
    BY DEF Listed
  <2> DEFINE t == IF g \in DOMAIN T THEN T[g] ELSE NewTask(f, g)
  <2>2. t \in TaskType
    BY <2>1, NewTaskType DEF TableOK
  <2>3. LoadedTable(f, T)[g] = UpdatedTask(t, f, g)
    BY DEF LoadedTable
  <2> HIDE DEF t
  <2> QED
    BY <2>1, <2>2, <2>3, UpdatedTaskType
<1>3. LoadedTable(f, T) \in [Listed(f) -> TaskType]
  <2>1. LoadedTable(f, T) = [g \in Listed(f) |-> LoadedTable(f, T)[g]]
    BY DEF LoadedTable
  <2> QED
    BY <1>2, <2>1
<1> QED
  BY <1>1, <1>3 DEF TableOK

\* A task keeps its type when one of its numbers is set.
LEMMA SetTask ==
  ASSUME NEW t \in TaskType
  PROVE  /\ \A n \in Nat : [t EXCEPT !.count = n] \in TaskType
         /\ \A n \in Int : [t EXCEPT !.start = n] \in TaskType
         /\ \A n \in Int : [t EXCEPT !.limit = n] \in TaskType
BY DEF TaskType

\* What OnDayTimer does to a task.
LEMMA DayResetType ==
  ASSUME NEW t \in TaskType, clock \in Nat
  PROVE  /\ DayReset(t) \in TaskType
         /\ DayReset(t).count = 0 /\ DayReset(t).limit = 0
         /\ DayReset(t).start = NowLimit(t)
         /\ DayReset(t).par = t.par
<1> DEFINE s == NowLimit(t)
<1>1. s \in Nat
  BY NowLimitType
<1> HIDE DEF s
<1>2. DayReset(t) = [[[t EXCEPT !.count = 0] EXCEPT !.limit = 0] EXCEPT !.start = s]
  BY DEF DayReset, s
<1>3. DayReset(t) \in TaskType
  <2>1. [t EXCEPT !.count = 0] \in TaskType
    BY SetTask
  <2>2. \A u \in TaskType : [u EXCEPT !.limit = 0] \in TaskType
    BY SetTask
  <2>3. \A u \in TaskType : [u EXCEPT !.start = s] \in TaskType
    BY <1>1, SetTask
  <2> QED
    BY <1>2, <2>1, <2>2, <2>3
<1>4. /\ DayReset(t).count = 0 /\ DayReset(t).limit = 0
      /\ DayReset(t).start = s /\ DayReset(t).par = t.par
  BY <1>2 DEF TaskType
<1> QED
  BY <1>3, <1>4 DEF s

\* The table after OnDayTimer is a table again.
LEMMA ResetTableType ==
  ASSUME NEW T, TableOK(T), clock \in Nat
  PROVE  /\ TableOK(ResetTable(T)) /\ DOMAIN ResetTable(T) = DOMAIN T
         /\ \A g \in DOMAIN T : ResetTable(T)[g] = DayReset(T[g])
<1>1. \A g \in DOMAIN T : DayReset(T[g]) \in TaskType
  BY DayResetType DEF TableOK
<1> QED
  BY <1>1 DEF TableOK, ResetTable

\* The table after a timer tick is a table again; only limits have changed.
LEMMA AdjustedTableType ==
  ASSUME NEW T, TableOK(T), clock \in Nat
  PROVE  /\ TableOK(AdjustedTable(T)) /\ DOMAIN AdjustedTable(T) = DOMAIN T
         /\ \A g \in DOMAIN T :
              /\ AdjustedTable(T)[g].limit = NowLimit(T[g]) - T[g].start
              /\ AdjustedTable(T)[g].start = T[g].start
              /\ AdjustedTable(T)[g].count = T[g].count
              /\ AdjustedTable(T)[g].par = T[g].par
<1> DEFINE n(g) == NowLimit(T[g]) - T[g].start
<1>1. \A g \in DOMAIN T : n(g) \in Int
  <2>1. ASSUME NEW g \in DOMAIN T PROVE n(g) \in Int
    <3>1. T[g] \in TaskType
      BY DEF TableOK
    <3>2. NowLimit(T[g]) \in Nat /\ T[g].start \in Int
      BY <3>1, NowLimitType DEF TaskType
    <3> QED
      BY <3>2
  <2> QED
    BY <2>1
<1>2. /\ AdjustedTable(T) = [g \in DOMAIN T |-> [T[g] EXCEPT !.limit = n(g)]]
      /\ DOMAIN AdjustedTable(T) = DOMAIN T
  BY DEF AdjustedTable
<1>3. \A g \in DOMAIN T : AdjustedTable(T)[g] = [T[g] EXCEPT !.limit = n(g)]
  BY DEF AdjustedTable
<1> HIDE DEF n
<1>4. \A g \in DOMAIN T : [T[g] EXCEPT !.limit = n(g)] \in TaskType
  BY <1>1, SetTask DEF TableOK
<1>5. TableOK(AdjustedTable(T))
  BY <1>2, <1>3, <1>4 DEF TableOK
<1>6. ASSUME NEW g \in DOMAIN T
      PROVE  /\ AdjustedTable(T)[g].limit = n(g)
             /\ AdjustedTable(T)[g].start = T[g].start
             /\ AdjustedTable(T)[g].count = T[g].count
             /\ AdjustedTable(T)[g].par = T[g].par
  <2>1. T[g] \in TaskType
    BY DEF TableOK
  <2> QED
    BY <1>3, <2>1 DEF TaskType
<1> QED
  BY <1>2, <1>5, <1>6 DEF n

-----------------------------------------------------------------------------
(***************************************************************************)
(* Every action keeps the types                                            *)
(***************************************************************************)

\* The history follows the clock.
LEMMA ObserveType ==
  ASSUME TypeOK, ObserveClock
  PROVE  dispatched' \in [Guid -> Nat] /\ lastTick' \in Stamp
BY DEF TypeOK, ObserveClock, NothingDispatched

\* Moments are natural numbers.
LEMMA StampNat == \A c \in Stamp : c \in Nat
BY SizesAssumption DEF Stamp

\* The empty table is a table.
LEMMA NoTasksType == TableOK(NoTasks)
BY DEF TableOK, NoTasks

\* The first state has the types.
LEMMA InitType == Init => TypeOK
<1> SUFFICES ASSUME Init PROVE TypeOK
  OBVIOUS
<1>1. TableOK(taskMap)
  BY NoTasksType DEF Init
<1>2. blackFile \subseteq Nat \X Nat
  BY FileAssumption DEF Init
<1>3. stat \in StatType
  BY DEF Init, NoStat, StatType
<1> QED
  BY <1>1, <1>2, <1>3, SizesAssumption, ClockAssumption
  DEF Init, TypeOK, TableOK, Stamp, NothingDispatched

\* Starting the process keeps the types.
LEMMA StartType == ASSUME TypeOK, Start PROVE TypeOK'
<1>1. clock \in Nat /\ Second(clock) \in 0 .. DayLength - 1
  BY StampNat, SecondType DEF TypeOK
<1>2. TableOK(taskMap') /\ lastModifyTime' \in Stamp
  <2>1. CASE file = NoFile
    BY <2>1, NoTasksType DEF Start, TypeOK
  <2>2. CASE file # NoFile
    <3> DEFINE T == LoadedTable(file, NoTasks)
    <3>1. TableOK(T)
      BY <2>2, <1>1, NoTasksType, LoadedTableType DEF TypeOK
    <3>2. \A g \in DOMAIN T : NowLimit(T[g]) \in Int
      BY <3>1, <1>1, NowLimitType DEF TableOK
    <3>3. taskMap' = [g \in DOMAIN T |-> [T[g] EXCEPT !.start = NowLimit(T[g])]]
      BY <2>2 DEF Start
    <3>4. lastModifyTime' \in Stamp
      BY <2>2 DEF Start, TypeOK
    <3> HIDE DEF T
    <3>5. \A g \in DOMAIN T : [T[g] EXCEPT !.start = NowLimit(T[g])] \in TaskType
      BY <3>1, <3>2, SetTask DEF TableOK
    <3> QED
      BY <3>1, <3>3, <3>4, <3>5 DEF TableOK
  <2> QED
    BY <2>1, <2>2
<1>3. blackIpSegs' \subseteq Nat \X Nat
  BY FileAssumption DEF Start, TypeOK
<1>4. stat' \in StatType
  BY DEF Start, NoStat, StatType
<1>5. dispatched' \in [Guid -> Nat] /\ lastTick' \in Stamp
  BY ObserveType DEF Start
<1> QED
  BY <1>1, <1>2, <1>3, <1>4, <1>5, SizesAssumption
  DEF Start, TypeOK, TableOK, fileVars, Stamp

\* Closing the timer and the socket keeps the types.
LEMMA StopType == ASSUME TypeOK, Stop PROVE TypeOK'
BY SizesAssumption DEF TypeOK, Stop, fileVars, historyVars, Stamp

\* The end of the process keeps the types.
LEMMA GoneType == ASSUME TypeOK, Gone PROVE TypeOK'
<1>1. TableOK(taskMap')
  BY NoTasksType DEF Gone
<1>2. stat' \in StatType
  BY DEF Gone, NoStat, StatType
<1> QED
  BY <1>1, <1>2, SizesAssumption DEF TypeOK, TableOK, Gone, fileVars, historyVars, Stamp

\* A timer tick keeps the types, with and without a reload, a new day or a file.
LEMMA OnAppTimerType == ASSUME TypeOK, OnAppTimer PROVE TypeOK'
<1>1. clock \in Nat /\ Second(clock) \in 0 .. DayLength - 1
  BY StampNat, SecondType DEF TypeOK
<1>2. due' \in 0 .. MaxLag /\ times' \in 0 .. TaskFilePeriod - 1
  BY SizesAssumption DEF TypeOK, OnAppTimer, TickReturns
<1>3. TableOK(taskMap)
  BY DEF TypeOK, TableOK
<1>4. /\ TableOK(taskMap') /\ lastModifyTime' \in Stamp /\ stat' \in StatType
      /\ lastSecondOfDay' \in 0 .. DayLength - 1
      /\ dispatched' \in [Guid -> Nat] /\ lastTick' \in Stamp
  <2>1. CASE TickReturns
    BY <2>1, <1>3 DEF OnAppTimer, TickReturns, TypeOK, historyVars, TableOK
  <2>2. CASE ~(TickReturns)
    <3> DEFINE reload == times' = 0 /\ FileChanged
               newDay == Second(clock) < lastSecondOfDay
               loaded == IF reload THEN LoadedTable(file, taskMap) ELSE taskMap
               rolled == IF newDay THEN ResetTable(loaded) ELSE loaded
    <3>1. /\ taskMap' = AdjustedTable(rolled)
          /\ lastModifyTime' = IF reload THEN fileTime ELSE lastModifyTime
          /\ stat' = IF newDay THEN NoStat ELSE stat
          /\ lastSecondOfDay' = Second(clock)
          /\ ObserveClock
      BY <2>2 DEF OnAppTimer, TickReturns
    <3>2. TableOK(loaded)
      BY <2>2, <1>1, <1>3, LoadedTableType DEF TickReturns, TypeOK
    <3>3. TableOK(rolled)
      <4> HIDE DEF loaded
      <4> QED
        BY <1>1, <3>2, ResetTableType
    <3>4. TableOK(taskMap')
      <4> HIDE DEF rolled
      <4> QED
        BY <1>1, <3>1, <3>3, AdjustedTableType
    <3>5. stat' \in StatType
      BY <3>1 DEF NoStat, StatType, TypeOK
    <3> QED
      BY <1>1, <3>1, <3>4, <3>5, ObserveType DEF TypeOK
  <2> QED
    BY <2>1, <2>2
<1> QED
  BY <1>2, <1>4, SizesAssumption DEF TypeOK, TableOK, OnAppTimer, TickReturns, fileVars, Stamp

\* The counters keep their type when some of them are set.
LEMMA SetStat ==
  ASSUME NEW s \in StatType
  PROVE  /\ \A n \in Nat : [s EXCEPT !.receive = n] \in StatType
         /\ \A n \in Nat : [s EXCEPT !.other = n] \in StatType
         /\ \A n \in Nat : [s EXCEPT !.error = n] \in StatType
         /\ \A n \in Nat : [s EXCEPT !.failed = n] \in StatType
         /\ \A n \in Nat : [s EXCEPT !.handel = n] \in StatType
         /\ \A n \in Nat : [s EXCEPT !.send = n] \in StatType
         /\ \A n \in Nat : [s EXCEPT !.empty = n] \in StatType
         /\ s.receive \in Nat /\ s.other \in Nat /\ s.error \in Nat /\ s.failed \in Nat
         /\ s.handel \in Nat /\ s.send \in Nat /\ s.empty \in Nat
BY DEF StatType

\* What an answered request does to the counters: n tasks were sent, or the empty
\* task when there is none.
Answered(s, n) ==
  [s EXCEPT !.receive = @ + 1, !.handel = @ + 1,
            !.send = @ + IF n = 0 THEN 1 ELSE n,
            !.empty = @ + IF n = 0 THEN 1 ELSE 0]

\* The counters after an answered request.
LEMMA AnsweredStat ==
  ASSUME NEW s \in StatType, NEW n \in Nat
  PROVE  /\ Answered(s, n) \in StatType
         /\ Answered(s, n).receive = s.receive + 1
         /\ Answered(s, n).handel = s.handel + 1
         /\ Answered(s, n).send = s.send + IF n = 0 THEN 1 ELSE n
         /\ Answered(s, n).empty = s.empty + IF n = 0 THEN 1 ELSE 0
<1> DEFINE a == s.receive + 1
           b == s.handel + 1
           c == s.send + IF n = 0 THEN 1 ELSE n
           d == s.empty + IF n = 0 THEN 1 ELSE 0
<1>1. a \in Nat /\ b \in Nat /\ c \in Nat /\ d \in Nat
  BY SetStat
<1>2. Answered(s, n) = [[[[s EXCEPT !.receive = a] EXCEPT !.handel = b] EXCEPT !.send = c]
                           EXCEPT !.empty = d]
  BY DEF Answered, StatType
<1> HIDE DEF a, b, c, d
<1> DEFINE s1 == [s EXCEPT !.receive = a]
           s2 == [s1 EXCEPT !.handel = b]
           s3 == [s2 EXCEPT !.send = c]
           s4 == [s3 EXCEPT !.empty = d]
<1>3. s1 \in StatType /\ s1.receive = a
  BY <1>1 DEF StatType
<1>4. s2 \in StatType /\ s2.receive = a /\ s2.handel = b
  <2> HIDE DEF s1
  <2> QED
    BY <1>1, <1>3 DEF StatType
<1>5. s3 \in StatType /\ s3.receive = a /\ s3.handel = b /\ s3.send = c
  <2> HIDE DEF s2
  <2> QED
    BY <1>1, <1>4 DEF StatType
<1>6. s4 \in StatType /\ s4.receive = a /\ s4.handel = b /\ s4.send = c /\ s4.empty = d
  <2> HIDE DEF s3
  <2> QED
    BY <1>1, <1>5 DEF StatType
<1>7. Answered(s, n) = s4
  BY <1>2
<1> HIDE DEF s4
<1> QED
  BY <1>6, <1>7 DEF a, b, c, d

\* The set of tasks an answer consists of.
LEMMA FirstFewSize ==
  ASSUME TypeOK, NEW S \in SUBSET DOMAIN taskMap
  PROVE  /\ Cardinality(S) \in Nat /\ IsFiniteSet(S)
         /\ Cardinality(S) = 0 <=> S = {}
<1>1. IsFiniteSet(S)
  BY FS_Subset, SizesAssumption DEF TypeOK
<1> QED
  BY <1>1, FS_CardinalityType, FS_EmptySet

\* What an answered request does, in one fact that the other proofs use.
LEMMA AnswerRequestStep ==
  ASSUME TypeOK, NEW r, AnswerRequest(r)
  PROVE  \E lucky \in SUBSET DOMAIN taskMap : \E S \in SUBSET DOMAIN taskMap :
           /\ FirstFew(S, Candidates(r, lucky))
           /\ Cardinality(S) \in 0 .. TaskCountEachUser
           /\ taskMap' = [g \in DOMAIN taskMap |->
                            [taskMap[g] EXCEPT !.count = @ + IF g \in S THEN 1 ELSE 0]]
           /\ dispatched' = [g \in Guid |-> dispatched[g] + IF g \in S THEN 1 ELSE 0]
           /\ stat' = Answered(stat, Cardinality(S))
<1>1. PICK lucky \in SUBSET DOMAIN taskMap, S \in SUBSET DOMAIN taskMap :
       /\ FirstFew(S, Candidates(r, lucky))
       /\ taskMap' = [g \in DOMAIN taskMap |->
                        [taskMap[g] EXCEPT !.count = @ + IF g \in S THEN 1 ELSE 0]]
       /\ dispatched' = [g \in Guid |-> dispatched[g] + IF g \in S THEN 1 ELSE 0]
       /\ stat' = [stat EXCEPT !.receive = @ + 1, !.handel = @ + 1,
                               !.send = @ + IF S = {} THEN 1 ELSE Cardinality(S),
                               !.empty = @ + IF S = {} THEN 1 ELSE 0]
  BY DEF AnswerRequest
<1>2. Cardinality(S) \in Nat /\ (Cardinality(S) = 0 <=> S = {})
  BY FirstFewSize
<1>3. Cardinality(S) \in 0 .. TaskCountEachUser
  BY <1>1, <1>2, SizesAssumption DEF FirstFew
<1>4. stat' = Answered(stat, Cardinality(S))
  BY <1>1, <1>2 DEF Answered
<1> QED
  BY <1>1, <1>3, <1>4

\* Counting some of the tasks keeps the table.
LEMMA CountedTableType ==
  ASSUME TableOK(taskMap), NEW S,
         taskMap' = [g \in DOMAIN taskMap |->
                       [taskMap[g] EXCEPT !.count = @ + IF g \in S THEN 1 ELSE 0]]
  PROVE  /\ TableOK(taskMap') /\ DOMAIN taskMap' = DOMAIN taskMap
         /\ \A g \in DOMAIN taskMap :
              /\ taskMap'[g].count = taskMap[g].count + IF g \in S THEN 1 ELSE 0
              /\ taskMap'[g].start = taskMap[g].start
              /\ taskMap'[g].limit = taskMap[g].limit
              /\ taskMap'[g].par = taskMap[g].par
<1> DEFINE n(g) == taskMap[g].count + IF g \in S THEN 1 ELSE 0
<1>1. \A g \in DOMAIN taskMap : taskMap[g] \in TaskType /\ n(g) \in Nat
  BY DEF TableOK, TaskType
<1>2. \A g \in DOMAIN taskMap : taskMap'[g] = [taskMap[g] EXCEPT !.count = n(g)]
  OBVIOUS
<1>3. DOMAIN taskMap' = DOMAIN taskMap /\ taskMap' = [g \in DOMAIN taskMap |-> taskMap'[g]]
  OBVIOUS
<1> HIDE DEF n
<1>4. \A g \in DOMAIN taskMap : taskMap'[g] \in TaskType
  BY <1>1, <1>2, SetTask
<1>5. TableOK(taskMap')
  BY <1>3, <1>4 DEF TableOK
<1>6. ASSUME NEW g \in DOMAIN taskMap
      PROVE  /\ taskMap'[g].count = n(g)
             /\ taskMap'[g].start = taskMap[g].start
             /\ taskMap'[g].limit = taskMap[g].limit
             /\ taskMap'[g].par = taskMap[g].par
  BY <1>1, <1>2 DEF TaskType
<1> QED
  BY <1>3, <1>5, <1>6 DEF n

\* A request keeps the types.
LEMMA HandleRequestType ==
  ASSUME TypeOK, NEW r, HandleRequest(r)
  PROVE  TypeOK'
<1>1. packets' \in 0 .. MaxPackets /\ posted' \in Nat
  BY SizesAssumption DEF TypeOK, HandleRequest, CountPacket, Rearm
<1>2. TableOK(taskMap') /\ stat' \in StatType /\ dispatched' \in [Guid -> Nat]
  <2>1. CASE DropRequest(r)
    BY <2>1, SetStat DEF TypeOK, TableOK, DropRequest
  <2>2. CASE AnswerRequest(r)
    <3>1. PICK S \in SUBSET DOMAIN taskMap :
            /\ Cardinality(S) \in 0 .. TaskCountEachUser
            /\ taskMap' = [g \in DOMAIN taskMap |->
                             [taskMap[g] EXCEPT !.count = @ + IF g \in S THEN 1 ELSE 0]]
            /\ dispatched' = [g \in Guid |-> dispatched[g] + IF g \in S THEN 1 ELSE 0]
            /\ stat' = Answered(stat, Cardinality(S))
      BY <2>2, AnswerRequestStep
    <3>2. TableOK(taskMap')
      BY <3>1, CountedTableType DEF TypeOK, TableOK
    <3>3. stat' \in StatType
      BY <3>1, AnsweredStat, SizesAssumption DEF TypeOK
    <3>4. dispatched' \in [Guid -> Nat]
      BY <3>1 DEF TypeOK
    <3> QED
      BY <3>2, <3>3, <3>4
  <2> QED
    BY <2>1, <2>2 DEF HandleRequest
<1> QED
  BY <1>1, <1>2, SizesAssumption DEF TypeOK, TableOK, HandleRequest, fileVars, Stamp

\* A packet that is no request, and a failed receive, keep the types.
LEMMA OtherPacketType ==
  ASSUME TypeOK, HandleOtherPacket \/ OnSocketReceiveFailed
  PROVE  TypeOK'
<1>1. packets' \in 0 .. MaxPackets /\ posted' \in Nat
  BY SizesAssumption
  DEF TypeOK, HandleOtherPacket, OnSocketReceiveFailed, CountPacket, Rearm
<1>2. stat' \in StatType
  <2>1. stat \in StatType
    BY DEF TypeOK
  <2>2. CASE HandleOtherPacket
    BY <2>1, <2>2, SetStat DEF HandleOtherPacket
  <2>3. CASE OnSocketReceiveFailed
    BY <2>1, <2>3, SetStat DEF OnSocketReceiveFailed
  <2> QED
    BY <2>2, <2>3
<1> QED
  BY <1>1, <1>2, SizesAssumption
  DEF TypeOK, HandleOtherPacket, OnSocketReceiveFailed, fileVars, historyVars, Stamp

\* The command "update" keeps the types.
LEMMA UserUpdateTaskType == ASSUME TypeOK, UserUpdateTask PROVE TypeOK'
<1>1. clock \in Nat /\ TableOK(taskMap) /\ file \in Files
  BY StampNat DEF TypeOK, TableOK, UserUpdateTask
<1>2. TableOK(taskMap')
  BY <1>1, LoadedTableType DEF UserUpdateTask
<1> QED
  BY <1>2, SizesAssumption
  DEF TypeOK, TableOK, UserUpdateTask, fileVars, historyVars, Stamp

\* The command "day" keeps the types.
LEMMA UserOnDayTimerType == ASSUME TypeOK, UserOnDayTimer PROVE TypeOK'
<1>1. clock \in Nat /\ TableOK(taskMap)
  BY StampNat DEF TypeOK, TableOK
<1>2. TableOK(taskMap')
  BY <1>1, ResetTableType DEF UserOnDayTimer
<1>3. stat' \in StatType
  BY DEF UserOnDayTimer, NoStat, StatType
<1> QED
  BY <1>2, <1>3, SizesAssumption
  DEF TypeOK, TableOK, UserOnDayTimer, fileVars, historyVars, Stamp

\* The command "request" keeps the types.
LEMMA UserRequestType == ASSUME TypeOK, NEW q, UserRequest(q) PROVE TypeOK'
<1>1. TableOK(taskMap')
  BY CountedTableType DEF TypeOK, TableOK, UserRequest
<1>2. packets' \in 0 .. MaxPackets
  BY SizesAssumption DEF TypeOK, UserRequest, CountPacket
<1> QED
  BY <1>1, <1>2, SizesAssumption
  DEF TypeOK, TableOK, UserRequest, fileVars, historyVars, Stamp

\* The command "blacks" keeps the types.
LEMMA UserBlacksRefreshType == ASSUME TypeOK, UserBlacksRefresh PROVE TypeOK'
<1>1. blackIpSegs' \subseteq Nat \X Nat
  BY FileAssumption DEF TypeOK, UserBlacksRefresh
<1> QED
  BY <1>1, SizesAssumption DEF TypeOK, UserBlacksRefresh, fileVars, historyVars, Stamp

\* The passing of time and the edits of the files keep the types.
LEMMA EnvironmentType ==
  ASSUME TypeOK, ClockAdvance \/ EditTaskFile \/ EditBlackFile
  PROVE  TypeOK'
<1>1. CASE ClockAdvance
  BY <1>1, SizesAssumption DEF TypeOK, ClockAdvance, serverVars, fileVars, historyVars, Stamp
<1>2. CASE EditTaskFile
  BY <1>2, SizesAssumption DEF TypeOK, EditTaskFile, CountEdit, serverVars, historyVars, Stamp
<1>3. CASE EditBlackFile
  BY <1>3, SizesAssumption DEF TypeOK, EditBlackFile, CountEdit, serverVars, historyVars, Stamp
<1> QED
  BY <1>1, <1>2, <1>3

\* Every step keeps the types.
LEMMA NextType == TypeOK /\ [Next]_vars => TypeOK'
<1> SUFFICES ASSUME TypeOK, [Next]_vars PROVE TypeOK'
  OBVIOUS
<1>1. CASE UNCHANGED vars
  BY <1>1 DEF TypeOK, vars, serverVars, fileVars, historyVars, Stamp
<1>2. CASE Start \/ Stop
  BY <1>2, StartType, StopType
<1>3. CASE RunnerStop \/ Crash
  BY <1>3, GoneType DEF RunnerStop, Crash
<1>4. CASE OnAppTimer
  BY <1>4, OnAppTimerType
<1>5. CASE \E r \in Requests : HandleRequest(r)
  BY <1>5, HandleRequestType
<1>6. CASE HandleOtherPacket \/ OnSocketReceiveFailed
  BY <1>6, OtherPacketType
<1>7. CASE UserUpdateTask \/ UserOnDayTimer \/ UserBlacksRefresh
  BY <1>7, UserUpdateTaskType, UserOnDayTimerType, UserBlacksRefreshType
<1>8. CASE \E q \in Queries : UserRequest(q)
  BY <1>8, UserRequestType
<1>9. CASE ClockAdvance \/ EditTaskFile \/ EditBlackFile
  BY <1>9, EnvironmentType
<1> QED
  BY <1>1, <1>2, <1>3, <1>4, <1>5, <1>6, <1>7, <1>8, <1>9 DEF Next

\* The variables of the server keep their types in every behaviour: loading any
\* Task.txt, a new day, an answer or a restart never leave a malformed table.
THEOREM TypeCorrect == Spec => []TypeOK
<1>1. Init => TypeOK
  BY InitType
<1>2. TypeOK /\ [Next]_vars => TypeOK'
  BY NextType
<1> QED
  BY <1>1, <1>2, PTL DEF Spec

-----------------------------------------------------------------------------
(***************************************************************************)
(* The counters                                                            *)
(***************************************************************************)

\* The counters agree when they have all been cleared.
LEMMA NoStatAgrees ==
  ASSUME stat' = NoStat
  PROVE  CountersAgree'
BY SizesAssumption DEF NoStat, CountersAgree

\* The relations of the counters survive an answer with n tasks.
LEMMA AnswerAgrees ==
  ASSUME TypeOK, CountersAgree, NEW n \in 0 .. TaskCountEachUser,
         stat' = Answered(stat, n)
  PROVE  CountersAgree'
<1> DEFINE K == TaskCountEachUser
<1>1. K \in Nat /\ n \in Nat /\ n <= K
  BY SizesAssumption
<1>2. stat \in StatType
  BY DEF TypeOK
<1>3. /\ stat.receive \in Nat /\ stat.handel \in Nat /\ stat.send \in Nat /\ stat.empty \in Nat
  BY <1>2, SetStat
<1>4. /\ stat'.receive = stat.receive + 1
      /\ stat'.handel = stat.handel + 1
      /\ stat'.send = stat.send + IF n = 0 THEN 1 ELSE n
      /\ stat'.empty = stat.empty + IF n = 0 THEN 1 ELSE 0
  BY <1>1, <1>2, AnsweredStat
<1> DEFINE d == stat.handel - stat.empty
<1>5. d \in Nat /\ stat.send - stat.empty <= K * d
  BY <1>3 DEF CountersAgree
<1>6. K * (d + 1) = K * d + K
  BY <1>1, <1>5
<1>7. /\ stat'.handel <= stat'.receive
      /\ stat'.empty <= stat'.handel
      /\ stat'.handel <= stat'.send
  BY <1>1, <1>3, <1>4 DEF CountersAgree
<1>8. stat'.send - stat'.empty <= K * (stat'.handel - stat'.empty)
  <2>1. CASE n = 0
    <3>1. stat'.handel - stat'.empty = d /\ stat'.send - stat'.empty = stat.send - stat.empty
      BY <2>1, <1>3, <1>4
    <3> QED
      BY <3>1, <1>5
  <2>2. CASE n # 0
    <3>1. /\ stat'.handel - stat'.empty = d + 1
          /\ stat'.send - stat'.empty = (stat.send - stat.empty) + n
      BY <2>2, <1>1, <1>3, <1>4
    <3>2. K * d \in Int /\ stat.send - stat.empty \in Int
      BY <1>1, <1>3, <1>5
    <3>3. (stat.send - stat.empty) + n <= K * d + K
      <4> HIDE DEF d, K
      <4> QED
        BY <3>2, <1>1, <1>5
    <3> HIDE DEF d, K
    <3> QED
      BY <3>1, <3>3, <1>6
  <2> QED
    BY <2>1, <2>2
<1> QED
  BY <1>7, <1>8 DEF CountersAgree

\* The counters also agree after a packet that is not answered.
LEMMA OtherAgrees ==
  ASSUME TypeOK, CountersAgree,
         \/ stat' = [stat EXCEPT !.receive = @ + 1]
         \/ stat' = [stat EXCEPT !.other = @ + 1]
         \/ stat' = [stat EXCEPT !.error = @ + 1]
         \/ stat' = [stat EXCEPT !.failed = @ + 1]
         \/ stat' = stat
  PROVE  CountersAgree'
<1>1. /\ stat'.receive \in {stat.receive, stat.receive + 1}
      /\ stat'.handel = stat.handel /\ stat'.send = stat.send /\ stat'.empty = stat.empty
  BY DEF TypeOK, StatType
<1>2. stat.receive \in Nat /\ stat.handel \in Nat
  BY DEF TypeOK, StatType
<1>3. stat'.handel <= stat'.receive
  BY <1>1, <1>2 DEF CountersAgree
<1> QED
  BY <1>1, <1>3 DEF CountersAgree

\* Every step keeps the counters in agreement.
LEMMA NextAgrees == TypeOK /\ CountersAgree /\ [Next]_vars => CountersAgree'
<1> SUFFICES ASSUME TypeOK, CountersAgree, [Next]_vars PROVE CountersAgree'
  OBVIOUS
<1>1. CASE stat' = stat
  BY <1>1, OtherAgrees
<1>2. CASE Start \/ RunnerStop \/ Crash \/ UserOnDayTimer
  BY <1>2, NoStatAgrees DEF Start, RunnerStop, Crash, Gone, UserOnDayTimer
<1>3. CASE OnAppTimer
  <2>1. stat' = stat \/ stat' = NoStat
    BY <1>3 DEF OnAppTimer, TickReturns
  <2> QED
    BY <2>1, NoStatAgrees, <1>1
<1>4. CASE \E r \in Requests : HandleRequest(r)
  <2>1. PICK r \in Requests : HandleRequest(r)
    BY <1>4
  <2>2. CASE DropRequest(r)
    BY <2>2, OtherAgrees DEF DropRequest
  <2>3. CASE AnswerRequest(r)
    BY <2>3, AnswerRequestStep, AnswerAgrees
  <2> QED
    BY <2>1, <2>2, <2>3 DEF HandleRequest
<1>5. CASE HandleOtherPacket \/ OnSocketReceiveFailed
  BY <1>5, OtherAgrees DEF HandleOtherPacket, OnSocketReceiveFailed
<1>6. CASE \/ UNCHANGED vars \/ Stop \/ UserUpdateTask \/ UserBlacksRefresh
           \/ \E q \in Queries : UserRequest(q)
           \/ ClockAdvance \/ EditTaskFile \/ EditBlackFile
  <2>1. stat' = stat
    BY <1>6 DEF vars, serverVars, Stop, UserUpdateTask, UserBlacksRefresh, UserRequest,
                ClockAdvance, EditTaskFile, EditBlackFile
  <2> QED
    BY <2>1, <1>1
<1> QED
  BY <1>2, <1>3, <1>4, <1>5, <1>6 DEF Next

\* The counters the operator reads agree at all times, whatever the mix of packets,
\* day changes, console commands and restarts.
THEOREM CountersAlwaysAgree == Spec => []CountersAgree
<1>1. Init => CountersAgree
  BY SizesAssumption DEF Init, NoStat, CountersAgree
<1>2. TypeOK /\ CountersAgree /\ [Next]_vars => CountersAgree'
  BY NextAgrees
<1> QED
  BY <1>1, <1>2, TypeCorrect, PTL DEF Spec

-----------------------------------------------------------------------------
(***************************************************************************)
(* Days and seconds                                                        *)
(***************************************************************************)

\* A moment is a day and a second of that day.
LEMMA DayAndSecond ==
  ASSUME NEW c \in Nat
  PROVE  /\ Second(c) \in 0 .. DayLength - 1 /\ Day(c) \in Nat
         /\ c = DayLength * Day(c) + Second(c)
BY ClockAssumption, SizesAssumption DEF Second, Day

\* Within a day a later moment has a later second.
LEMMA SameDayOrder ==
  ASSUME NEW a \in Nat, NEW b \in Nat, a <= b, Day(a) = Day(b)
  PROVE  Second(a) <= Second(b)
BY ClockAssumption, DayAndSecond

\* A later moment has no earlier day.
LEMMA DayMonotone ==
  ASSUME NEW a \in Nat, NEW b \in Nat, a <= b
  PROVE  Day(a) <= Day(b)
<1> DEFINE D == DayLength
           p == Day(a)
           q == Day(b)
<1>1. /\ D \in Nat /\ p \in Nat /\ q \in Nat
      /\ Second(a) \in 0 .. D - 1 /\ Second(b) \in 0 .. D - 1
      /\ a = D * p + Second(a) /\ b = D * q + Second(b)
  BY ClockAssumption, DayAndSecond
<1> HIDE DEF D, p, q
<1>2. ASSUME p >= q + 1 PROVE FALSE
  <2>1. D * p >= D * (q + 1)
    BY <1>1, <1>2
  <2>2. D * (q + 1) = D * q + D
    BY <1>1
  <2> QED
    BY <1>1, <2>1, <2>2
<1> QED
  BY <1>1, <1>2 DEF p, q

\* The test secondOfDay < m_lastSecondOfDay, for moments less than a day apart.
LEMMA MidnightSeen ==
  ASSUME NEW a \in Nat, NEW b \in Nat, a <= b, b - a < DayLength
  PROVE  Second(b) < Second(a) <=> Day(a) < Day(b)
<1> DEFINE D == DayLength
           p == Day(a)
           q == Day(b)
<1>1. /\ D \in Nat /\ p \in Nat /\ q \in Nat /\ p <= q
      /\ Second(a) \in 0 .. D - 1 /\ Second(b) \in 0 .. D - 1
      /\ a = D * p + Second(a) /\ b = D * q + Second(b)
  BY ClockAssumption, DayAndSecond, DayMonotone
<1>2. b - a < D
  OBVIOUS
<1> HIDE DEF D, p, q
<1>3. ASSUME p = q PROVE Second(b) < Second(a) <=> p < q
  BY <1>1, <1>3
<1>4. ASSUME q >= p + 1 PROVE Second(b) < Second(a) <=> p < q
  <2>1. D * q >= D * (p + 1)
    BY <1>1, <1>4
  <2>2. D * (p + 1) = D * p + D
    BY <1>1
  <2> QED
    BY <1>1, <1>2, <1>4, <2>1, <2>2
<1>5. Second(b) < Second(a) <=> p < q
  <2>1. p = q \/ q >= p + 1
    BY <1>1
  <2> QED
    BY <1>3, <1>4, <2>1
<1> QED
  BY <1>5 DEF p, q

-----------------------------------------------------------------------------
(***************************************************************************)
(* The lag of the timer handler                                            *)
(***************************************************************************)

\* The numbers the proofs about the lag need.
LEMMA ClockNumbers ==
  ASSUME TypeOK
  PROVE  /\ clock \in Nat /\ lastTick \in Nat /\ due \in Nat /\ due <= MaxLag
         /\ times \in Nat /\ MaxLag \in Nat /\ DayLength \in Nat
BY StampNat, SizesAssumption, ClockAssumption DEF TypeOK

\* A tick finds the clock less than a day after the last full tick.
LEMMA TickWithinDay ==
  ASSUME TypeOK, LagBounded, phase = "up"
  PROVE  clock - lastTick < DayLength
BY ClockNumbers, ClockAssumption DEF LagBounded

\* The tick test agrees with the days that have passed.
LEMMA TickSeesMidnight ==
  ASSUME TypeOK, LagBounded, phase = "up"
  PROVE  /\ Second(clock) < lastSecondOfDay <=> Day(lastTick) < Day(clock)
         /\ Day(lastTick) <= Day(clock) /\ Day(lastTick) \in Nat /\ Day(clock) \in Nat
BY ClockNumbers, TickWithinDay, MidnightSeen, DayMonotone, DayAndSecond DEF LagBounded

\* Every step keeps the lag bounded.
LEMMA NextLag == TypeOK /\ LagBounded /\ [Next]_vars => LagBounded'
<1> SUFFICES ASSUME TypeOK, LagBounded, [Next]_vars PROVE LagBounded'
  OBVIOUS
<1>1. CASE Start
  BY <1>1, ClockNumbers DEF Start, ObserveClock, LagBounded, Second
<1>2. CASE OnAppTimer
  <2>1. phase = "up" /\ phase' = "up" /\ due' = due - 1 /\ clock' = clock /\ due > 0
    BY <1>2 DEF OnAppTimer, TickReturns
  <2>2. CASE TickReturns
    <3>1. lastTick' = lastTick /\ lastSecondOfDay' = lastSecondOfDay
      BY <1>2, <2>2 DEF OnAppTimer, TickReturns, historyVars
    <3>2. times # 0
      BY <1>2, <2>2, ClockNumbers, SizesAssumption DEF OnAppTimer, TickReturns
    <3> QED
      BY <2>1, <2>2, <3>1, <3>2, ClockNumbers DEF TickReturns, LagBounded, Second
  <2>3. CASE ~(TickReturns)
    <3>1. lastTick' = clock /\ lastSecondOfDay' = Second(clock)
      BY <1>2, <2>3 DEF OnAppTimer, TickReturns, ObserveClock
    <3> QED
      BY <2>1, <3>1, ClockNumbers DEF LagBounded, Second
  <2> QED
    BY <2>2, <2>3
<1>3. CASE ClockAdvance
  <2>1. /\ clock' = clock + 1 /\ due' = IF phase = "up" THEN due + 1 ELSE due
        /\ lastTick' = lastTick /\ lastSecondOfDay' = lastSecondOfDay
        /\ times' = times /\ phase' = phase
    BY <1>3 DEF ClockAdvance, serverVars, historyVars
  <2> QED
    BY <2>1, ClockNumbers DEF LagBounded, Second
<1>4. CASE Stop \/ RunnerStop \/ Crash
  BY <1>4 DEF Stop, RunnerStop, Crash, Gone, historyVars, LagBounded, Second
<1>5. CASE \/ UNCHANGED vars
           \/ \E r \in Requests : HandleRequest(r)
           \/ HandleOtherPacket \/ OnSocketReceiveFailed
           \/ UserUpdateTask \/ UserOnDayTimer \/ UserBlacksRefresh
           \/ \E q \in Queries : UserRequest(q)
           \/ EditTaskFile \/ EditBlackFile
  <2>1. UNCHANGED <<phase, clock, due, times, lastTick, lastSecondOfDay>>
    BY <1>5 DEF vars, serverVars, historyVars, HandleRequest, HandleOtherPacket,
                OnSocketReceiveFailed, UserUpdateTask, UserOnDayTimer, UserBlacksRefresh,
                UserRequest, EditTaskFile, EditBlackFile
  <2> QED
    BY <2>1 DEF LagBounded, Second
<1> QED
  BY <1>1, <1>2, <1>3, <1>4, <1>5 DEF Next

\* The handler of the timer never lags a day behind, a missing Task.txt included.
THEOREM LagAlwaysBounded == Spec => []LagBounded
<1>1. Init => LagBounded
  BY ClockAssumption, SizesAssumption DEF Init, LagBounded, Second
<1>2. TypeOK /\ LagBounded /\ [Next]_vars => LagBounded'
  BY NextLag
<1> QED
  BY <1>1, <1>2, TypeCorrect, PTL DEF Spec

-----------------------------------------------------------------------------
(***************************************************************************)
(* Day changes and reloads                                                 *)
(***************************************************************************)

\* Loading Task.txt keeps the progress of the tasks that stay, and starts the
\* others from nothing at the limit of the current second.
LEMMA LoadedProgress ==
  ASSUME NEW f \in Files, NEW T, TableOK(T), clock \in Nat, NEW g \in Listed(f)
  PROVE  /\ g \in DOMAIN T => /\ LoadedTable(f, T)[g].count = T[g].count
                              /\ LoadedTable(f, T)[g].start = T[g].start
                              /\ LoadedTable(f, T)[g].limit = T[g].limit
         /\ g \notin DOMAIN T =>
              /\ LoadedTable(f, T)[g].count = 0
              /\ LoadedTable(f, T)[g].limit = 0
              /\ LoadedTable(f, T)[g].start =
                   Limit[f[FirstOf(GoodLines(f, g))].par.curve][Second(clock)]
         /\ LoadedTable(f, T)[g].par = f[LastOf(GoodLines(f, g))].par
<1> DEFINE t == IF g \in DOMAIN T THEN T[g] ELSE NewTask(f, g)
<1>1. GoodLines(f, g) # {}
  BY DEF Listed
<1>2. NewTask(f, g) \in TaskType
  BY <1>1, NewTaskType
<1>3. t \in TaskType
  BY <1>2 DEF TableOK
<1>4. LoadedTable(f, T)[g] = UpdatedTask(t, f, g)
  BY DEF LoadedTable
<1> HIDE DEF t
<1>5. /\ LoadedTable(f, T)[g].par = f[LastOf(GoodLines(f, g))].par
      /\ LoadedTable(f, T)[g].count = t.count
      /\ LoadedTable(f, T)[g].start = t.start
      /\ LoadedTable(f, T)[g].limit = t.limit
  BY <1>1, <1>3, <1>4, UpdatedTaskType
<1>6. g \notin DOMAIN T =>
        /\ t.count = 0 /\ t.limit = 0
        /\ t.start = Limit[f[FirstOf(GoodLines(f, g))].par.curve][Second(clock)]
  BY DEF t, NewTask
<1>7. g \in DOMAIN T => t = T[g]
  BY DEF t
<1> QED
  BY <1>5, <1>6, <1>7

\* A full timer tick, task by task.
LEMMA FullTick ==
  ASSUME TypeOK, LagBounded, OnAppTimer, ~(TickReturns)
  PROVE  LET loaded == IF times' = 0 /\ FileChanged
                         THEN LoadedTable(file, taskMap) ELSE taskMap
             newDay == Day(lastTick) < Day(clock)
         IN /\ TableOK(loaded) /\ DOMAIN taskMap' = DOMAIN loaded
            /\ lastTick' = clock /\ lastSecondOfDay' = Second(clock)
            /\ stat' = IF newDay THEN NoStat ELSE stat
            /\ dispatched' = IF newDay THEN NothingDispatched ELSE dispatched
            /\ \A g \in DOMAIN loaded :
                 /\ taskMap'[g].par = loaded[g].par
                 /\ taskMap'[g].count = IF newDay THEN 0 ELSE loaded[g].count
                 /\ taskMap'[g].start = IF newDay THEN NowLimit(loaded[g])
                                                  ELSE loaded[g].start
                 /\ taskMap'[g].limit = NowLimit(loaded[g]) - taskMap'[g].start
<1> DEFINE loaded == IF times' = 0 /\ FileChanged
                       THEN LoadedTable(file, taskMap) ELSE taskMap
           newDay == Day(lastTick) < Day(clock)
           rolled == IF newDay THEN ResetTable(loaded) ELSE loaded
<1>1. clock \in Nat /\ phase = "up"
  BY ClockNumbers DEF OnAppTimer, TickReturns
<1>2. Second(clock) < lastSecondOfDay <=> newDay
  BY <1>1, TickSeesMidnight
<1>3. /\ taskMap' = AdjustedTable(rolled)
      /\ stat' = IF newDay THEN NoStat ELSE stat
      /\ lastSecondOfDay' = Second(clock) /\ lastTick' = clock
      /\ dispatched' = IF newDay THEN NothingDispatched ELSE dispatched
  <2>1. /\ taskMap' = AdjustedTable(IF Second(clock) < lastSecondOfDay
                                      THEN ResetTable(loaded) ELSE loaded)
        /\ stat' = IF Second(clock) < lastSecondOfDay THEN NoStat ELSE stat
        /\ lastSecondOfDay' = Second(clock) /\ ObserveClock
    BY DEF OnAppTimer, TickReturns
  <2>2. Day(lastTick) \in Nat /\ Day(clock) \in Nat
    BY <1>1, TickSeesMidnight
  <2>3. Day(clock) > Day(lastTick) <=> newDay
    BY <2>2
  <2> QED
    BY <1>2, <2>1, <2>3 DEF ObserveClock
<1>4. TableOK(loaded)
  <2>1. CASE times' = 0 /\ FileChanged
    <3>1. file \in Files /\ TableOK(taskMap)
      BY <2>1 DEF TickReturns, TypeOK, TableOK
    <3> QED
      BY <2>1, <3>1, <1>1, LoadedTableType
  <2>2. CASE ~(times' = 0 /\ FileChanged)
    BY <2>2 DEF TypeOK, TableOK
  <2> QED
    BY <2>1, <2>2
<1> HIDE DEF loaded
<1>5. /\ TableOK(rolled) /\ DOMAIN rolled = DOMAIN loaded
      /\ \A g \in DOMAIN loaded : rolled[g] = IF newDay THEN DayReset(loaded[g]) ELSE loaded[g]
  BY <1>1, <1>4, ResetTableType
<1>6. ASSUME NEW g \in DOMAIN loaded
      PROVE  /\ rolled[g].par = loaded[g].par
             /\ rolled[g].count = IF newDay THEN 0 ELSE loaded[g].count
             /\ rolled[g].start = IF newDay THEN NowLimit(loaded[g]) ELSE loaded[g].start
  <2>1. loaded[g] \in TaskType
    BY <1>4 DEF TableOK
  <2> QED
    BY <1>1, <1>5, <2>1, DayResetType
<1> HIDE DEF rolled
<1>7. /\ DOMAIN taskMap' = DOMAIN loaded
      /\ \A g \in DOMAIN loaded :
           /\ taskMap'[g].par = rolled[g].par
           /\ taskMap'[g].count = rolled[g].count
           /\ taskMap'[g].start = rolled[g].start
           /\ taskMap'[g].limit = NowLimit(rolled[g]) - rolled[g].start
  BY <1>1, <1>3, <1>5, AdjustedTableType
<1>8. \A g \in DOMAIN loaded : NowLimit(rolled[g]) = NowLimit(loaded[g])
  BY <1>6 DEF NowLimit
<1> QED
  BY <1>3, <1>4, <1>6, <1>7, <1>8 DEF loaded

\* A full tick keeps the count and the start of a task that was in the table, unless
\* the day changes.
LEMMA TickKeeps ==
  ASSUME TypeOK, LagBounded, OnAppTimer, ~(TickReturns),
         ~(Day(lastTick) < Day(clock)), NEW g \in DOMAIN taskMap \cap DOMAIN taskMap'
  PROVE  taskMap'[g].count = taskMap[g].count /\ taskMap'[g].start = taskMap[g].start
<1> DEFINE loaded == IF times' = 0 /\ FileChanged
                       THEN LoadedTable(file, taskMap) ELSE taskMap
<1>1. /\ g \in DOMAIN loaded
      /\ taskMap'[g].count = loaded[g].count
      /\ taskMap'[g].start = loaded[g].start
  BY FullTick
<1>2. loaded[g].count = taskMap[g].count /\ loaded[g].start = taskMap[g].start
  <2>1. CASE times' = 0 /\ FileChanged
    <3>1. file \in Files /\ TableOK(taskMap) /\ clock \in Nat
      BY <2>1, ClockNumbers DEF TickReturns, TypeOK, TableOK
    <3>2. g \in Listed(file)
      BY <1>1, <2>1, <3>1, LoadedTableType
    <3> QED
      BY <2>1, <3>1, <3>2, LoadedProgress
  <2>2. CASE ~(times' = 0 /\ FileChanged)
    BY <2>2
  <2> QED
    BY <2>1, <2>2
<1> HIDE DEF loaded
<1> QED
  BY <1>1, <1>2

\* Only the timer moves the second of the day of a running server.
LEMMA OnlyTheTimer ==
  ASSUME [Next]_vars, phase' = phase, lastTick' # lastTick
  PROVE  OnAppTimer
BY DEF Next, vars, serverVars, historyVars, Start, Stop, RunnerStop, Crash, Gone,
       HandleRequest, HandleOtherPacket, OnSocketReceiveFailed, UserUpdateTask,
       UserOnDayTimer, UserBlacksRefresh, UserRequest, ClockAdvance, EditTaskFile,
       EditBlackFile

DayRollStep ==
  (phase' = phase /\ lastTick' # lastTick) =>
    IF Day(lastTick') > Day(lastTick)
    THEN stat' = NoStat /\ \A g \in DOMAIN taskMap' : taskMap'[g].count = 0
    ELSE \A g \in DOMAIN taskMap \cap DOMAIN taskMap' :
           taskMap'[g].count = taskMap[g].count

\* A step that moves the remembered second clears the counts exactly when the day
\* has changed.
LEMMA NextRolls ==
  ASSUME TypeOK, LagBounded, [Next]_vars
  PROVE  DayRollStep
<1> SUFFICES ASSUME phase' = phase, lastTick' # lastTick
             PROVE  IF Day(lastTick') > Day(lastTick)
                    THEN stat' = NoStat /\ \A g \in DOMAIN taskMap' : taskMap'[g].count = 0
                    ELSE \A g \in DOMAIN taskMap \cap DOMAIN taskMap' :
                           taskMap'[g].count = taskMap[g].count
  BY DEF DayRollStep
<1>1. OnAppTimer
  BY OnlyTheTimer
<1>2. ~(TickReturns)
  BY <1>1 DEF OnAppTimer, TickReturns, historyVars
<1>3. lastTick' = clock /\ Day(lastTick) \in Nat /\ Day(clock) \in Nat
  BY <1>1, <1>2, FullTick, TickSeesMidnight DEF OnAppTimer, TickReturns
<1>4. CASE Day(lastTick) < Day(clock)
  <2>1. stat' = NoStat /\ \A g \in DOMAIN taskMap' : taskMap'[g].count = 0
    BY <1>1, <1>2, <1>4, FullTick
  <2>2. Day(lastTick') > Day(lastTick)
    BY <1>3, <1>4
  <2> QED
    BY <2>1, <2>2
<1>5. CASE ~(Day(lastTick) < Day(clock))
  <2>1. \A g \in DOMAIN taskMap \cap DOMAIN taskMap' : taskMap'[g].count = taskMap[g].count
    BY <1>1, <1>2, <1>5, TickKeeps
  <2>2. ~(Day(lastTick') > Day(lastTick))
    BY <1>3, <1>5
  <2> QED
    BY <2>1, <2>2
<1> QED
  BY <1>4, <1>5

\* Every midnight clears all counts once, and no other tick lowers one: for every
\* length of the day the timer cannot lag behind, every file and every restart.
THEOREM DayRollsExactly == Spec => DayRollExact
<1>1. TypeOK /\ LagBounded /\ [Next]_vars => [DayRollStep]_vars
  BY NextRolls
<1>2. Spec => [][DayRollStep]_vars
  BY <1>1, TypeCorrect, LagAlwaysBounded, PTL DEF Spec
<1> QED
  BY <1>2 DEF DayRollExact, DayRollStep

ReloadStep ==
  (phase' = phase /\ lastModifyTime' # lastModifyTime /\ Day(lastTick') = Day(lastTick)) =>
    \A g \in DOMAIN taskMap \cap DOMAIN taskMap' :
      /\ taskMap'[g].count = taskMap[g].count
      /\ taskMap'[g].start = taskMap[g].start

\* A step that loads Task.txt keeps the progress of the tasks that stay.
LEMMA NextReloads ==
  ASSUME TypeOK, LagBounded, [Next]_vars
  PROVE  ReloadStep
<1> SUFFICES ASSUME phase' = phase, lastModifyTime' # lastModifyTime,
                    Day(lastTick') = Day(lastTick),
                    NEW g \in DOMAIN taskMap \cap DOMAIN taskMap'
             PROVE  /\ taskMap'[g].count = taskMap[g].count
                    /\ taskMap'[g].start = taskMap[g].start
  BY DEF ReloadStep
<1>1. OnAppTimer \/ UserUpdateTask
  BY DEF Next, vars, serverVars, fileVars, historyVars, Start, Stop, RunnerStop, Crash, Gone,
         HandleRequest, HandleOtherPacket, OnSocketReceiveFailed,
         UserOnDayTimer, UserBlacksRefresh, UserRequest, ClockAdvance, EditTaskFile,
         EditBlackFile
<1>2. CASE OnAppTimer
  <2>1. ~(TickReturns)
    BY <1>2 DEF OnAppTimer, TickReturns
  <2>2. lastTick' = clock
    BY <1>2, <2>1, FullTick
  <2>3. ~(Day(lastTick) < Day(clock))
    <3>1. Day(lastTick) \in Nat /\ Day(clock) = Day(lastTick)
      BY <1>2, <2>2, TickSeesMidnight DEF OnAppTimer, TickReturns
    <3> QED
      BY <3>1
  <2> QED
    BY <1>2, <2>1, <2>3, TickKeeps
<1>3. CASE UserUpdateTask
  <2>1. /\ file \in Files /\ TableOK(taskMap) /\ clock \in Nat
        /\ taskMap' = LoadedTable(file, taskMap)
    BY <1>3, ClockNumbers DEF UserUpdateTask, TypeOK, TableOK
  <2>2. g \in Listed(file)
    BY <2>1, LoadedTableType
  <2> QED
    BY <2>1, <2>2, LoadedProgress
<1> QED
  BY <1>1, <1>2, <1>3

\* Editing Task.txt while the server runs never gives a task its day back.
THEOREM ReloadsKeepProgress == Spec => ReloadKeepsProgress
<1>1. TypeOK /\ LagBounded /\ [Next]_vars => [ReloadStep]_vars
  BY NextReloads
<1>2. Spec => [][ReloadStep]_vars
  BY <1>1, TypeCorrect, LagAlwaysBounded, PTL DEF Spec
<1> QED
  BY <1>2 DEF ReloadKeepsProgress, ReloadStep
=============================================================================
