---------------------------- MODULE TipsServer ----------------------------
(***************************************************************************)
(* The task server (xdll/server).  It keeps a table of tasks read from     *)
(* Task.txt, hands tasks out to clients that ask for them over UDP, and    *)
(* paces each task over the day along the task's time curve.               *)
(*                                                                         *)
(* Every handler runs on the one thread of the io_service, so a handler is *)
(* one atomic action; the interleaving that matters is that of the timer,  *)
(* the packets, the console commands, the edits of the files on disk, the  *)
(* clock and the end of the process.                                       *)
(***************************************************************************)
EXTENDS Integers, FiniteSets, Sequences

CONSTANTS
  Guid,               \* task guids; m_taskMap is ordered by them
  Params,             \* what a well formed line of Task.txt says of a task
  Unparsable,         \* stands for the rest of a line UpdateFromString rejects
  NoGuid,             \* stands for the guid of a line that has none
  Curve,              \* the time curves
  Limit,              \* Limit[c][s]: GetNowLimit(s) of a task with curve c
  DayLength,          \* seconds of a day
  TaskFilePeriod,     \* timer ticks between two looks at Task.txt
  TaskCountEachUser,  \* g_TaskCountEachUser
  IsTestReceiver,     \* g_IsTestReceiver = 1
  NumReceives,        \* receives posted by Start
  Files,              \* the contents Task.txt can have
  NoFile,             \* Task.txt does not exist
  BlackFiles,         \* the contents blacks.txt can have
  Requests,           \* the requests clients can send
  Queries,            \* the arguments the console command "request" can have
  MaxClock, MaxLag, MaxPackets, MaxEdits   \* bounds of the model

NetType == [country : Nat, province : Nat, city : Nat]

Line == [guid : Guid \cup {NoGuid}, par : Params \cup {Unparsable}]

ParamsType ==
  [type : Nat, groupID : Nat, rate : {"never", "some", "always"},
   curve : Curve, star : BOOLEAN, allow : SUBSET NetType, forbid : SUBSET NetType,
   channels : SUBSET Nat, requestTypes : SUBSET Nat, minVersion : Nat,
   min : Nat, max : Nat, total : Nat]

ASSUME SizesAssumption ==
  /\ Guid \subseteq Nat /\ IsFiniteSet(Guid)
  /\ TaskCountEachUser \in Nat /\ NumReceives \in Nat
  /\ IsTestReceiver \in BOOLEAN
  /\ TaskFilePeriod \in Nat /\ TaskFilePeriod >= 2
  /\ MaxClock \in Nat /\ MaxLag \in Nat /\ MaxPackets \in Nat /\ MaxEdits \in Nat

\* The timer never falls a whole day behind the clock.
ASSUME ClockAssumption == DayLength \in Nat /\ DayLength > MaxLag + 1

ASSUME FileAssumption ==
  /\ Params \subseteq ParamsType
  /\ Unparsable \notin Params /\ NoGuid \notin Guid /\ NoFile \notin Files
  /\ \A f \in Files : f \in Seq(Line)
  /\ \A b \in BlackFiles : b \subseteq Nat \X Nat

\* A curve starts at or above zero and never falls during the day.
ASSUME CurveAssumption ==
  /\ Limit \in [Curve -> [0 .. DayLength - 1 -> Nat]]
  /\ \A c \in Curve : \A s, t \in 0 .. DayLength - 1 : s <= t => Limit[c][s] <= Limit[c][t]

ASSUME RequestAssumption ==
  /\ Requests \subseteq
       [version : Nat, channelID : Nat, ip : Nat, net : NetType, value : Nat,
        requestType : Nat, visited : SUBSET Nat]
  /\ Queries \subseteq [hasIp : BOOLEAN, net : NetType, value : Nat]

VARIABLES
  phase,            \* of the process: "down", "up", "closing" (Stop was called)
  taskMap,          \* m_taskMap: a function from the guids of the table
  blackIpSegs,      \* m_blackIpSegs
  lastSecondOfDay,  \* m_lastSecondOfDay
  lastModifyTime,   \* m_taskTxtLastModifyTime
  times,            \* m_timer.GetTimes(), modulo TaskFilePeriod
  stat,             \* the counters m_emptyCount ... m_sendCount
  posted,           \* receives outstanding on m_udp
  clock,            \* seconds since the midnight before the first start
  due,              \* expirations of m_timer not handled yet
  file, fileTime,   \* Task.txt and its modification time
  blackFile,        \* blacks.txt
  packets, edits,   \* how much of the bounds has been used
  dispatched,       \* history: tasks handed out since the day began
  lastTick          \* history: the clock when lastSecondOfDay was set

serverVars == <<phase, taskMap, blackIpSegs, lastSecondOfDay, lastModifyTime,
                times, stat, posted>>
fileVars == <<file, fileTime, blackFile, edits>>
historyVars == <<dispatched, lastTick>>
vars == <<serverVars, clock, due, fileVars, packets, historyVars>>

-----------------------------------------------------------------------------
Second(c) == c % DayLength
Day(c) == c \div DayLength
Stamp == 0 .. MaxClock

TaskType == [par : Params, allow : SUBSET NetType, forbid : SUBSET NetType,
             count : Nat, start : Int, limit : Int]

StatType == [empty : Nat, error : Nat, other : Nat, failed : Nat,
             receive : Nat, handel : Nat, send : Nat]

NoStat == [empty |-> 0, error |-> 0, other |-> 0, failed |-> 0,
           receive |-> 0, handel |-> 0, send |-> 0]

NothingDispatched == [g \in Guid |-> 0]

NoTasks == [g \in {} |-> 0]

NowLimit(t) == Limit[t.par.curve][Second(clock)]

-----------------------------------------------------------------------------
(***************************************************************************)
(* Reading Task.txt                                                        *)
(***************************************************************************)

\* The lines of f that describe task g and can be parsed.
GoodLines(f, g) == {i \in DOMAIN f : f[i].guid = g /\ f[i].par # Unparsable}

FirstOf(I) == CHOOSE i \in I : \A j \in I : i <= j
LastOf(I) == CHOOSE i \in I : \A j \in I : j <= i

\* Mutant: a line without a guid is added like any other.
ListedWithoutGuid(f) == {f[i].guid : i \in {j \in DOMAIN f : f[j].par # Unparsable}}

Listed(f) == {g \in Guid : GoodLines(f, g) # {}}

\* The good lines of g whose address field is not "*".
AddressLines(f, g) == {i \in GoodLines(f, g) : ~f[i].par.star}

\* A task the first good line of which is read at the current second.
NewTask(f, g) ==
  [par |-> f[FirstOf(GoodLines(f, g))].par, allow |-> {}, forbid |-> {},
   count |-> 0, start |-> Limit[f[FirstOf(GoodLines(f, g))].par.curve][Second(clock)],
   limit |-> 0]

\* Task t after all good lines of g went through UpdateFromString: every line
\* replaces the parameters, a line with the address "*" keeps the address lists.
UpdatedTask(t, f, g) ==
  LET I == AddressLines(f, g) IN
  [t EXCEPT !.par = f[LastOf(GoodLines(f, g))].par,
            !.allow = IF I = {} THEN @ ELSE f[LastOf(I)].par.allow,
            !.forbid = IF I = {} THEN @ ELSE f[LastOf(I)].par.forbid]

\* Mutant: every task of the file is built anew.
LoadedAfresh(f, table) ==
  [g \in Listed(f) |-> UpdatedTask(NewTask(f, g), f, g)]

\* LoadFromTaskFile: tasks without a good line are deleted.
LoadedTable(f, table) ==
  [g \in Listed(f) |->
     UpdatedTask(IF g \in DOMAIN table THEN table[g] ELSE NewTask(f, g), f, g)]

\* Mutant: a day that begins in the middle of the curve counts from zero.
DayResetToZero(t) == [t EXCEPT !.count = 0, !.limit = 0, !.start = 0]

\* Mutant: a new day keeps the counts.
ResetLimits(table) ==
  [g \in DOMAIN table |-> [table[g] EXCEPT !.limit = 0, !.start = NowLimit(table[g])]]

\* OnDayTimer, for one task and for the table.
DayReset(t) == [t EXCEPT !.count = 0, !.limit = 0, !.start = NowLimit(t)]
ResetTable(table) == [g \in DOMAIN table |-> DayReset(table[g])]

\* What a timer tick makes of the limit of every task.
AdjustedTable(table) ==
  [g \in DOMAIN table |->
     [table[g] EXCEPT !.limit = NowLimit(table[g]) - table[g].start]]

-----------------------------------------------------------------------------
(***************************************************************************)
(* Which tasks a request may be answered with                              *)
(***************************************************************************)

IUTTask == 3

Hit(net, pattern) ==
  /\ pattern.country \in {0, net.country}
  /\ pattern.province \in {0, net.province}
  /\ pattern.city \in {0, net.city}

InRegion(t, net) ==
  /\ t.allow = {} \/ \E a \in t.allow : Hit(net, a)
  /\ ~ \E a \in t.forbid : Hit(net, a)

\* The probability window: value is the address or the hash of the client's id.
InWindow(p, value) ==
  p.total > 0 => (value % p.total >= p.min /\ value % p.total <= p.max)

Blacklisted(ip) == \E seg \in blackIpSegs : ip >= seg[1] /\ ip < seg[2]

Accepted(r) ==
  /\ ~IsTestReceiver
  /\ r.version >= 2
  /\ ~(r.version < 5 /\ r.channelID = 1)
  /\ ~Blacklisted(r.ip)

\* The filters of HandleRequest that depend on the task and the request alone.
Targeted(t, r) ==
  /\ r.version >= t.par.minVersion
  /\ InWindow(t.par, r.value)
  /\ InRegion(t, r.net)
  /\ t.par.channels = {} \/ r.channelID \in t.par.channels
  /\ t.par.requestTypes = {} \/ r.requestType \in t.par.requestTypes
  /\ t.par.type # IUTTask

Visited(t, r) == t.par.groupID # 0 /\ t.par.groupID \in r.visited

\* lucky: the tasks for which the draw against TaskGroupRate would succeed.
Repeatable(t, isLucky) == t.par.rate = "always" \/ (t.par.rate = "some" /\ isLucky)

\* Mutant: one task more than the limit.
CandidatesAtLimit(r, lucky) ==
  {g \in DOMAIN taskMap :
     /\ taskMap[g].count <= taskMap[g].limit
     /\ Targeted(taskMap[g], r)
     /\ Visited(taskMap[g], r) => Repeatable(taskMap[g], g \in lucky)}

Candidates(r, lucky) ==
  {g \in DOMAIN taskMap :
     /\ taskMap[g].count < taskMap[g].limit
     /\ Targeted(taskMap[g], r)
     /\ Visited(taskMap[g], r) => Repeatable(taskMap[g], g \in lucky)}

\* S is what the loop over the candidates C in guid order picks.
FirstFew(S, C) ==
  /\ S \subseteq C
  /\ \A g \in S, h \in C : h < g => h \in S
  /\ Cardinality(S) <= TaskCountEachUser
  /\ S # C => Cardinality(S) = TaskCountEachUser

-----------------------------------------------------------------------------
(***************************************************************************)
(* The process                                                             *)
(***************************************************************************)

Init ==
  /\ phase = "down" /\ taskMap = NoTasks /\ blackIpSegs = {}
  /\ lastSecondOfDay = 0 /\ lastModifyTime = 0 /\ times = 0
  /\ stat = NoStat /\ posted = 0
  /\ clock = 0 /\ due = 0
  /\ file \in Files \cup {NoFile} /\ fileTime = 0
  /\ blackFile \in BlackFiles /\ edits = 0
  /\ packets = 0
  /\ dispatched = NothingDispatched /\ lastTick = 0

\* The history of the day is that of the day of the clock.
ObserveClock ==
  /\ lastTick' = clock
  /\ dispatched' = IF Day(clock) > Day(lastTick) THEN NothingDispatched ELSE dispatched

\* A new process: the constructor, then TipsServer::Start.  Counts of an earlier
\* process are not read back.  Without a Task.txt the modification time stays
\* uninitialised.
Start ==
  /\ phase = "down"
  /\ phase' = "up"
  /\ blackIpSegs' = blackFile
  /\ \/ /\ file = NoFile
        /\ taskMap' = NoTasks
        /\ lastModifyTime' \in Stamp
     \/ /\ file # NoFile
        /\ taskMap' = LET T == LoadedTable(file, NoTasks)
                      IN [g \in DOMAIN T |-> [T[g] EXCEPT !.start = NowLimit(T[g])]]
        /\ lastModifyTime' = fileTime
  /\ lastSecondOfDay' = Second(clock)
  /\ times' = 0 /\ due' = 0
  /\ stat' = NoStat
  /\ posted' = NumReceives
  /\ ObserveClock
  /\ UNCHANGED <<clock, fileVars, packets>>

\* TipsServer::Stop closes the timer and the socket; the io_service still runs.
Stop ==
  /\ phase = "up"
  /\ phase' = "closing"
  /\ due' = 0
  /\ UNCHANGED <<taskMap, blackIpSegs, lastSecondOfDay, lastModifyTime, times, stat,
                 posted, clock, fileVars, packets, historyVars>>

Gone ==
  /\ phase' = "down"
  /\ taskMap' = NoTasks
  /\ blackIpSegs' = {}
  /\ stat' = NoStat
  /\ posted' = 0
  /\ due' = 0
  /\ UNCHANGED <<lastSecondOfDay, lastModifyTime, times, clock, fileVars, packets,
                 historyVars>>

\* IOServiceRunner::Stop after Stop: io_service::stop ends the thread although
\* receives are still outstanding.
RunnerStop == phase = "closing" /\ Gone

Crash == phase = "up" /\ Gone

-----------------------------------------------------------------------------
(***************************************************************************)
(* The timer                                                               *)
(***************************************************************************)

\* Mutant: only a later modification time is a change.
FileNewer == lastModifyTime < fileTime

FileChanged == lastModifyTime # fileTime

\* Mutant: every tick without a Task.txt gives up.
EveryTickReturns == file = NoFile

\* The tick that looks at Task.txt gives up when there is none.
TickReturns == times' = 0 /\ file = NoFile

OnAppTimer ==
  /\ phase = "up" /\ due > 0
  /\ due' = due - 1
  /\ times' = (times + 1) % TaskFilePeriod
  /\ IF TickReturns
     THEN UNCHANGED <<taskMap, lastModifyTime, lastSecondOfDay, stat, historyVars>>
     ELSE LET reload == times' = 0 /\ FileChanged
              newDay == Second(clock) < lastSecondOfDay
              loaded == IF reload THEN LoadedTable(file, taskMap) ELSE taskMap
          IN /\ taskMap' = AdjustedTable(IF newDay THEN ResetTable(loaded) ELSE loaded)
             /\ lastModifyTime' = IF reload THEN fileTime ELSE lastModifyTime
             /\ stat' = IF newDay THEN NoStat ELSE stat
             /\ lastSecondOfDay' = Second(clock)
             /\ ObserveClock
  /\ UNCHANGED <<phase, blackIpSegs, posted, clock, fileVars, packets>>

-----------------------------------------------------------------------------
(***************************************************************************)
(* Packets.  Receives that had completed before Stop are still handled.    *)
(***************************************************************************)

CountPacket == packets < MaxPackets /\ packets' = packets + 1

\* Every completed receive is replaced before its packet is looked at.
Rearm == posted > 0 /\ posted' = (posted - 1) + 1

\* Mutant: a request is counted as handled before it is accepted.
DropHandled(r) ==
  /\ ~Accepted(r)
  /\ stat' = [stat EXCEPT !.receive = @ + 1, !.handel = @ + 1]
  /\ UNCHANGED <<taskMap, dispatched>>

\* A request that is dropped: only m_receiveCount tells.
DropRequest(r) ==
  /\ ~Accepted(r)
  /\ stat' = [stat EXCEPT !.receive = @ + 1]
  /\ UNCHANGED <<taskMap, dispatched>>

\* A request that is answered, with the tasks of S or with the empty task.
AnswerRequest(r) ==
  /\ Accepted(r)
  /\ \E lucky \in SUBSET DOMAIN taskMap : \E S \in SUBSET DOMAIN taskMap :
       /\ FirstFew(S, Candidates(r, lucky))
       /\ taskMap' = [g \in DOMAIN taskMap |->
                        [taskMap[g] EXCEPT !.count = @ + IF g \in S THEN 1 ELSE 0]]
       /\ dispatched' = [g \in Guid |-> dispatched[g] + IF g \in S THEN 1 ELSE 0]
       /\ stat' = [stat EXCEPT !.receive = @ + 1, !.handel = @ + 1,
                               !.send = @ + IF S = {} THEN 1 ELSE Cardinality(S),
                               !.empty = @ + IF S = {} THEN 1 ELSE 0]

HandleRequest(r) ==
  /\ phase # "down" /\ CountPacket /\ Rearm
  /\ DropRequest(r) \/ AnswerRequest(r)
  /\ UNCHANGED <<phase, blackIpSegs, lastSecondOfDay, lastModifyTime, times, clock,
                 due, fileVars, lastTick>>

\* A packet that is no request, or no packet of the protocol at all.
HandleOtherPacket ==
  /\ phase # "down" /\ CountPacket /\ Rearm
  /\ \/ stat' = [stat EXCEPT !.other = @ + 1]
     \/ stat' = [stat EXCEPT !.error = @ + 1]
  /\ UNCHANGED <<phase, taskMap, blackIpSegs, lastSecondOfDay, lastModifyTime, times,
                 clock, due, fileVars, historyVars>>

\* A receive that failed; after Stop all of them do, and are posted again.
OnSocketReceiveFailed ==
  /\ phase # "down" /\ CountPacket /\ Rearm
  /\ stat' = [stat EXCEPT !.failed = @ + 1]
  /\ UNCHANGED <<phase, taskMap, blackIpSegs, lastSecondOfDay, lastModifyTime, times,
                 clock, due, fileVars, historyVars>>

-----------------------------------------------------------------------------
(***************************************************************************)
(* Console commands, run on the io_service thread                          *)
(***************************************************************************)

UserUpdateTask ==
  /\ phase # "down" /\ file # NoFile
  /\ taskMap' = LoadedTable(file, taskMap)
  /\ lastModifyTime' = fileTime
  /\ UNCHANGED <<phase, blackIpSegs, lastSecondOfDay, times, stat, posted, clock, due,
                 fileVars, packets, historyVars>>

UserOnDayTimer ==
  /\ phase # "down"
  /\ taskMap' = ResetTable(taskMap)
  /\ stat' = NoStat
  /\ UNCHANGED <<phase, blackIpSegs, lastSecondOfDay, lastModifyTime, times, posted,
                 clock, due, fileVars, packets, historyVars>>

\* The command "request" counts a task as handed out without sending it.
Asked(q) ==
  {g \in DOMAIN taskMap :
     /\ taskMap[g].count <= taskMap[g].limit
     /\ InWindow(taskMap[g].par, q.value)
     /\ q.hasIp => InRegion(taskMap[g], q.net)}

UserRequest(q) ==
  /\ phase # "down" /\ CountPacket
  /\ taskMap' = [g \in DOMAIN taskMap |->
                   [taskMap[g] EXCEPT !.count = @ + IF g \in Asked(q) THEN 1 ELSE 0]]
  /\ UNCHANGED <<phase, blackIpSegs, lastSecondOfDay, lastModifyTime, times, stat,
                 posted, clock, due, fileVars, historyVars>>

UserBlacksRefresh ==
  /\ phase # "down"
  /\ blackIpSegs' = blackFile
  /\ UNCHANGED <<phase, taskMap, lastSecondOfDay, lastModifyTime, times, stat, posted,
                 clock, due, fileVars, packets, historyVars>>

-----------------------------------------------------------------------------
(***************************************************************************)
(* The environment                                                         *)
(***************************************************************************)

\* A second passes; the periodic timer owes one more expiration.
ClockAdvance ==
  /\ clock < MaxClock
  /\ phase = "up" => due < MaxLag
  /\ clock' = clock + 1
  /\ due' = IF phase = "up" THEN due + 1 ELSE due
  /\ UNCHANGED <<serverVars, fileVars, packets, historyVars>>

CountEdit == edits < MaxEdits /\ edits' = edits + 1

EditTaskFile ==
  /\ CountEdit
  /\ file' \in (Files \cup {NoFile}) \ {file}
  /\ fileTime' = IF file' = NoFile THEN fileTime ELSE clock
  /\ UNCHANGED <<serverVars, clock, due, blackFile, packets, historyVars>>

EditBlackFile ==
  /\ CountEdit
  /\ blackFile' \in BlackFiles \ {blackFile}
  /\ UNCHANGED <<serverVars, clock, due, file, fileTime, packets, historyVars>>

-----------------------------------------------------------------------------
Next ==
  \/ Start \/ Stop \/ RunnerStop \/ Crash
  \/ OnAppTimer
  \/ \E r \in Requests : HandleRequest(r)
  \/ HandleOtherPacket \/ OnSocketReceiveFailed
  \/ UserUpdateTask \/ UserOnDayTimer \/ UserBlacksRefresh
  \/ \E q \in Queries : UserRequest(q)
  \/ ClockAdvance \/ EditTaskFile \/ EditBlackFile

Spec == Init /\ [][Next]_vars

\* The clock runs and the io_service thread handles the timer.  Nothing promises that a
\* packet comes, a file is edited or main goes on.
Fairness == WF_vars(ClockAdvance) /\ WF_vars(OnAppTimer)

FairSpec == Spec /\ Fairness
-----------------------------------------------------------------------------
(***************************************************************************)
(* Properties                                                              *)
(***************************************************************************)

\* Types of all variables; the table is indexed by guids the file can name.
TypeOK ==
  /\ phase \in {"down", "up", "closing"}
  /\ DOMAIN taskMap \subseteq Guid
  /\ taskMap \in [DOMAIN taskMap -> TaskType]
  /\ blackIpSegs \subseteq Nat \X Nat
  /\ lastSecondOfDay \in 0 .. DayLength - 1
  /\ lastModifyTime \in Stamp
  /\ times \in 0 .. TaskFilePeriod - 1
  /\ stat \in StatType
  /\ posted \in Nat
  /\ clock \in Stamp /\ due \in 0 .. MaxLag
  /\ file \in Files \cup {NoFile} /\ fileTime \in Stamp
  /\ blackFile \in BlackFiles
  /\ packets \in 0 .. MaxPackets /\ edits \in 0 .. MaxEdits
  /\ dispatched \in [Guid -> Nat]
  /\ lastTick \in Stamp

\* The counters shown by the console command "empty" agree with each other at all
\* times, also after a day change in the middle of the traffic: every handled
\* request was received, and was answered either with the empty task or with
\* between 1 and TaskCountEachUser tasks.
CountersAgree ==
  /\ stat.handel <= stat.receive
  /\ stat.empty <= stat.handel
  /\ stat.handel <= stat.send
  /\ stat.send - stat.empty <= TaskCountEachUser * (stat.handel - stat.empty)

\* The second the server remembers is never older than the expirations of the timer
\* that wait to be handled, and one tick more when that tick found no Task.txt: two
\* ticks in a row never return early (OnAppTimer).
LagBounded ==
  /\ lastTick <= clock
  /\ lastSecondOfDay = Second(lastTick)
  /\ phase = "up" => clock - lastTick <= due + (IF times = 0 THEN 1 ELSE 0)

\* The comparison secondOfDay < m_lastSecondOfDay finds every midnight and nothing
\* else: a timer tick clears the counts when the day has changed since the last
\* full tick, and lowers no count when it has not, however late the ticks are and
\* whether or not Task.txt was missing at some of them.
DayRollExact ==
  [][ (phase' = phase /\ lastTick' # lastTick) =>
        IF Day(lastTick') > Day(lastTick)
        THEN stat' = NoStat /\ \A g \in DOMAIN taskMap' : taskMap'[g].count = 0
        ELSE \A g \in DOMAIN taskMap \cap DOMAIN taskMap' :
               taskMap'[g].count = taskMap[g].count ]_vars

\* Loading Task.txt again keeps what has been handed out of every task that stays
\* in the table, and where its day started, unless the day changes in that step.
ReloadKeepsProgress ==
  [][ (phase' = phase /\ lastModifyTime' # lastModifyTime /\ Day(lastTick') = Day(lastTick)) =>
        \A g \in DOMAIN taskMap \cap DOMAIN taskMap' :
          /\ taskMap'[g].count = taskMap[g].count
          /\ taskMap'[g].start = taskMap[g].start ]_vars

\* An edit of Task.txt whose time differs from the one remembered is loaded, as
\* long as the file is not removed or edited again, the server runs, and enough of
\* the clock's range is left for the next look at the file (OnAppTimer).
EditIsPickedUp ==
  \A t \in Stamp :
    (/\ phase = "up" /\ file # NoFile /\ lastModifyTime # t /\ fileTime = t
     /\ clock + TaskFilePeriod <= MaxClock)
    ~> \/ phase # "up" \/ file = NoFile \/ fileTime # t
       \/ lastModifyTime = t /\ DOMAIN taskMap = Listed(file)

\* A midnight is noticed although Task.txt may be missing for good: only the ticks
\* that look at the file return early.
MidnightIsNoticed ==
  (phase = "up" /\ Day(clock) > Day(lastTick) /\ clock + 1 <= MaxClock)
  ~> (phase # "up" \/ Day(clock) = Day(lastTick))

\* Task.h:23 says of DayNowMTULimit: strict control, DayNowMTUCount <
\* DayNowMTULimited; so a task is counted only while its count is below the limit.
StrictControl ==
  [][ \A g \in DOMAIN taskMap \cap DOMAIN taskMap' :
        taskMap'[g].count > taskMap[g].count => taskMap[g].count < taskMap[g].limit ]_vars

=============================================================================
