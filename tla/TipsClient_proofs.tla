------------------------- MODULE TipsClient_proofs -------------------------
(***************************************************************************)
(* Theorems about TipsClient, for any groups, delays and bounds.           *)
(* ClientInv is inductive; its parts speak of the tasks and pages the      *)
(* client has, of its wait for an answer, of its requests and its threads. *)
(***************************************************************************)
EXTENDS TipsClient, TLAPS

Doing ==
  /\ urlInfos \in 0 .. MAX_MULTIHOP_TASK_COUNT
  /\ browsers \in BOOLEAN /\ timeoutTimer \in BOOLEAN
  /\ tasks \in Seq(Task)
  /\ VisitedGroups \subseteq Groups /\ begun \subseteq VisitedGroups

\* Pages wait or are open only while the time of one runs.
Served == urlInfos > 0 \/ browsers => browsers /\ timeoutTimer

\* The timer runs only while the client waits, and then no answer has come.
Waiting ==
  /\ downloadPhase \in {"nothing", "udp"}
  /\ receiveTimer \in BOOLEAN /\ answered \in BOOLEAN /\ redirected \in BOOLEAN
  /\ fresh \in 0 .. TaskCountEachUser /\ stale \in 0 .. MaxStale
  /\ receiveTimer => downloadPhase = "udp" /\ ~answered

Timed == downloadPhase = "udp" => receiveTimer \/ redirected

Asking == idle \in Request /\ force \in Request /\ dayAge \in 0 .. Day

Threads ==
  /\ timer \in BOOLEAN /\ canRun \in BOOLEAN
  /\ current \in {"none", "task", "fallback"} /\ msgs \in Seq(Msg)
  /\ mainThread \in {"up", "joining tasks", "joining messages", "down"}
  /\ msgThread \in {"run", "ended", "killed"} /\ taskThread \in {"run", "ended", "killed"}

ClientInv ==
  /\ Doing /\ Waiting /\ Asking /\ Threads
  /\ msgThread = "run" => Served
  /\ msgThread # "ended" => Timed

-----------------------------------------------------------------------------
(***************************************************************************)
(* What the operators do                                                   *)
(***************************************************************************)

\* Nobody posts the fallback but OnReceiveTimer.
NoFallback == ~(Len(tasks') = Len(tasks) + 1 /\ Last(tasks') = "fallback")

LEMMA PostTaskTypes ==
  ASSUME tasks \in Seq(Task), NEW t \in Task, PostTask(t)
  PROVE  tasks' \in Seq(Task) /\ (t # "fallback" => NoFallback)
<1>1. CASE taskThread = "run"
  <2>1. tasks' = Append(tasks, t)
    BY <1>1 DEF PostTask
  <2>2. /\ tasks' \in Seq(Task) /\ Len(tasks') = Len(tasks) + 1 /\ tasks'[Len(tasks) + 1] = t
    BY <2>1
  <2> QED BY <2>2 DEF NoFallback, Last
<1>2. CASE taskThread # "run"
  <2>1. tasks' = tasks /\ Len(tasks) \in Nat
    BY <1>2 DEF PostTask
  <2> QED BY <2>1 DEF NoFallback
<1> QED BY <1>1, <1>2

LEMMA SameTasks ==
  ASSUME tasks \in Seq(Task), tasks' = tasks
  PROVE  NoFallback
<1>1. Len(tasks) \in Nat
  OBVIOUS
<1> QED BY <1>1 DEF NoFallback

LEMMA PostMessageTypes ==
  ASSUME msgs \in Seq(Msg), NEW m \in Msg, PostMessage(m)
  PROVE  msgs' \in Seq(Msg)
BY DEF PostMessage

LEMMA DelayedTypes ==
  ASSUME NEW r \in Request, NEW d \in DelayTimes
  PROVE  Delayed(r, d) \in Request
<1>1. CASE d # 0 /\ ~r.hasNot /\ r.delay # d
  <2>1. Greatest(d, MinDelay) \in 1 .. MaxAge
    BY <1>1, ClientAssumption DEF Greatest
  <2> QED BY <1>1, <2>1 DEF Delayed, Request
<1>2. CASE ~(d # 0 /\ ~r.hasNot /\ r.delay # d)
  BY <1>2 DEF Delayed
<1> QED BY <1>1, <1>2

LEMMA AgedTypes ==
  ASSUME NEW r \in Request, NEW t \in Nat
  PROVE  Aged(r, t) \in Request /\ Asked(r) \in Request
<1>1. r.age \in 0 .. MaxAge /\ MaxAge \in Nat /\ r.delay \in 1 .. MaxAge /\ DefaultDelay \in 1 .. MaxAge
  BY ClientAssumption DEF Request
<1>2. Least(r.age + t, MaxAge) \in 0 .. MaxAge
  BY <1>1 DEF Least
<1>3. Aged(r, t) \in Request
  BY <1>2 DEF Aged, Request
<1>4. Asked(r) \in Request
  BY <1>1 DEF Asked, Request
<1> QED BY <1>3, <1>4

LEMMA SendTypes ==
  ASSUME Waiting, NEW n \in Nat, n <= fresh + stale, Send(n)
  PROVE  answered' = FALSE /\ fresh' \in 0 .. TaskCountEachUser /\ stale' \in 0 .. MaxStale
<1>1. stale + fresh - n \in Nat /\ MaxStale \in Nat
  BY ClientAssumption DEF Waiting
<1>2. Least(stale + fresh - n, MaxStale) \in 0 .. MaxStale
  BY <1>1 DEF Least
<1> QED BY <1>2 DEF Send

\* A page more: the queue keeps its limit, and whoever waits is served.
LEMMA PageTypes ==
  ASSUME Doing, Served, DoMultiHopTask
  PROVE  /\ urlInfos' \in 0 .. MAX_MULTIHOP_TASK_COUNT
         /\ browsers' \in BOOLEAN /\ timeoutTimer' \in BOOLEAN
         /\ Served'
<1>1. PICK n : n = Least(urlInfos + 1, MAX_MULTIHOP_TASK_COUNT)
  OBVIOUS
<1>2. n \in 1 .. MAX_MULTIHOP_TASK_COUNT
  BY <1>1, ClientAssumption DEF Doing, Least
<1>3. CASE browsers
  BY <1>1, <1>2, <1>3 DEF Doing, Served, DoMultiHopTask
<1>4. CASE ~browsers
  <2>1. urlInfos' = n - 1 /\ browsers' = TRUE /\ timeoutTimer' = TRUE
    BY <1>1, <1>4 DEF DoMultiHopTask, ClickNext
  <2>2. urlInfos' \in 0 .. MAX_MULTIHOP_TASK_COUNT
    BY <1>2, <2>1, ClientAssumption
  <2> QED BY <2>1, <2>2 DEF Served
<1> QED BY <1>3, <1>4

\* What becomes of the tasks and pages when one of group g is begun, or none is.
LEMMA BeginTypes ==
  ASSUME Doing, Served, NEW g \in Groups \cup {0},
         Post(g) \/ Visit(g) \/ RunHere(g) \/ BeginsNot
  PROVE  /\ urlInfos' \in 0 .. MAX_MULTIHOP_TASK_COUNT
         /\ browsers' \in BOOLEAN /\ timeoutTimer' \in BOOLEAN
         /\ tasks' \in Seq(Task) /\ Served' /\ NoFallback
         /\ begun' = begun \/ (g > 0 /\ begun' = begun \cup {g})
<1>1. begun' = begun \/ (g > 0 /\ begun' = begun \cup {g})
  BY DEF Post, Visit, RunHere, BeginsNot, Begins
<1>2. CASE Post(g)
  BY <1>1, <1>2, PostTaskTypes DEF Post, Doing, Served, pageVars, Task
<1>3. CASE Visit(g)
  <2>1. tasks' = tasks /\ tasks \in Seq(Task)
    BY <1>3 DEF Visit, Doing
  <2> QED BY <1>1, <1>3, <2>1, PageTypes, SameTasks DEF Visit
<1>4. CASE RunHere(g) \/ BeginsNot
  BY <1>1, <1>4, SameTasks DEF RunHere, BeginsNot, Doing, Served, pageVars
<1> QED BY <1>2, <1>3, <1>4

\* The group of what is begun is inserted, or there is none.
LEMMA InsertTypes ==
  ASSUME Doing, Served, NEW g \in Groups \cup {0},
         Post(g) \/ Visit(g) \/ RunHere(g) \/ BeginsNot,
         InsertVisitedGroup(g) \/ (g = 0 /\ UNCHANGED VisitedGroups)
  PROVE  Doing' /\ Served' /\ NoFallback
<1>1. VisitedGroups' \subseteq Groups /\ VisitedGroups \subseteq VisitedGroups'
  BY DEF Doing, InsertVisitedGroup
<1>2. g > 0 => g \in VisitedGroups'
  BY DEF InsertVisitedGroup
<1>3. begun' \subseteq VisitedGroups'
  BY <1>1, <1>2, BeginTypes DEF Doing
<1> QED BY <1>1, <1>3, BeginTypes DEF Doing

LEMMA DoNothingTypes ==
  ASSUME Doing, Served, DoNothing
  PROVE  Doing' /\ Served' /\ NoFallback
<1>1. 0 \in Groups \cup {0} /\ BeginsNot /\ UNCHANGED VisitedGroups
  BY DEF DoNothing
<1> QED BY <1>1, InsertTypes

\* A task done, of whatever kind and group.
LEMMA DoTaskTypes ==
  ASSUME Doing, Served, NEW k \in Kinds, NEW g \in Groups \cup {0}, DoTask(k, g)
  PROVE  Doing' /\ Served' /\ NoFallback
<1>1. CASE InsertVisitedGroup(g) /\ (Post(g) \/ RunHere(g) \/ Visit(g) \/ BeginsNot)
  BY <1>1, InsertTypes
<1>2. CASE UNCHANGED VisitedGroups /\ Post(0)
  <2>1. 0 \in Groups \cup {0}
    OBVIOUS
  <2> QED BY <1>2, <2>1, InsertTypes
<1>3. CASE DoNothing
  BY <1>3, DoNothingTypes
<1> QED BY <1>1, <1>2, <1>3 DEF DoTask

LEMMA DoConfigTypes ==
  ASSUME Doing, Served, NEW g \in Groups \cup {0}, DoConfig(g)
  PROVE  Doing' /\ Served' /\ NoFallback
BY InsertTypes DEF DoConfig

LEMMA ResponseTypes ==
  ASSUME Doing, Served, Asking, OnResponseReceive
  PROVE  Doing' /\ Served' /\ NoFallback /\ idle' \in Request /\ force' \in Request
<1>1. CASE DoNothing /\ UNCHANGED <<idle, force>>
  BY <1>1, DoNothingTypes DEF Asking
<1>2. ASSUME NEW d \in DelayTimes,
             idle' = Delayed(idle, d) /\ force' = Delayed(force, d),
             \/ DoNothing
             \/ \E k \in Kinds, g \in Groups \cup {0} : DoTask(k, g)
             \/ \E g \in Groups \cup {0} : DoConfig(g)
      PROVE  Doing' /\ Served' /\ NoFallback /\ idle' \in Request /\ force' \in Request
  BY <1>2, DelayedTypes, DoNothingTypes, DoTaskTypes, DoConfigTypes DEF Asking
<1> QED BY <1>1, <1>2 DEF OnResponseReceive

-----------------------------------------------------------------------------
(***************************************************************************)
(* The steps of the message thread                                         *)
(***************************************************************************)

\* What each step keeps: the invariant, and the fallback for requests nobody answered.
Fine == ClientInv' /\ (NoFallback \/ ~answered)

LEMMA OnAppTimerStep ==
  ASSUME ClientInv, OnAppTimer
  PROVE  Fine
<1> USE DEF ClientInv
<1>1. PICK t \in 1 .. MaxElapsed :
        /\ force' = Asked(force) \/ force' = Aged(force, t)
        /\ idle' = Asked(idle) \/ idle' = Aged(idle, t)
        /\ (SendAndWait /\ redirected' = FALSE) \/ UNCHANGED waitVars
        /\ DayTimer(t)
  BY DEF OnAppTimer
<1>2. /\ msgThread = "run" /\ timer' = TRUE
      /\ UNCHANGED <<pageVars, taskVars, msgVars, mainThread, canRun>>
  BY DEF OnAppTimer, TimerTurn, StartTimer
<1>3. t \in Nat
  BY ClientAssumption
<1>4. force' \in Request /\ idle' \in Request
  BY <1>1, <1>3, AgedTypes DEF Asking
<1>5. dayAge' \in 0 .. Day /\ VisitedGroups' \subseteq Groups /\ begun' \subseteq VisitedGroups'
  <2>1. /\ dayAge \in 0 .. Day /\ Day \in Nat
          /\ VisitedGroups \subseteq Groups /\ begun \subseteq VisitedGroups
    BY ClientAssumption DEF Asking, Doing
  <2>2. CASE dayAge + t > Day
    BY <1>1, <2>1, <2>2 DEF DayTimer
  <2>3. CASE ~(dayAge + t > Day)
    <3>1. dayAge + t \in 0 .. Day
      BY <1>3, <2>1, <2>3
    <3> QED BY <1>1, <2>1, <2>3, <3>1 DEF DayTimer, groupVars
  <2> QED BY <2>2, <2>3
<1>6. Waiting' /\ Timed'
  <2>1. CASE SendAndWait /\ redirected' = FALSE
    <3>1. 0 <= fresh + stale
      BY ClientAssumption DEF Waiting
    <3> QED BY <2>1, <3>1, SendTypes DEF SendAndWait, Waiting, Timed
  <2>2. CASE UNCHANGED waitVars
    BY <1>2, <2>2 DEF Waiting, Timed, waitVars
  <2> QED BY <1>1, <2>1, <2>2
<1>7. Doing' /\ Served' /\ Asking' /\ Threads'
  BY <1>2, <1>4, <1>5 DEF Doing, Served, Asking, Threads, pageVars, taskVars, msgVars
<1>8. NoFallback
  BY <1>2, SameTasks DEF Doing, taskVars
<1> QED BY <1>6, <1>7, <1>8 DEF Fine

LEMMA OnReceiveTimerStep ==
  ASSUME ClientInv, OnReceiveTimer
  PROVE  Fine
<1> USE DEF ClientInv
<1>1. /\ receiveTimer /\ receiveTimer' = FALSE /\ downloadPhase' = "nothing" /\ msgThread = "run"
      /\ PostTask("fallback") \/ UNCHANGED tasks
      /\ UNCHANGED <<answered, redirected, fresh, stale, pageVars, groupVars, current,
                     taskThread, msgVars, timer, idle, force, dayAge, mainThread, canRun>>
  BY DEF OnReceiveTimer, TimerTurn
<1>2. ~answered
  BY <1>1 DEF Waiting
<1>3. tasks' \in Seq(Task)
  BY <1>1, PostTaskTypes DEF Doing, Task
<1>4. Doing' /\ Served' /\ Asking' /\ Threads'
  BY <1>1, <1>3 DEF Doing, Served, Asking, Threads, pageVars, groupVars, msgVars
<1>5. Waiting' /\ Timed'
  BY <1>1 DEF Waiting, Timed
<1> QED BY <1>2, <1>4, <1>5 DEF Fine

LEMMA OnSocketReceiveStep ==
  ASSUME ClientInv, OnSocketReceive
  PROVE  Fine
<1> USE DEF ClientInv
<1>1. /\ Arrives /\ OnResponseReceive /\ msgThread = "run"
      /\ downloadPhase' = "nothing" /\ receiveTimer' = FALSE /\ redirected' = FALSE
      /\ UNCHANGED <<current, taskThread, msgVars, timer, dayAge, mainThread, canRun>>
  BY DEF OnSocketReceive, EndWait, Arrives
<1>2. Doing' /\ Served' /\ NoFallback /\ idle' \in Request /\ force' \in Request
  BY <1>1, ResponseTypes
<1>3. fresh' \in 0 .. TaskCountEachUser /\ stale' \in 0 .. MaxStale /\ answered' \in BOOLEAN
  <2>1. CASE fresh > 0 /\ fresh' = fresh - 1 /\ answered' = TRUE /\ UNCHANGED stale
    BY <2>1, ClientAssumption DEF Waiting
  <2>2. CASE stale > 0 /\ stale' = stale - 1 /\ UNCHANGED <<fresh, answered>>
    BY <2>2, ClientAssumption DEF Waiting
  <2> QED BY <1>1, <2>1, <2>2 DEF Arrives
<1>4. Waiting' /\ Timed'
  BY <1>1, <1>3 DEF Waiting, Timed
<1>5. Asking' /\ Threads'
  BY <1>1, <1>2 DEF Asking, Threads, msgVars
<1> QED BY <1>2, <1>4, <1>5 DEF Fine

LEMMA OnRedirectStep ==
  ASSUME ClientInv, OnRedirect
  PROVE  Fine
<1> USE DEF ClientInv
<1>1. /\ fresh > 0 \/ stale > 0
      /\ \E d \in DelayTimes : idle' = Delayed(idle, d) /\ force' = Delayed(force, d)
      /\ Send(1) /\ downloadPhase' = "udp" /\ receiveTimer' = FALSE /\ redirected' = TRUE
      /\ UNCHANGED <<pageVars, groupVars, taskVars, msgVars, timer, dayAge, mainThread, canRun>>
      /\ msgThread = "run"
  BY DEF OnRedirect
<1>2. idle' \in Request /\ force' \in Request
  BY <1>1, DelayedTypes DEF Asking
<1>3. 1 <= fresh + stale
  BY <1>1, ClientAssumption DEF Waiting
<1>4. Waiting' /\ Timed'
  BY <1>1, <1>3, SendTypes DEF Waiting, Timed
<1>5. Doing' /\ Served' /\ Asking' /\ Threads'
  BY <1>1, <1>2 DEF Doing, Served, Asking, Threads, pageVars, groupVars, taskVars, msgVars
<1>6. NoFallback
  BY <1>1, SameTasks DEF Doing, taskVars
<1> QED BY <1>4, <1>5, <1>6 DEF Fine

LEMMA OnTimeoutTimerStep ==
  ASSUME ClientInv, OnTimeoutTimer
  PROVE  Fine
<1> USE DEF ClientInv
<1>1. /\ urlInfos' \in 0 .. MAX_MULTIHOP_TASK_COUNT
      /\ \/ browsers' = TRUE /\ timeoutTimer' = TRUE
         \/ urlInfos' = 0 /\ browsers' = FALSE /\ timeoutTimer' = FALSE
  <2>1. CASE urlInfos > 0
    BY <2>1, ClientAssumption DEF OnTimeoutTimer, ClickNext, Doing
  <2>2. CASE ~(urlInfos > 0)
    BY <2>2, ClientAssumption DEF OnTimeoutTimer, Doing
  <2> QED BY <2>1, <2>2
<1>2. /\ msgThread = "run"
      /\ UNCHANGED <<waitVars, groupVars, taskVars, msgVars, timer, idle, force, dayAge,
                     mainThread, canRun>>
  BY DEF OnTimeoutTimer, TimerTurn
<1>3. Doing' /\ Served'
  <2>1. UNCHANGED <<tasks, VisitedGroups, begun>>
    BY <1>2 DEF groupVars, taskVars
  <2>2. browsers' \in BOOLEAN /\ timeoutTimer' \in BOOLEAN
    BY <1>1
  <2>3. Doing'
    BY <1>1, <2>1, <2>2 DEF Doing
  <2>4. Served'
    BY <1>1 DEF Served
  <2> QED BY <2>3, <2>4
<1>4. Waiting' /\ Timed' /\ Asking' /\ Threads'
  BY <1>2, ZenonT(40) DEF Waiting, Timed, Asking, Threads, waitVars, taskVars, msgVars
<1>5. NoFallback
  BY <1>2, SameTasks DEF Doing, taskVars
<1> QED BY <1>3, <1>4, <1>5 DEF Fine

LEMMA RunMessageStep ==
  ASSUME ClientInv, RunMessage
  PROVE  Fine
<1> USE DEF ClientInv
<1>1. /\ msgThread = "run" /\ msgs # <<>> /\ msgs' = Tail(msgs)
      /\ UNCHANGED <<downloadPhase, answered, redirected, fresh, stale, current, taskThread,
                     idle, force, dayAge, mainThread, canRun>>
  BY DEF RunMessage
<1>2. msgs' \in Seq(Msg) /\ msgs[1] \in Msg
  <2>1. msgs \in Seq(Msg)
    BY DEF Threads
  <2> QED BY <1>1, <2>1
<1>3. Asking'
  BY <1>1 DEF Asking
<1>4. CASE msgs[1] # "quit"
  <2>1. UNCHANGED <<msgThread, receiveTimer, timer>>
    <3>1. CASE msgs[1] = "hop"
      BY <3>1 DEF RunMessage
    <3>2. CASE msgs[1] = "ini"
      BY <3>2 DEF RunMessage
    <3> QED BY <1>2, <1>4, <3>1, <3>2 DEF Msg
  <2>2. Doing' /\ Served' /\ NoFallback
    <3>0. 0 \in Groups \cup {0} /\ "hop" \in Kinds /\ "task" \in Kinds /\ Doing /\ Served
      BY <1>1 DEF Kinds
    <3>1. CASE msgs[1] = "hop"
      <4>1. \/ \E g \in Groups \cup {0} : DoTask("hop", g)
            \/ UNCHANGED VisitedGroups /\ Visit(0)
        BY <3>1 DEF RunMessage
      <4>2. CASE \E g \in Groups \cup {0} : DoTask("hop", g)
        BY <3>0, <4>2, DoTaskTypes
      <4>3. CASE UNCHANGED VisitedGroups /\ Visit(0)
        BY <3>0, <4>3, InsertTypes
      <4> QED BY <4>1, <4>2, <4>3
    <3>2. CASE msgs[1] = "ini"
      <4>1. DoNothing \/ \E k \in {"task", "hop"} : DoTask(k, 0)
        BY <3>2 DEF RunMessage
      <4>2. CASE \E k \in {"task", "hop"} : DoTask(k, 0)
        BY <3>0, <4>2, DoTaskTypes
      <4> QED BY <3>0, <4>1, <4>2, DoNothingTypes
    <3> QED BY <1>2, <1>4, <3>1, <3>2 DEF Msg
  <2>3. Waiting' /\ Timed' /\ Threads'
    BY <1>1, <1>2, <2>1 DEF Waiting, Timed, Threads
  <2> QED BY <1>1, <1>3, <2>2, <2>3 DEF Fine
<1>5. CASE msgs[1] = "quit"
  <2>1. UnInitMessageThread
    BY <1>5 DEF RunMessage
  <2>2. Doing' /\ msgThread' = "ended"
    BY <2>1 DEF UnInitMessageThread, Doing, groupVars
  <2>3. Waiting' /\ Threads'
    BY <1>1, <1>2, <2>1 DEF UnInitMessageThread, Waiting, Threads
  <2>4. NoFallback
    BY <2>1, SameTasks DEF UnInitMessageThread, Doing
  <2> QED BY <1>3, <2>2, <2>3, <2>4 DEF Fine
<1> QED BY <1>4, <1>5

-----------------------------------------------------------------------------
(***************************************************************************)
(* The other threads, the network and the machine                          *)
(***************************************************************************)

LEMMA TakeTaskStep ==
  ASSUME ClientInv, TakeTask
  PROVE  Fine
<1> USE DEF ClientInv
<1>1. /\ tasks # <<>> /\ tasks' = Tail(tasks)
      /\ (taskThread' = "ended" /\ current' = current)
           \/ (tasks[1] # "quit" /\ current' = tasks[1] /\ taskThread' = taskThread)
      /\ UNCHANGED <<waitVars, pageVars, groupVars, msgVars, timer, idle, force, dayAge,
                     mainThread, canRun>>
  BY DEF TakeTask
<1>2. /\ tasks \in Seq(Task) /\ tasks' \in Seq(Task) /\ tasks[1] \in Task
      /\ Len(tasks) \in Nat /\ Len(tasks') = Len(tasks) - 1
  BY <1>1 DEF Doing
<1>3. current' \in {"none", "task", "fallback"} /\ taskThread' \in {"run", "ended", "killed"}
  BY <1>1, <1>2 DEF Threads, Task
<1>4. Threads'
  BY <1>1, <1>3 DEF Threads, msgVars
<1>5. Doing' /\ Asking' /\ Waiting'
  BY <1>1, <1>2 DEF Doing, Asking, Waiting, waitVars, pageVars, groupVars
<1>6. (msgThread' = "run" => Served') /\ (msgThread' # "ended" => Timed')
  BY <1>1 DEF Served, Timed, waitVars, pageVars, msgVars
<1>7. NoFallback
  BY <1>2 DEF NoFallback
<1> QED BY <1>4, <1>5, <1>6, <1>7 DEF Fine

\* The steps that change nothing but threads, what is posted to them, and the machine.
LEMMA ThreadStep ==
  ASSUME ClientInv,
         UNCHANGED <<waitVars, pageVars, groupVars, timer, idle, force, dayAge>>,
         msgThread' = msgThread \/ (msgThread' = "killed" /\ msgThread = "run"),
         tasks' \in Seq(Task), NoFallback, Threads'
  PROVE  Fine
<1> USE DEF ClientInv
<1>1. Doing' /\ Asking' /\ Waiting'
  BY DEF Doing, Asking, Waiting, waitVars, pageVars, groupVars
<1>2. (msgThread' = "run" => Served') /\ (msgThread' # "ended" => Timed')
  BY DEF Served, Timed, waitVars, pageVars
<1> QED BY <1>1, <1>2 DEF Fine

LEMMA ThreadSteps ==
  ASSUME ClientInv, EndTask \/ Stop \/ JoinTasks \/ JoinMessages \/ Environment
  PROVE  Fine
<1> USE DEF ClientInv
<1>1. UNCHANGED <<waitVars, pageVars, groupVars, timer, idle, force, dayAge>>
  BY DEF EndTask, Stop, JoinTasks, JoinMessages, Environment
<1>2. msgThread' = msgThread \/ (msgThread' = "killed" /\ msgThread = "run")
  BY DEF EndTask, Stop, JoinTasks, JoinMessages, Environment, msgVars
<1>3. tasks' \in Seq(Task) /\ NoFallback
  <2>1. CASE Stop
    BY <2>1, PostTaskTypes DEF Stop, Doing, Task
  <2>2. CASE EndTask \/ JoinTasks \/ JoinMessages \/ Environment
    <3>1. tasks' = tasks /\ tasks \in Seq(Task)
      BY <2>2 DEF EndTask, JoinTasks, JoinMessages, Environment, taskVars, Doing
    <3> QED BY <3>1, SameTasks
  <2> QED BY <2>1, <2>2
<1>4. Threads'
  <2>1. CASE EndTask
    <3>1. msgs' \in Seq(Msg)
      BY <2>1, PostMessageTypes DEF EndTask, Yield, Threads, Msg
    <3> QED BY <2>1, <3>1 DEF EndTask, Threads
  <2>2. CASE Stop
    BY <2>2 DEF Stop, Threads, msgVars
  <2>3. CASE JoinTasks
    <3>1. msgs' \in Seq(Msg)
      BY <2>3, PostMessageTypes DEF JoinTasks, Threads, Msg
    <3> QED BY <2>3, <3>1 DEF JoinTasks, Threads
  <2>4. CASE JoinMessages
    BY <2>4 DEF JoinMessages, Threads, taskVars
  <2>5. CASE Environment
    <3>1. canRun' \in BOOLEAN
      BY <2>5, Zenon DEF Environment
    <3> QED BY <2>5, <3>1 DEF Environment, Threads, taskVars, msgVars
  <2> QED BY <2>1, <2>2, <2>3, <2>4, <2>5
<1> QED BY <1>1, <1>2, <1>3, <1>4, ThreadStep

LEMMA LoseStep ==
  ASSUME ClientInv, Lose
  PROVE  Fine
<1> USE DEF ClientInv
<1>1. /\ UNCHANGED <<downloadPhase, receiveTimer, answered, redirected, pageVars, groupVars,
                     taskVars, msgVars, timer, idle, force, dayAge, mainThread, canRun>>
      /\ \/ fresh > 0 /\ fresh' = fresh - 1 /\ UNCHANGED stale
         \/ stale > 0 /\ stale' = stale - 1 /\ UNCHANGED fresh
  BY DEF Lose
<1>2. fresh' \in 0 .. TaskCountEachUser /\ stale' \in 0 .. MaxStale
  BY <1>1, ClientAssumption DEF Waiting
<1>3. Waiting'
  BY <1>1, <1>2 DEF Waiting
<1>4. Doing' /\ Asking' /\ Threads'
  BY <1>1 DEF Doing, Asking, Threads, pageVars, groupVars, taskVars, msgVars
<1>5. (msgThread' = "run" => Served') /\ (msgThread' # "ended" => Timed')
  BY <1>1 DEF Served, Timed, pageVars, msgVars
<1>6. NoFallback
  BY <1>1, SameTasks DEF Doing, taskVars
<1> QED BY <1>3, <1>4, <1>5, <1>6 DEF Fine

-----------------------------------------------------------------------------
(***************************************************************************)
(* The theorems                                                            *)
(***************************************************************************)

LEMMA ClientSteps ==
  ASSUME ClientInv, [Next]_vars
  PROVE  Fine
<1>1. CASE UNCHANGED vars
  <2>1. UNCHANGED <<waitVars, pageVars, groupVars, timer, idle, force, dayAge, taskVars, msgVars,
                    mainThread, canRun>>
    BY <1>1 DEF vars
  <2>2. tasks' \in Seq(Task) /\ NoFallback /\ Threads' /\ msgThread' = msgThread
    BY <2>1, SameTasks DEF ClientInv, Doing, Threads, taskVars, msgVars
  <2> QED BY <2>1, <2>2, ThreadStep
<1>2. CASE MessageThread
  BY <1>2, OnAppTimerStep, OnReceiveTimerStep, OnTimeoutTimerStep, OnSocketReceiveStep,
     OnRedirectStep, RunMessageStep DEF MessageThread
<1>3. CASE TakeTask
  BY <1>3, TakeTaskStep
<1>4. CASE EndTask \/ Stop \/ JoinTasks \/ JoinMessages \/ Environment
  BY <1>4, ThreadSteps
<1>5. CASE Lose
  BY <1>5, LoseStep
<1> QED BY <1>1, <1>2, <1>3, <1>4, <1>5 DEF Next

\* The invariant of the client.
THEOREM ClientInvariant == Spec => []ClientInv
<1>1. Init => ClientInv
  <2> SUFFICES ASSUME Init PROVE ClientInv
    OBVIOUS
  <2>1. Doing /\ Served
    <3>1. 0 \in 0 .. MAX_MULTIHOP_TASK_COUNT /\ "task" \in Task
      BY ClientAssumption DEF Task
    <3>2. tasks \in Seq(Task)
      <4>1. <<>> \in Seq(Task)
        OBVIOUS
      <4>2. \A x \in Task : <<x>> \in Seq(Task)
        OBVIOUS
      <4>3. tasks = <<>> \/ tasks = <<"task">>
        BY DEF Init
      <4> QED BY <3>1, <4>1, <4>2, <4>3, Zenon
    <3>3. /\ urlInfos = 0 /\ browsers = FALSE /\ timeoutTimer = FALSE
          /\ VisitedGroups = {} /\ begun = {}
      BY DEF Init
    <3>4. browsers \in BOOLEAN /\ timeoutTimer \in BOOLEAN
      BY <3>3
    <3>5. Doing
      BY <3>1, <3>2, <3>3, <3>4, Zenon DEF Doing
    <3>6. Served
      BY <3>3 DEF Served
    <3> QED BY <3>5, <3>6
  <2>2. Waiting /\ Timed /\ Threads
    <3>1. /\ downloadPhase = "nothing" /\ receiveTimer = FALSE /\ answered = FALSE
          /\ redirected = FALSE /\ fresh = 0 /\ stale = 0
      BY DEF Init
    <3>2. 0 \in 0 .. TaskCountEachUser /\ 0 \in 0 .. MaxStale
      BY ClientAssumption
    <3>3. Waiting /\ Timed
      BY <3>1, <3>2 DEF Waiting, Timed
    <3>4. /\ timer = TRUE /\ canRun \in BOOLEAN /\ current = "none" /\ msgs = <<>>
          /\ mainThread = "up" /\ msgThread = "run" /\ taskThread = "run"
      BY DEF Init
    <3>5. Threads
      BY <3>4 DEF Threads
    <3> QED BY <3>3, <3>5
  <2>3. Asking
    BY ClientAssumption DEF Init, Asking, Request
  <2> QED BY <2>1, <2>2, <2>3 DEF ClientInv
<1>2. ClientInv /\ [Next]_vars => ClientInv'
  BY ClientSteps DEF Fine
<1> QED BY <1>1, <1>2, PTL DEF Spec

\* Every variable keeps its type; the queue of pages keeps its limit.
THEOREM ClientTypes == Spec => []TypeOK
<1>1. ClientInv => TypeOK
  BY DEF ClientInv, Doing, Waiting, Asking, Threads, TypeOK
<1> QED BY <1>1, ClientInvariant, PTL

\* The timer of the wait runs while the client waits and only then, but for a redirect's wait.
THEOREM WaitTimed == Spec => []TimerFollowsWait
<1>1. ClientInv => TimerFollowsWait
  BY DEF ClientInv, Waiting, Timed, TimerFollowsWait
<1> QED BY <1>1, ClientInvariant, PTL

\* No page waits unless one is open whose time runs.
THEOREM PagesServed == Spec => []QueueServed
<1>1. ClientInv => QueueServed
  BY DEF ClientInv, Served, QueueServed
<1> QED BY <1>1, ClientInvariant, PTL

\* The next request names the group of every task begun since the last OnDayTimer: each way of
\* beginning one, with DoTask and without, has inserted its group or has none.
THEOREM GroupsReported == Spec => []VisitedReported
<1>1. ClientInv => VisitedReported
  BY DEF ClientInv, Doing, VisitedReported
<1> QED BY <1>1, ClientInvariant, PTL

\* A request that was answered is not followed by the fallback.
THEOREM FallbackLast == Spec => FallbackOnlyUnanswered
<1>1. ClientInv /\ [Next]_vars =>
        [Len(tasks') = Len(tasks) + 1 /\ Last(tasks') = "fallback" => ~answered]_vars
  BY ClientSteps DEF Fine, NoFallback
<1> QED BY <1>1, ClientInvariant, PTL DEF Spec, FallbackOnlyUnanswered

=============================================================================
