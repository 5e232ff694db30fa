----------------------------- MODULE TipsClient -----------------------------
(***************************************************************************)
(* The client (xdll/client/TipsClient): when it asks for a task, how long  *)
(* it waits for the answer, what it does with one, and how its threads     *)
(* pass tasks to each other.                                               *)
(*                                                                         *)
(* The message thread runs a Windows message loop: socket notifications,   *)
(* timers and posted tasks, each handled to its end.  WM_TIMER comes only  *)
(* when no posted message waits.  The task thread runs one posted task     *)
(* after the other.  The main thread starts and stops both.  A task is     *)
(* known by where it runs: "task" on the task thread (which may post a     *)
(* page to visit back), "hop" as a page in the client's own browser, one   *)
(* at a time.  Time is counted at the ticks of OnAppTimer.                 *)
(***************************************************************************)
EXTENDS Integers, Sequences, SequencesExt

CONSTANTS
  Groups,            \* task groups; 0 is "no group"
  DelayTimes,        \* the delays a server may send; 0 is "leave it"
  FirstIdleDelays,   \* m_uDelayTime at the start, drawn at random
  FirstForceDelay,   \* m_uForceDelayTime at the start
  DefaultDelay,      \* either after the first request
  MinDelay,          \* the least delay a server can bring about
  MaxAge,            \* bound: ages are counted up to here
  MaxElapsed,        \* bound: the time between two ticks of OnAppTimer
  Day,               \* 24*60*60*1000
  MAX_MULTIHOP_TASK_COUNT,
  TaskCountEachUser, \* answers the server sends to one request
  MaxStale,          \* bound: answers to earlier requests still on their way
  MaxTasks, MaxMsgs  \* bounds of the posted queues

ASSUME ClientAssumption ==
  /\ Groups \subseteq Nat \ {0}
  /\ DelayTimes \subseteq Nat /\ FirstIdleDelays \subseteq Nat \ {0}
  /\ FirstForceDelay \in Nat \ {0} /\ DefaultDelay \in Nat \ {0} /\ MinDelay \in Nat \ {0}
  /\ \A d \in DelayTimes \cup FirstIdleDelays \cup {FirstForceDelay, DefaultDelay, MinDelay} : d <= MaxAge
  /\ MaxAge \in Nat /\ MaxElapsed \in Nat \ {0} /\ Day \in Nat
  /\ MAX_MULTIHOP_TASK_COUNT \in Nat \ {0} /\ TaskCountEachUser \in Nat /\ MaxStale \in Nat
  /\ MaxTasks \in Nat \ {0} /\ MaxMsgs \in Nat \ {0}

VARIABLES
  downloadPhase,     \* m_downloadPhase: "nothing" or "udp"
  receiveTimer,      \* m_receiveTimer is started
  timer,             \* m_timer is started
  idle, force,       \* the two kinds of request: not yet made, delay, age of the last
  dayAge,            \* now - m_LastTickCount
  VisitedGroups,     \* m_RequestInfo.VisitedGroups
  urlInfos,          \* the length of m_urlInfos
  browsers,          \* m_browsers is not empty
  timeoutTimer,      \* m_timeoutTimer is started
  tasks, current,    \* posted to the task thread; the task it runs, or "none"
  msgs,              \* posted to the message thread
  mainThread, msgThread, taskThread,
  canRun,            \* what CanTipsRun returns
  fresh, stale,      \* answers on their way to the last request and to earlier ones
  answered,          \* history: an answer to the last request has come
  redirected,        \* history: the wait was begun by a redirect
  begun              \* history: groups of the tasks begun since the last OnDayTimer

waitVars == <<downloadPhase, receiveTimer, answered, redirected, fresh, stale>>
pageVars == <<urlInfos, browsers, timeoutTimer>>
groupVars == <<VisitedGroups, begun>>
taskVars == <<tasks, current, taskThread>>
msgVars == <<msgs, msgThread>>
vars == <<waitVars, pageVars, groupVars, taskVars, msgVars, timer, idle, force, dayAge,
          mainThread, canRun>>

Task == {"task", "fallback", "quit"}
Msg == {"hop", "ini", "quit"}
Kinds == {"task", "iut", "update", "hop"}
Request == [hasNot : BOOLEAN, delay : 1 .. MaxAge, age : 0 .. MaxAge]

Least(a, b) == IF a < b THEN a ELSE b
Greatest(a, b) == IF a < b THEN b ELSE a

\* InitMessageThread, its first OnAppTimer included, which finds no request due.  The
\* download of the user agents is lost if the task thread has no message queue yet.
Init ==
  /\ downloadPhase = "nothing" /\ receiveTimer = FALSE /\ timer = TRUE
  /\ \E d \in FirstIdleDelays : idle = [hasNot |-> TRUE, delay |-> d, age |-> 0]
  /\ force = [hasNot |-> TRUE, delay |-> FirstForceDelay, age |-> 0]
  /\ dayAge = 0 /\ VisitedGroups = {}
  /\ urlInfos = 0 /\ browsers = FALSE /\ timeoutTimer = FALSE
  /\ tasks \in {<<>>, <<"task">>} /\ current = "none" /\ msgs = <<>>
  /\ mainThread = "up" /\ msgThread = "run" /\ taskThread = "run"
  /\ canRun \in BOOLEAN /\ fresh = 0 /\ stale = 0
  /\ answered = FALSE /\ redirected = FALSE /\ begun = {}

-----------------------------------------------------------------------------
(***************************************************************************)
(* Asking for a task                                                       *)
(***************************************************************************)

TimerTurn == msgThread = "run" /\ msgs = <<>>

\* A request goes out, after n answers were taken; the server may answer it or not.
Send(n) ==
  /\ answered' = FALSE
  /\ fresh' \in 0 .. TaskCountEachUser
  /\ stale' = Least(stale + fresh - n, MaxStale)

SendAndWait ==
  /\ Send(0)
  /\ downloadPhase' = "udp" /\ receiveTimer' = TRUE

Asked(r) ==
  [hasNot |-> FALSE, delay |-> IF r.hasNot THEN DefaultDelay ELSE r.delay, age |-> 0]

Aged(r, t) == [r EXCEPT !.age = Least(@ + t, MaxAge)]

\* OnDayTimer, when more than a day has passed.
DayTimer(t) ==
  IF dayAge + t > Day
  THEN dayAge' = 0 /\ VisitedGroups' = {} /\ begun' = {}
  ELSE dayAge' = dayAge + t /\ UNCHANGED groupVars

\* Mutant: the tick that finds the client waiting is the last one.
StartTimerUnlessWaiting == timer' = (downloadPhase = "nothing")

StartTimer == timer' = TRUE

\* OnAppTimer, t after the last one; its test of m_udp never fails.
OnAppTimer ==
  /\ TimerTurn /\ timer
  /\ \E t \in 1 .. MaxElapsed, inputIdle \in BOOLEAN :
       LET mayAsk == canRun /\ downloadPhase = "nothing"
           asksForce == mayAsk /\ Aged(force, t).age >= force.delay
           asksIdle == mayAsk /\ ~asksForce /\ inputIdle /\ Aged(idle, t).age >= idle.delay
       IN /\ force' = IF asksForce THEN Asked(force) ELSE Aged(force, t)
          /\ idle' = IF asksIdle THEN Asked(idle) ELSE Aged(idle, t)
          /\ IF asksForce \/ asksIdle
             THEN SendAndWait /\ redirected' = FALSE
             ELSE UNCHANGED waitVars
          /\ DayTimer(t)
  /\ StartTimer
  /\ UNCHANGED <<pageVars, taskVars, msgVars, mainThread, canRun>>

\* PostThreadMessage to the task thread; to an ended thread it fails.
PostTask(t) == tasks' = IF taskThread = "run" THEN Append(tasks, t) ELSE tasks

RoomForTask == Len(tasks) < MaxTasks

\* OnReceiveTimer: the wait is over, the fallback file is fetched over HTTP instead.
OnReceiveTimer ==
  /\ TimerTurn /\ receiveTimer /\ RoomForTask
  /\ receiveTimer' = FALSE
  /\ downloadPhase' = "nothing"
  /\ IF downloadPhase = "udp" THEN PostTask("fallback") ELSE UNCHANGED tasks
  /\ UNCHANGED <<answered, redirected, fresh, stale, pageVars, groupVars, current,
                 taskThread, msgVars, timer, idle, force, dayAge, mainThread, canRun>>

-----------------------------------------------------------------------------
(***************************************************************************)
(* Doing tasks                                                             *)
(***************************************************************************)

InsertVisitedGroup(g) == VisitedGroups' = IF g > 0 THEN VisitedGroups \cup {g} ELSE VisitedGroups

\* Mutant: the page stays in the queue.
ClickNextKeepsPage(n) == urlInfos' = n /\ browsers' = TRUE /\ timeoutTimer' = TRUE

\* ClickUrl for the page at the front of a queue of length n.
ClickNext(n) ==
  /\ urlInfos' = n - 1
  /\ browsers' = TRUE /\ timeoutTimer' = TRUE

\* Mutant: the queue has no limit.
DoMultiHopTaskUnlimited ==
  IF browsers
  THEN urlInfos' = urlInfos + 1 /\ UNCHANGED <<browsers, timeoutTimer>>
  ELSE ClickNext(urlInfos + 1)

DoMultiHopTask ==
  LET n == Least(urlInfos + 1, MAX_MULTIHOP_TASK_COUNT)
  IN IF browsers
     THEN urlInfos' = n /\ UNCHANGED <<browsers, timeoutTimer>>
     ELSE ClickNext(n)

\* A task is begun: here, on the task thread or as a page.  The history is kept here and not
\* where a group is inserted.
Begins(g) == begun' = IF g > 0 THEN begun \cup {g} ELSE begun

RunHere(g) == Begins(g) /\ UNCHANGED <<pageVars, tasks>>
Post(g) == Begins(g) /\ RoomForTask /\ PostTask("task") /\ UNCHANGED pageVars
Visit(g) == Begins(g) /\ DoMultiHopTask /\ UNCHANGED tasks
BeginsNot == UNCHANGED <<begun, pageVars, tasks>>

DoNothing == BeginsNot /\ UNCHANGED VisitedGroups

\* DoTask for a task of kind k and group g.  An update has no group.  A "hop" without a URL,
\* hops or rules is dropped; one whose hops or rules cannot be parsed counts as visited.
DoTask(k, g) ==
  \/ k = "task" /\ InsertVisitedGroup(g) /\ Post(g)
  \/ k = "iut" /\ InsertVisitedGroup(g) /\ RunHere(g)
  \/ k = "update" /\ UNCHANGED VisitedGroups /\ Post(0)
  \/ k = "hop" /\ DoNothing
  \/ k = "hop" /\ InsertVisitedGroup(g) /\ (Visit(g) \/ BeginsNot)

\* Mutant: the group is left to the DoTask of what the file names.
DoConfigInsertsNot(g) ==
  \/ DoNothing
  \/ DoTask("task", g) \/ DoTask("hop", g)
  \/ UNCHANGED VisitedGroups /\ Visit(g)

\* DoTask(ConfigTaskInfo): the file is of no use, names a task of the .ini kind, whose DoTask
\* inserts at most the same group again, or a page of the .xml kind, which has no DoTask.
DoConfig(g) == InsertVisitedGroup(g) /\ (BeginsNot \/ Post(g) \/ Visit(g))

\* The delay a server asks for, in both kinds of request that were made already.
Delayed(r, d) ==
  IF d # 0 /\ ~r.hasNot /\ r.delay # d THEN [r EXCEPT !.delay = Greatest(d, MinDelay)] ELSE r

\* OnResponseReceive, but for a redirect.
OnResponseReceive ==
  \/ DoNothing /\ UNCHANGED <<idle, force>>           \* not to be parsed
  \/ \E d \in DelayTimes :
       /\ idle' = Delayed(idle, d) /\ force' = Delayed(force, d)
       /\ \/ DoNothing                                \* empty, or of no use
          \/ \E k \in Kinds, g \in Groups \cup {0} : DoTask(k, g)
          \/ \E g \in Groups \cup {0} : DoConfig(g)

\* An answer arrives, of whatever request.
Arrives ==
  /\ msgThread = "run"
  /\ \/ fresh > 0 /\ fresh' = fresh - 1 /\ answered' = TRUE /\ UNCHANGED stale
     \/ stale > 0 /\ stale' = stale - 1 /\ UNCHANGED <<fresh, answered>>

\* Mutant: the timer goes on after the answer.
EndWaitKeepsTimer ==
  downloadPhase' = "nothing" /\ redirected' = FALSE /\ UNCHANGED receiveTimer

\* Mutant: the answer does not end the wait.
EndWaitNot == UNCHANGED <<downloadPhase, receiveTimer, redirected>>

\* The statements of OnSocketReceive before and after OnResponseReceive.
EndWait == downloadPhase' = "nothing" /\ receiveTimer' = FALSE /\ redirected' = FALSE

\* OnSocketReceive.
OnSocketReceive ==
  /\ Arrives
  /\ OnResponseReceive
  /\ EndWait
  /\ UNCHANGED <<current, taskThread, msgVars, timer, dayAge, mainThread,
                 canRun>>

\* OnSocketReceive of a redirect: it asks the other server and starts m_receiveTimer, which
\* OnSocketReceive stops before it returns.
OnRedirect ==
  /\ msgThread = "run"
  /\ fresh > 0 \/ stale > 0
  /\ \E d \in DelayTimes : idle' = Delayed(idle, d) /\ force' = Delayed(force, d)
  /\ Send(1)
  /\ downloadPhase' = "udp"
  /\ receiveTimer' = FALSE
  /\ redirected' = TRUE
  /\ UNCHANGED <<pageVars, groupVars, taskVars, msgVars, timer, dayAge, mainThread, canRun>>

\* The network drops an answer.
Lose ==
  /\ \/ fresh > 0 /\ fresh' = fresh - 1 /\ UNCHANGED stale
     \/ stale > 0 /\ stale' = stale - 1 /\ UNCHANGED fresh
  /\ UNCHANGED <<downloadPhase, receiveTimer, answered, redirected, pageVars, groupVars,
                 taskVars, msgVars, timer, idle, force, dayAge, mainThread, canRun>>

\* Mutant: the page is closed, the next one is not visited.
OnTimeoutTimerOnlyCloses ==
  /\ TimerTurn /\ timeoutTimer
  /\ browsers' = FALSE /\ timeoutTimer' = FALSE
  /\ UNCHANGED <<urlInfos, waitVars, groupVars, taskVars, msgVars, timer, idle, force, dayAge,
                 mainThread, canRun>>

\* OnTimeoutTimer: the page has had its time, the next one is visited.
OnTimeoutTimer ==
  /\ TimerTurn /\ timeoutTimer
  /\ IF urlInfos > 0
     THEN ClickNext(urlInfos)
     ELSE browsers' = FALSE /\ timeoutTimer' = FALSE /\ UNCHANGED urlInfos
  /\ UNCHANGED <<waitVars, groupVars, taskVars, msgVars, timer, idle, force, dayAge,
                 mainThread, canRun>>

\* UnInitMessageThread.
UnInitMessageThread ==
  /\ msgThread' = "ended"
  /\ browsers' = FALSE
  /\ timer' = FALSE /\ timeoutTimer' = FALSE /\ receiveTimer' = FALSE
  /\ UNCHANGED <<urlInfos, groupVars, tasks>>

\* The message loop runs a posted task.  A page of a simulation's .xml file has no DoTask and
\* no group, nor has DoIniConfigTask for the fallback's file.
RunMessage ==
  /\ msgThread = "run" /\ msgs # <<>>
  /\ msgs' = Tail(msgs)
  /\ CASE msgs[1] = "hop" -> /\ \/ \E g \in Groups \cup {0} : DoTask("hop", g)
                                \/ UNCHANGED VisitedGroups /\ Visit(0)
                            /\ UNCHANGED <<msgThread, receiveTimer, timer>>
       [] msgs[1] = "ini" -> /\ \/ DoNothing
                               \/ \E k \in {"task", "hop"} : DoTask(k, 0)
                            /\ UNCHANGED <<msgThread, receiveTimer, timer>>
       [] msgs[1] = "quit" -> UnInitMessageThread
  /\ UNCHANGED <<downloadPhase, answered, redirected, fresh, stale, current, taskThread,
                 idle, force, dayAge, mainThread, canRun>>

-----------------------------------------------------------------------------
(***************************************************************************)
(* The task thread, and stopping                                           *)
(***************************************************************************)

\* RunTaskThread takes the next task.
TakeTask ==
  /\ taskThread = "run" /\ current = "none" /\ tasks # <<>>
  /\ tasks' = Tail(tasks)
  /\ IF tasks[1] = "quit"
     THEN taskThread' = "ended" /\ UNCHANGED current
     ELSE current' = tasks[1] /\ UNCHANGED taskThread
  /\ UNCHANGED <<waitVars, pageVars, groupVars, msgVars, timer, idle, force, dayAge,
                 mainThread, canRun>>

PostMessage(m) == msgs' = IF msgThread = "run" THEN Append(msgs, m) ELSE msgs

\* What the task brings the message thread: GetIniConfigTask the file, if it could fetch it;
\* a simulation a page to visit, if it came to one.
Yield(k) ==
  \/ UNCHANGED msgs
  \/ Len(msgs) < MaxMsgs /\ PostMessage(IF k = "fallback" THEN "ini" ELSE "hop")

\* The task's Run returns.
EndTask ==
  /\ taskThread = "run" /\ current # "none"
  /\ Yield(current)
  /\ current' = "none"
  /\ UNCHANGED <<waitVars, pageVars, groupVars, tasks, taskThread, msgThread, timer, idle,
                 force, dayAge, mainThread, canRun>>

\* Stop: RequestStop of the task thread.
Stop ==
  /\ mainThread = "up"
  /\ mainThread' = "joining tasks"
  /\ PostTask("quit")
  /\ UNCHANGED <<waitVars, pageVars, groupVars, current, taskThread, msgVars, timer, idle,
                 force, dayAge, canRun>>

\* The join of the task thread ends, or its two seconds do, and then the thread is killed;
\* RequestStop of the message thread.
JoinTasks ==
  /\ mainThread = "joining tasks"
  /\ mainThread' = "joining messages"
  /\ taskThread' = IF taskThread = "run" THEN "killed" ELSE taskThread
  /\ current' = "none"
  /\ PostMessage("quit")
  /\ UNCHANGED <<waitVars, pageVars, groupVars, tasks, msgThread, timer, idle, force, dayAge,
                 canRun>>

\* The same for the message thread.
JoinMessages ==
  /\ mainThread = "joining messages"
  /\ mainThread' = "down"
  /\ msgThread' = IF msgThread = "run" THEN "killed" ELSE msgThread
  /\ UNCHANGED <<waitVars, pageVars, groupVars, taskVars, msgs, timer, idle, force, dayAge,
                 canRun>>

\* What CanTipsRun looks at changes.
Environment ==
  /\ canRun' = ~canRun
  /\ UNCHANGED <<waitVars, pageVars, groupVars, taskVars, msgVars, timer, idle, force, dayAge,
                 mainThread>>

-----------------------------------------------------------------------------

MessageThread ==
  \/ OnAppTimer \/ OnReceiveTimer \/ OnTimeoutTimer
  \/ OnSocketReceive \/ OnRedirect \/ RunMessage

Next ==
  \/ MessageThread
  \/ TakeTask \/ EndTask
  \/ Stop \/ JoinTasks \/ JoinMessages
  \/ Lose \/ Environment

Spec == Init /\ [][Next]_vars

\* The threads run.  A started timer goes off, also if posted messages come before it time and
\* again: its minutes are long against the handling of a message.  Nobody has to answer, to
\* redirect, or to stop the client.
Fairness ==
  /\ WF_vars(RunMessage) /\ WF_vars(TakeTask) /\ WF_vars(EndTask)
  /\ SF_vars(OnAppTimer) /\ SF_vars(OnReceiveTimer) /\ SF_vars(OnTimeoutTimer)

FairSpec == Spec /\ Fairness

-----------------------------------------------------------------------------
(***************************************************************************)
(* Properties                                                              *)
(***************************************************************************)

\* Every variable keeps its type.
TypeOK ==
  /\ downloadPhase \in {"nothing", "udp"}
  /\ receiveTimer \in BOOLEAN /\ timer \in BOOLEAN /\ timeoutTimer \in BOOLEAN
  /\ idle \in Request /\ force \in Request /\ dayAge \in 0 .. Day
  /\ VisitedGroups \subseteq Groups /\ begun \subseteq Groups
  /\ urlInfos \in 0 .. MAX_MULTIHOP_TASK_COUNT /\ browsers \in BOOLEAN
  /\ tasks \in Seq(Task) /\ current \in {"none", "task", "fallback"}
  /\ msgs \in Seq(Msg)
  /\ mainThread \in {"up", "joining tasks", "joining messages", "down"}
  /\ msgThread \in {"run", "ended", "killed"} /\ taskThread \in {"run", "ended", "killed"}
  /\ canRun \in BOOLEAN /\ answered \in BOOLEAN /\ redirected \in BOOLEAN
  /\ fresh \in 0 .. TaskCountEachUser /\ stale \in 0 .. MaxStale

\* m_receiveTimer runs exactly while the client waits for an answer, whatever answers,
\* timeouts and requests cross each other; but for the wait that a redirect began.  A wait
\* without the timer lasts for good, a timer without a wait fails an assertion of its next Start.
TimerFollowsWait ==
  msgThread # "ended" =>
    /\ receiveTimer => downloadPhase = "udp"
    /\ downloadPhase = "udp" => receiveTimer \/ redirected

\* Every wait for an answer is timed, as the comments at m_receiveTimer and in DoTask say.
WaitIsTimed == msgThread = "run" /\ downloadPhase = "udp" => receiveTimer

\* Nobody waits in m_urlInfos unless a page is open whose time runs: only OnTimeoutTimer and a
\* DoMultiHopTask that finds no page open ever take one out.
QueueServed == msgThread = "run" /\ (urlInfos > 0 \/ browsers) => browsers /\ timeoutTimer

\* No group of a task begun since the last OnDayTimer is missing from the next request: not on
\* the ways that pass DoTask by, and not when a configuration's file leads to a page at once.
VisitedReported == begun \subseteq VisitedGroups

\* The fallback over HTTP is used only when no answer to the last request has come.
FallbackOnlyUnanswered ==
  [][Len(tasks') = Len(tasks) + 1 /\ Last(tasks') = "fallback" => ~answered]_vars

Stranded == downloadPhase = "udp" /\ ~receiveTimer

\* As long as the machine allows it and the client is not stopped it asks again and again,
\* whatever answers come, come late or are lost; but for a redirect whose answer is lost.
KeepsAsking ==
  \/ []<>(~canRun)
  \/ <>(mainThread # "up")
  \/ <>[]Stranded
  \/ []<>(downloadPhase = "udp") /\ []<>(downloadPhase = "nothing")

\* A page that waits in m_urlInfos gets its turn, unless the client is stopped.  (The queue
\* is first in, first out, so it is enough that pages are taken out while any wait.)
PagesGetTheirTurn ==
  \/ []<>(urlInfos = 0 \/ mainThread # "up")
  \/ []<><<urlInfos' < urlInfos>>_vars

=============================================================================
