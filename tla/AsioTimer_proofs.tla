-------------------------- MODULE AsioTimer_proofs --------------------------
(***************************************************************************)
(* The assertions of timer.cpp and the late calls, for both kinds of       *)
(* timer, either way of sharing and any number of outstanding handlers.    *)
(* The queues of handlers play no part: what a handler may still do is     *)
(* decided by the flags it finds.                                          *)
(***************************************************************************)
EXTENDS AsioTimer, TLAPS

-----------------------------------------------------------------------------
(***************************************************************************)
(* The inductive invariant                                                 *)
(***************************************************************************)

Flags ==
  /\ kind \in {"once", "periodic"} /\ shared \in BOOLEAN
  /\ armed \in BOOLEAN /\ running \in BOOLEAN /\ detached \in BOOLEAN
  /\ stopped \in BOOLEAN /\ late \in Nat
  /\ upc \in {"idle", "stop", "stopImpl", "disarm", "stopped", "start", "wait", "arm", "run",
              "detach"}
  /\ ipc \in {"idle", "message", "disarm", "tick", "test", "expire", "wait", "arm", "call",
              "callback"}
  /\ upc # "idle" => op \in {"start", "stop", "destroy"}
  /\ ipc \in {"test", "expire", "wait", "arm"} => kind = "periodic"

\* What the owner's calls establish, on whichever thread they run.
Stopped ==
  /\ upc \notin {"idle", "stop"} => ~running
  /\ upc \in {"wait", "arm", "run"} => ~stopped
  /\ (kind = "once" /\ upc \in {"stopped", "start", "wait", "arm", "detach"}) => ~armed
  /\ stopped => ~running
  /\ (stopped /\ kind = "once") => ~armed

\* Places from which the io thread goes on to the call whatever the owner does.
Committed ==
  IF kind = "periodic" THEN {"expire", "wait", "arm", "call"} ELSE {"disarm", "tick", "call"}

Late ==
  /\ late <= 1
  /\ (stopped /\ ipc \in Committed) => late = 0

\* Places past the tests of OnTimerMessage.
Ticking == {"disarm", "tick", "test", "expire", "wait", "arm", "call"}

\* What holds between the two when they are one thread.
OneThread ==
  ~shared =>
    /\ upc # "idle" => ipc \in {"idle", "callback"}
    /\ upc \in {"stopped", "start", "wait", "arm", "detach"} => ~armed
    /\ ipc \in {"tick", "test", "expire", "wait", "arm"} => ~armed
    /\ (kind = "periodic" /\ armed) => (running \/ upc \in {"stopImpl", "disarm", "run"})
    /\ (kind = "periodic" /\ ipc \in Ticking) => running
    /\ (ipc \in Ticking \/ upc # "idle" \/ armed) => ~detached
    /\ stopped => (~armed /\ ipc \notin Ticking)
    /\ late = 0

TimerInv == Flags /\ Stopped /\ Late /\ OneThread

-----------------------------------------------------------------------------
\* The first state satisfies the invariant.
LEMMA InitTimer == ASSUME Init PROVE TimerInv
<1>1. kind \in {"once", "periodic"} /\ shared \in BOOLEAN
  <2>1. kind \in Kinds /\ shared \in Sharing
    BY DEF Init
  <2> QED
    BY <2>1, TimerAssumption
<1>2. Flags /\ Stopped
  BY <1>1 DEF Init, Flags, Stopped
<1>3. Late /\ OneThread
  BY DEF Init, Late, OneThread, Committed, Ticking
<1> QED
  BY <1>2, <1>3 DEF TimerInv

\* Every step of the owner preserves the invariant.
LEMMA OwnerPreserves ==
  ASSUME TimerInv,
         OwnerStep \/ \E o \in {"start", "stop", "destroy"} : Call(o)
  PROVE  TimerInv'
<1> USE DEF TimerInv, Flags, Stopped, Late, OneThread, Committed, Ticking, Owner, flagVars,
            historyVars
<1>1. ASSUME NEW o \in {"start", "stop", "destroy"}, Call(o) PROVE TimerInv'
  BY <1>1 DEF Call, OwnerMayRun
<1>2. ASSUME OwnerStep PROVE TimerInv'
  <2>0. UNCHANGED <<kind, shared, ipc>>
    BY <1>2 DEF OwnerStep
  <2>1. CASE StopRunning
    BY <2>0, <2>1, ZenonT(40) DEF StopRunning
  <2>2. CASE StopImpl
    BY <2>0, <2>2 DEF StopImpl
  <2>3. CASE StopDisarm
    BY <2>0, <2>3 DEF StopDisarm
  <2>4. CASE StopReturns
    <3>1. /\ op = "stop" => upc' = "idle"
          /\ op = "start" => upc' = "start"
          /\ op = "destroy" => upc' = "detach"
      BY <2>4 DEF StopReturns
    <3> QED
      BY <2>0, <2>4, <3>1 DEF StopReturns
  <2>5. CASE DoStart
    BY <2>0, <2>5 DEF DoStart
  <2>6. CASE StartWait
    BY <2>0, <2>6 DEF StartWait
  <2>7. CASE StartArm
    BY <2>0, <2>7 DEF StartArm
  <2>8. CASE StartRunning
    BY <2>0, <2>8 DEF StartRunning
  <2>9. CASE Detach
    BY <2>0, <2>9 DEF Detach
  <2> QED
    BY <1>2, <2>1, <2>2, <2>3, <2>4, <2>5, <2>6, <2>7, <2>8, <2>9 DEF OwnerStep
<1> QED
  BY <1>1, <1>2

\* Every step of the io thread preserves the invariant.
LEMMA IoPreserves == ASSUME TimerInv, IoStep PROVE TimerInv'
<1> USE DEF TimerInv, Flags, Stopped, Late, OneThread, Committed, Ticking, Io, flagVars,
            historyVars
<1>0. UNCHANGED <<kind, shared, op, upc>> /\ (shared \/ upc = "idle")
  BY DEF IoStep, IoMayRun
<1>1. CASE Dispatch
  BY <1>0, <1>1 DEF Dispatch
<1>2. CASE OnTimerMessage
  BY <1>0, <1>2 DEF OnTimerMessage
<1>3. CASE Disarm
  BY <1>0, <1>3 DEF Disarm
<1>4. CASE OnTimer
  BY <1>0, <1>4 DEF OnTimer
<1>5. CASE TestRunning
  BY <1>0, <1>5 DEF TestRunning
<1>6. CASE RestartExpires
  BY <1>0, <1>6 DEF RestartExpires
<1>7. CASE RestartWait
  BY <1>0, <1>7 DEF RestartWait
<1>8. CASE RestartArm
  BY <1>0, <1>8 DEF RestartArm
<1>9. CASE Callback
  BY <1>0, <1>9 DEF Callback
<1>10. CASE CallbackReturns
  BY <1>0, <1>10 DEF CallbackReturns
<1> QED
  BY <1>1, <1>2, <1>3, <1>4, <1>5, <1>6, <1>7, <1>8, <1>9, <1>10 DEF IoStep

\* The invariant holds in every reachable state.
LEMMA TimerInvariant == Spec => []TimerInv
<1>1. TimerInv /\ [Next]_vars => TimerInv'
  <2> SUFFICES ASSUME TimerInv, [Next]_vars PROVE TimerInv'
    OBVIOUS
  <2>1. ASSUME Expire \/ UNCHANGED vars PROVE TimerInv'
    <3>1. UNCHANGED <<kind, shared, armed, running, detached, op, upc, ipc, stopped, late>>
      BY <2>1 DEF Expire, vars, flagVars, historyVars
    <3>2. Flags' /\ Stopped'
      BY <3>1 DEF TimerInv, Flags, Stopped
    <3>3. Late' /\ OneThread'
      BY <3>1 DEF TimerInv, Late, OneThread, Committed, Ticking
    <3> QED
      BY <3>2, <3>3 DEF TimerInv
  <2> QED
    BY <2>1, OwnerPreserves, IoPreserves DEF Next
<1>2. Init => TimerInv
  BY InitTimer
<1> QED
  BY <1>1, <1>2, PTL DEF Spec

\* Theorem: with the owner on the io thread no assertion of timer.cpp ever fails.
THEOREM AssertionsNeverFail == Spec => []AssertsHold
<1>1. TimerInv => AssertsHold
  BY DEF TimerInv, Flags, Stopped, OneThread, Ticking, AssertsHold, IsStarted
<1> QED
  BY <1>1, TimerInvariant, PTL

\* Theorem: after Stop has returned the listener is called at most once, and not at all
\* when Stop ran on the io thread.
THEOREM LateCallsBounded == Spec => []AtMostOneLateCall
<1>1. TimerInv => AtMostOneLateCall
  BY DEF TimerInv, Flags, Late, OneThread, AtMostOneLateCall
<1> QED
  BY <1>1, TimerInvariant, PTL
-----------------------------------------------------------------------------
(***************************************************************************)
(* The handlers outstanding, and the count of calls                        *)
(***************************************************************************)

\* One each if io may start the wait again that it handles, if the owner's call starts one,
\* and if the next statement of either does.
IoDue == IF ipc \in {"message", "disarm", "tick", "test", "expire", "wait"} THEN 1 ELSE 0
OwnerDue ==
  IF op = "start" /\ upc \in {"stop", "stopImpl", "disarm", "stopped", "start", "wait"} THEN 1 ELSE 0
IoNext == IF ipc = "wait" THEN 1 ELSE 0
OwnerNext == IF upc = "wait" THEN 1 ELSE 0

Queues ==
  /\ waits \in Nat /\ ready \in Seq(BOOLEAN) /\ handler \in BOOLEAN
  /\ waits + IoNext + OwnerNext <= 2
  /\ waits + Len(ready) + IoDue + OwnerDue <= MaxHandlers + 1
  /\ op \in {"none", "start", "stop", "destroy"}
  /\ upc = "idle" => op = "none"
  /\ upc \in {"start", "wait"} => op = "start"

\* A call that was counted and not made is on its way.
Counted ==
  /\ times \in 0 .. Width - 1 /\ calls \in 0 .. Width - 1 /\ promised \in BOOLEAN
  /\ ~shared /\ kind = "periodic" =>
       times = IF ipc \in {"test", "expire", "wait", "arm", "call"}
               THEN (calls + 1) % Width ELSE calls

LEMMA EndedWaits ==
  ASSUME waits \in Nat, NEW b \in BOOLEAN
  PROVE  Ended(b) \in Seq(BOOLEAN) /\ Len(Ended(b)) = waits
<1>1. Ended(b) \in [1 .. waits -> BOOLEAN]
  BY DEF Ended
<1> QED BY <1>1

\* The waits become handlers, and are as many.
LEMMA CancelCounts ==
  ASSUME waits \in Nat, ready \in Seq(BOOLEAN), NEW b \in BOOLEAN,
         ready' = ready \o Ended(b), waits' = 0
  PROVE  ready' \in Seq(BOOLEAN) /\ Len(ready') = waits + Len(ready) /\ Len(ready) \in Nat
<1>1. PICK e \in Seq(BOOLEAN) : e = Ended(b) /\ Len(e) = waits
  BY EndedWaits
<1>2. Len(ready) \in Nat /\ ready \o e \in Seq(BOOLEAN) /\ Len(ready \o e) = Len(ready) + Len(e)
  OBVIOUS
<1> QED BY <1>1, <1>2

LEMMA QueuesKept ==
  ASSUME Queues, TimerInv, [Next]_vars
  PROVE  Queues'
<1> USE DEF Owner, Io
<1>0. /\ waits \in Nat /\ ready \in Seq(BOOLEAN) /\ handler \in BOOLEAN /\ Len(ready) \in Nat
      /\ MaxHandlers \in Nat
  BY TimerAssumption DEF Queues
<1>1. ASSUME UNCHANGED <<waits, ready>>, handler' \in BOOLEAN,
             op' \in {"none", "start", "stop", "destroy"},
             upc' = "idle" => op' = "none", upc' \in {"start", "wait"} => op' = "start",
             IoDue' <= IoDue, IoNext' <= IoNext, OwnerNext' <= OwnerNext, OwnerDue' <= OwnerDue
      PROVE  Queues'
  BY <1>0, <1>1 DEF Queues, IoDue, IoNext, OwnerNext, OwnerDue
<1>2. ASSUME NEW o \in {"start", "stop", "destroy"}, Call(o)
      PROVE  Queues'
  BY <1>0, <1>2 DEF Call, Queues, IoDue, OwnerDue, IoNext, OwnerNext
<1>3. ASSUME OwnerStep
      PROVE  Queues'
  <2>0. UNCHANGED <<kind, shared, ipc>>
    BY <1>3 DEF OwnerStep
  <2>1. CASE StopRunning \/ StopDisarm \/ StartArm \/ StartRunning \/ Detach
    BY <1>0, <1>1, <2>0, <2>1
      DEF StopRunning, StopDisarm, StartArm, StartRunning, Detach, Queues, IoDue, OwnerDue,
          IoNext, OwnerNext
  <2>2. CASE StopReturns
    <3>1. /\ op = "stop" => upc' = "idle"
          /\ op = "start" => upc' = "start"
          /\ op = "destroy" => upc' = "detach"
      BY <2>2 DEF StopReturns
    <3>2. op \in {"start", "stop", "destroy"}
      BY <2>2 DEF StopReturns, TimerInv, Flags
    <3> QED BY <1>0, <1>1, <2>0, <2>2, <3>1, <3>2
      DEF StopReturns, Queues, IoDue, OwnerDue, IoNext, OwnerNext
  <2>3. CASE StopImpl
    <3>1. CASE ~armed
      BY <1>0, <1>1, <2>0, <2>3, <3>1 DEF StopImpl, Queues, IoDue, OwnerDue, IoNext, OwnerNext
    <3>2. CASE armed
      <4>1. ready' \in Seq(BOOLEAN) /\ Len(ready') = waits + Len(ready) /\ waits' = 0
        BY <1>0, <2>3, <3>2, CancelCounts DEF StopImpl, Cancel
      <4> QED BY <1>0, <2>0, <2>3, <3>2, <4>1
        DEF StopImpl, Queues, IoDue, OwnerDue, IoNext, OwnerNext
    <3> QED BY <3>1, <3>2
  <2>4. CASE DoStart
    <3>1. ready' \in Seq(BOOLEAN) /\ Len(ready') = waits + Len(ready) /\ waits' = 0
      BY <1>0, <2>4, CancelCounts DEF DoStart, Cancel
    <3> QED BY <1>0, <2>0, <2>4, <3>1 DEF DoStart, Queues, IoDue, OwnerDue, IoNext, OwnerNext
  <2>5. CASE StartWait
    BY <1>0, <2>0, <2>5 DEF StartWait, AsyncWait, Queues, IoDue, OwnerDue, IoNext, OwnerNext
  <2> QED BY <1>3, <2>1, <2>2, <2>3, <2>4, <2>5 DEF OwnerStep
<1>4. ASSUME IoStep
      PROVE  Queues'
  <2>0. UNCHANGED <<kind, shared, op, upc>>
    BY <1>4 DEF IoStep
  <2>1. CASE \/ OnTimerMessage \/ Disarm \/ OnTimer \/ TestRunning \/ RestartArm \/ Callback
             \/ CallbackReturns
    BY <1>0, <1>1, <2>0, <2>1
      DEF OnTimerMessage, Disarm, OnTimer, TestRunning, RestartArm, Callback, CallbackReturns,
          Queues, IoDue, OwnerDue, IoNext, OwnerNext
  <2>2. CASE Dispatch
    <3>1. ready' \in Seq(BOOLEAN) /\ Len(ready') = Len(ready) - 1 /\ handler' \in BOOLEAN
      BY <1>0, <2>2 DEF Dispatch
    <3> QED BY <1>0, <2>0, <2>2, <3>1 DEF Dispatch, Queues, IoDue, OwnerDue, IoNext, OwnerNext
  <2>3. CASE RestartExpires
    <3>1. ready' \in Seq(BOOLEAN) /\ Len(ready') = waits + Len(ready) /\ waits' = 0
      BY <1>0, <2>3, CancelCounts DEF RestartExpires, Cancel
    <3> QED BY <1>0, <2>0, <2>3, <3>1
      DEF RestartExpires, Queues, IoDue, OwnerDue, IoNext, OwnerNext
  <2>4. CASE RestartWait
    BY <1>0, <2>0, <2>4 DEF RestartWait, AsyncWait, Queues, IoDue, OwnerDue, IoNext, OwnerNext
  <2> QED BY <1>4, <2>1, <2>2, <2>3, <2>4 DEF IoStep
<1>5. CASE Expire
  <2>1. ready' \in Seq(BOOLEAN) /\ Len(ready') = waits + Len(ready) /\ waits' = 0
    BY <1>0, <1>5, CancelCounts DEF Expire
  <2>2. UNCHANGED <<op, upc, ipc, handler>>
    BY <1>5 DEF Expire
  <2>3. IoDue' = IoDue /\ OwnerDue' = OwnerDue /\ IoNext' + OwnerNext' <= 2
    BY <2>2 DEF IoDue, OwnerDue, IoNext, OwnerNext
  <2>4. waits' + Len(ready') = waits + Len(ready)
    BY <1>0, <2>1
  <2>5. waits' + IoNext' + OwnerNext' <= 2
    BY <2>1, <2>3 DEF IoNext, OwnerNext
  <2>6. waits' + Len(ready') + IoDue' + OwnerDue' <= MaxHandlers + 1
    BY <2>3, <2>4 DEF Queues
  <2> QED BY <1>0, <2>1, <2>2, <2>5, <2>6 DEF Queues
<1>6. CASE UNCHANGED vars
  BY <1>0, <1>6 DEF vars, Queues, IoDue, OwnerDue, IoNext, OwnerNext
<1> QED BY <1>2, <1>3, <1>4, <1>5, <1>6 DEF Next

LEMMA CountedKept ==
  ASSUME Counted, TimerInv, [Next]_vars
  PROVE  Counted'
<1> USE DEF Owner, Io
<1>0. Width \in Nat /\ Width >= 2 /\ times \in 0 .. Width - 1 /\ calls \in 0 .. Width - 1
  BY TimerAssumption DEF Counted
<1>1. (times + 1) % Width \in 0 .. Width - 1 /\ (calls + 1) % Width \in 0 .. Width - 1
  BY <1>0
<1>2. ASSUME Expire \/ (\E o \in {"start", "stop", "destroy"} : Call(o)) \/ UNCHANGED vars
      PROVE  Counted'
  <2>1. UNCHANGED <<kind, shared, times, calls, ipc>> /\ promised' \in BOOLEAN
    BY <1>2 DEF Expire, Call, vars, flagVars, historyVars, Counted
  <2> QED BY <2>1 DEF Counted
<1>3. ASSUME OwnerStep
      PROVE  Counted'
  <2>0. UNCHANGED <<kind, shared, ipc>>
    BY <1>3 DEF OwnerStep
  <2>1. CASE StopRunning \/ StopImpl \/ StopDisarm \/ StopReturns \/ StartWait \/ StartArm
             \/ StartRunning \/ Detach
    <3>1. UNCHANGED <<times, calls>> /\ promised' \in BOOLEAN
      BY <2>1 DEF StopRunning, StopImpl, StopDisarm, StopReturns, StartWait, StartArm,
                  StartRunning, Detach, flagVars, historyVars, Counted
    <3> QED BY <2>0, <3>1 DEF Counted
  <2>2. CASE DoStart
    <3>1. times' = 0 /\ calls' = 0 /\ promised' = promised /\ 0 \in 0 .. Width - 1
      BY <1>0, <2>2 DEF DoStart
    <3>2. ~shared => ipc \in {"idle", "callback"}
      BY <2>2 DEF DoStart, TimerInv, OneThread
    <3> QED BY <2>0, <3>1, <3>2 DEF Counted
  <2> QED BY <1>3, <2>1, <2>2 DEF OwnerStep
<1>4. ASSUME IoStep
      PROVE  Counted'
  <2>0. UNCHANGED <<kind, shared, op, upc>>
    BY <1>4 DEF IoStep
  <2>1. CASE Dispatch \/ OnTimerMessage \/ Disarm \/ RestartExpires \/ RestartWait \/ RestartArm
             \/ CallbackReturns
    <3>1. UNCHANGED <<times, calls, promised>>
      BY <2>1 DEF Dispatch, OnTimerMessage, Disarm, RestartExpires, RestartWait, RestartArm,
                  CallbackReturns, flagVars, historyVars
    <3>2. ipc \in {"test", "expire", "wait", "arm", "call"} <=>
            ipc' \in {"test", "expire", "wait", "arm", "call"}
      BY <2>1 DEF Dispatch, OnTimerMessage, Disarm, RestartExpires, RestartWait, RestartArm,
                  CallbackReturns
    <3> QED BY <2>0, <3>1, <3>2 DEF Counted
  <2>2. CASE OnTimer
    <3>1. UNCHANGED <<calls, promised>> /\ ipc = "tick"
      BY <2>2 DEF OnTimer, historyVars
    <3>2. times' = (IF kind = "periodic" THEN (times + 1) % Width ELSE times)
          /\ ipc' = (IF kind = "periodic" THEN "test" ELSE "call")
      BY <2>2 DEF OnTimer
    <3>3. ~shared /\ kind = "periodic" => times = calls
      BY <3>1 DEF Counted
    <3> QED BY <1>0, <1>1, <2>0, <3>1, <3>2, <3>3 DEF Counted
  <2>3. CASE TestRunning
    <3>1. UNCHANGED <<times, calls, promised>> /\ ipc = "test"
      BY <2>3 DEF TestRunning, flagVars, historyVars
    <3>2. ~shared /\ kind = "periodic" => ipc' = "expire"
      BY <2>3 DEF TestRunning, TimerInv, OneThread, Ticking
    <3> QED BY <2>0, <3>1, <3>2 DEF Counted
  <2>4. CASE Callback
    <3>1. times' = times /\ calls' = (calls + 1) % Width /\ ipc = "call" /\ ipc' = "callback"
      BY <2>4 DEF Callback, flagVars
    <3>2. promised' \in BOOLEAN
      BY <2>4, Zenon DEF Callback
    <3> QED BY <1>0, <1>1, <2>0, <3>1, <3>2 DEF Counted
  <2> QED BY <1>4, <2>1, <2>2, <2>3, <2>4 DEF IoStep
<1> QED BY <1>2, <1>3, <1>4 DEF Next

LEMMA CountInvariant == Spec => [](Queues /\ Counted)
<1>1. Init => Queues /\ Counted
  <2> SUFFICES ASSUME Init PROVE Queues /\ Counted
    OBVIOUS
  <2>1. Queues
    <3>1. /\ waits = 0 /\ ready = <<>> /\ handler = TRUE /\ op = "none" /\ upc = "idle"
          /\ ipc = "idle"
      BY DEF Init
    <3>2. ready \in Seq(BOOLEAN) /\ Len(ready) = 0 /\ MaxHandlers \in Nat
      BY <3>1, TimerAssumption
    <3> QED BY <3>1, <3>2 DEF Queues, IoDue, OwnerDue, IoNext, OwnerNext
  <2>2. Counted
    <3>1. times = 0 /\ calls = 0 /\ ipc = "idle" /\ promised = FALSE
      BY DEF Init
    <3>2. times \in 0 .. Width - 1 /\ calls \in 0 .. Width - 1
      BY <3>1, TimerAssumption
    <3>3. promised \in BOOLEAN
      BY <3>1
    <3>4. times = calls /\ ipc \notin {"test", "expire", "wait", "arm", "call"}
      BY <3>1
    <3> QED BY <3>2, <3>3, <3>4, Zenon DEF Counted
  <2> QED BY <2>1, <2>2
<1>2. TimerInv /\ (Queues /\ Counted) /\ [Next]_vars => (Queues /\ Counted)'
  BY QueuesKept, CountedKept
<1> QED BY <1>1, <1>2, TimerInvariant, PTL DEF Spec

\* Theorem: every variable keeps its type, and there are never more than two waits nor more
\* than one handler beyond what the owner may start.
THEOREM HandlersBounded == Spec => []TypeOK
<1>1. TimerInv /\ Queues /\ Counted => TypeOK
  <2> SUFFICES ASSUME TimerInv, Queues, Counted PROVE TypeOK
    OBVIOUS
  <2>1. waits \in 0 .. 2 /\ ready \in Seq(BOOLEAN) /\ waits + Len(ready) <= MaxHandlers + 1
    <3>1. waits \in Nat /\ Len(ready) \in Nat /\ MaxHandlers \in Nat
      BY TimerAssumption DEF Queues
    <3> QED BY <3>1 DEF Queues, IoDue, OwnerDue, IoNext, OwnerNext
  <2>2. handler \in BOOLEAN /\ op \in {"none", "start", "stop", "destroy"}
    BY DEF Queues
  <2> QED BY <2>1, <2>2 DEF TimerInv, Flags, Counted, TypeOK
<1> QED BY <1>1, TimerInvariant, CountInvariant, PTL

\* Theorem: GetTimes is the number of calls, modulo what it is counted to.
THEOREM TimesRight == Spec => []TimesCountsCalls
<1>1. Counted => TimesCountsCalls
  BY DEF Counted, TimesCountsCalls
<1> QED BY <1>1, CountInvariant, PTL
=============================================================================
