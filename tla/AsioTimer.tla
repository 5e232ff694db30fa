---------------------------- MODULE AsioTimer ----------------------------
(***************************************************************************)
(* A timer of the asio library of this code: Timer, OnceTimer and          *)
(* PeriodicTimer over TimerImpl over a deadline timer of boost.  One       *)
(* thread, called io here, runs the io_service and with it the handlers of *)
(* the waits; the owner of the timer calls Start and Stop either on that   *)
(* same thread or, as main does with the server's timer, on another one.   *)
(* No lock protects the flags, so every statement that reads or writes one *)
(* is a step.  A failing assert is what a release build makes of it: none. *)
(***************************************************************************)
EXTENDS Integers, Sequences

CONSTANTS
  Kinds,        \* the kinds of timer: "once", "periodic"
  Sharing,      \* {FALSE}: owner on the io thread; {TRUE}: on another
  Width,        \* m_times is counted modulo Width
  MaxHandlers   \* bound: no Start while so many handlers are outstanding

ASSUME TimerAssumption ==
  /\ Kinds \subseteq {"once", "periodic"} /\ Sharing \subseteq BOOLEAN
  /\ Width \in Nat /\ Width >= 2 /\ MaxHandlers \in Nat

VARIABLES
  kind, shared, \* of the timer, chosen once
  armed,        \* TimerImpl::m_started
  running,      \* PeriodicTimer::m_started
  times,        \* PeriodicTimer::m_times
  detached,     \* TimerImpl::m_detached
  waits,        \* how many waits the deadline timer has not ended yet
  ready,        \* handlers the io_service has queued: TRUE if the wait expired, FALSE if
                \* it was cancelled
  op, upc,      \* the owner's call and where it is
  handler, ipc, \* the handler io runs and where it is
  calls,        \* history: listener calls since the last Start, modulo Width
  stopped,      \* history: Stop has returned, and no Start since
  late,         \* history: listener calls begun while stopped
  promised      \* history: Start has returned; no Stop, and no call of a once timer, since

flagVars == <<armed, running, times, detached>>
historyVars == <<calls, stopped, late, promised>>
vars == <<kind, shared, flagVars, waits, ready, op, upc, handler, ipc, historyVars>>

Owner(from, to) == upc = from /\ upc' = to
Io(from, to) == ipc = from /\ ipc' = to

\* Calls on the io thread are made by the listener or by a handler of someone else.
OwnerMayRun == shared \/ ipc \in {"idle", "callback"}
IoMayRun == shared \/ upc = "idle"

IsStarted == IF kind = "periodic" THEN running ELSE armed

Init ==
  /\ kind \in Kinds /\ shared \in Sharing
  /\ armed = FALSE /\ running = FALSE /\ times = 0 /\ detached = FALSE
  /\ waits = 0 /\ ready = <<>>
  /\ op = "none" /\ upc = "idle"
  /\ handler = TRUE /\ ipc = "idle"
  /\ calls = 0 /\ stopped = FALSE /\ late = 0 /\ promised = FALSE

-----------------------------------------------------------------------------
(***************************************************************************)
(* The deadline timer                                                      *)
(***************************************************************************)

Ended(isOk) == [i \in 1 .. waits |-> isOk]

\* cancel, and also expires_at and expires_from_now: every wait ends with
\* operation_aborted; a handler that is queued already is not touched.
Cancel == ready' = ready \o Ended(FALSE) /\ waits' = 0

AsyncWait == waits' = waits + 1 /\ UNCHANGED ready

\* A wait may expire at any time after it was posted.
Expire ==
  /\ waits > 0
  /\ ready' = ready \o Ended(TRUE) /\ waits' = 0
  /\ UNCHANGED <<kind, shared, flagVars, op, upc, handler, ipc, historyVars>>

-----------------------------------------------------------------------------
(***************************************************************************)
(* The owner: Start, Stop and the destructor.  All begin with DoStop.      *)
(***************************************************************************)

Call(o) ==
  /\ OwnerMayRun /\ ~detached
  /\ o = "start" => waits + Len(ready) < MaxHandlers
  /\ o = "destroy" => ~shared
  /\ op' = o /\ Owner("idle", "stop")
  /\ promised' = FALSE
  /\ UNCHANGED <<kind, shared, flagVars, waits, ready, handler, ipc, calls, stopped, late>>

\* PeriodicTimer::DoStop.
StopRunning ==
  /\ Owner("stop", "stopImpl")
  /\ running' = FALSE
  /\ UNCHANGED <<armed, times, detached, waits, ready, op, handler, historyVars>>

\* TimerImpl::Stop reads m_started and cancels.
StopImpl ==
  /\ \/ armed /\ Owner("stopImpl", "disarm") /\ Cancel
     \/ ~armed /\ Owner("stopImpl", "stopped") /\ UNCHANGED <<waits, ready>>
  /\ UNCHANGED <<flagVars, op, handler, historyVars>>

StopDisarm ==
  /\ Owner("disarm", "stopped")
  /\ armed' = FALSE
  /\ UNCHANGED <<running, times, detached, waits, ready, op, handler, historyVars>>

StopReturns ==
  /\ upc = "stopped"
  /\ upc' = [stop |-> "idle", start |-> "start", destroy |-> "detach"][op]
  /\ op' = IF op = "stop" THEN "none" ELSE op
  /\ stopped' = TRUE /\ late' = 0
  /\ UNCHANGED <<flagVars, waits, ready, handler, calls, promised>>

\* Mutant: the count goes on over a Start.
DoStartKeepsTimes ==
  /\ Owner("start", "wait")
  /\ Cancel
  /\ calls' = 0 /\ stopped' = FALSE
  /\ UNCHANGED <<flagVars, op, handler, late, promised>>

\* DoStart up to expires_from_now or expires_at.
DoStart ==
  /\ Owner("start", "wait")
  /\ times' = 0
  /\ Cancel
  /\ calls' = 0 /\ stopped' = FALSE
  /\ UNCHANGED <<armed, running, detached, op, handler, late, promised>>

StartWait ==
  /\ Owner("wait", "arm")
  /\ AsyncWait
  /\ UNCHANGED <<flagVars, op, handler, historyVars>>

\* TimerImpl::AsyncWait sets m_started after the wait has been posted.
StartArm ==
  /\ Owner("arm", "run")
  /\ armed' = TRUE
  /\ UNCHANGED <<running, times, detached, waits, ready, op, handler, historyVars>>

StartRunning ==
  /\ Owner("run", "idle")
  /\ op' = "none"
  /\ running' = (kind = "periodic")
  /\ promised' = TRUE
  /\ UNCHANGED <<armed, times, detached, waits, ready, handler, calls, stopped, late>>

Detach ==
  /\ Owner("detach", "idle") /\ op' = "none"
  /\ detached' = TRUE
  /\ UNCHANGED <<armed, running, times, waits, ready, handler, historyVars>>

OwnerStep ==
  /\ \/ StopRunning \/ StopImpl \/ StopDisarm \/ StopReturns
     \/ DoStart \/ StartWait \/ StartArm \/ StartRunning \/ Detach
  /\ UNCHANGED <<kind, shared, ipc>>

-----------------------------------------------------------------------------
(***************************************************************************)
(* The io thread: TimerImpl::OnTimerMessage and OnTimer                    *)
(***************************************************************************)

Dispatch ==
  /\ ready # <<>> /\ Io("idle", "message")
  /\ handler' = Head(ready) /\ ready' = Tail(ready)
  /\ UNCHANGED <<flagVars, waits, historyVars>>

\* OnTimerMessage returns early, or goes on to call back.
OnTimerMessage ==
  /\ Io("message", IF ~detached /\ handler /\ armed THEN "disarm" ELSE "idle")
  /\ UNCHANGED <<flagVars, waits, ready, handler, historyVars>>

\* Mutant: the flag is left to the callback.
DisarmLater ==
  /\ Io("disarm", "tick")
  /\ UNCHANGED <<flagVars, waits, ready, handler, historyVars>>

Disarm ==
  /\ Io("disarm", "tick")
  /\ armed' = FALSE
  /\ UNCHANGED <<running, times, detached, waits, ready, handler, historyVars>>

\* PeriodicTimer::OnTimer counts first; OnceTimer::OnTimer only calls back.
OnTimer ==
  /\ Io("tick", IF kind = "periodic" THEN "test" ELSE "call")
  /\ times' = IF kind = "periodic" THEN (times + 1) % Width ELSE times
  /\ UNCHANGED <<armed, running, detached, waits, ready, handler, historyVars>>

\* Mutant: a periodic timer always goes on.
TestAlways ==
  /\ Io("test", "expire")
  /\ UNCHANGED <<flagVars, waits, ready, handler, historyVars>>

TestRunning ==
  /\ Io("test", IF running THEN "expire" ELSE "idle")
  /\ UNCHANGED <<flagVars, waits, ready, handler, historyVars>>

\* Mutant: the expiry time is not set, and nothing is cancelled.
RestartKeepsWaits ==
  /\ Io("expire", "wait")
  /\ UNCHANGED <<waits, ready, flagVars, handler, historyVars>>

\* DoStartOnce: StartAt, with the flag set after the wait is posted.
RestartExpires ==
  /\ Io("expire", "wait")
  /\ Cancel
  /\ UNCHANGED <<flagVars, handler, historyVars>>

RestartWait ==
  /\ Io("wait", "arm")
  /\ AsyncWait
  /\ UNCHANGED <<flagVars, handler, historyVars>>

\* Mutant: only StartFromNow sets the flag.
RestartUnarmed ==
  /\ Io("arm", "call")
  /\ UNCHANGED <<flagVars, waits, ready, handler, historyVars>>

RestartArm ==
  /\ Io("arm", "call")
  /\ armed' = TRUE
  /\ UNCHANGED <<running, times, detached, waits, ready, handler, historyVars>>

\* m_callback().
Callback ==
  /\ Io("call", "callback")
  /\ calls' = (calls + 1) % Width
  /\ late' = IF stopped THEN late + 1 ELSE late
  /\ promised' = (promised /\ kind = "periodic")
  /\ UNCHANGED <<flagVars, waits, ready, handler, stopped>>

CallbackReturns ==
  /\ Io("callback", "idle")
  /\ UNCHANGED <<flagVars, waits, ready, handler, historyVars>>

IoStep ==
  /\ IoMayRun
  /\ \/ Dispatch \/ OnTimerMessage \/ Disarm \/ OnTimer \/ TestRunning
     \/ RestartExpires \/ RestartWait \/ RestartArm \/ Callback \/ CallbackReturns
  /\ UNCHANGED <<kind, shared, op, upc>>

-----------------------------------------------------------------------------
Next ==
  \/ \E o \in {"start", "stop", "destroy"} : Call(o)
  \/ OwnerStep \/ IoStep \/ Expire

Spec == Init /\ [][Next]_vars

\* The io thread runs, waits expire, and a call that has begun goes on to its end; the
\* owner need not call anything.
FairSpec == Spec /\ WF_vars(IoStep) /\ WF_vars(Expire) /\ WF_vars(OwnerStep)

-----------------------------------------------------------------------------
(***************************************************************************)
(* Properties                                                              *)
(***************************************************************************)

\* Types, and how many handlers can be outstanding.
TypeOK ==
  /\ kind \in {"once", "periodic"} /\ shared \in BOOLEAN
  /\ armed \in BOOLEAN /\ running \in BOOLEAN /\ detached \in BOOLEAN
  /\ times \in 0 .. Width - 1 /\ calls \in 0 .. Width - 1
  /\ waits \in 0 .. 2 /\ ready \in Seq(BOOLEAN) /\ waits + Len(ready) <= MaxHandlers + 1
  /\ op \in {"none", "start", "stop", "destroy"}
  /\ upc \in {"idle", "stop", "stopImpl", "disarm", "stopped", "start", "wait", "arm", "run",
              "detach"}
  /\ handler \in BOOLEAN
  /\ ipc \in {"idle", "message", "disarm", "tick", "test", "expire", "wait", "arm", "call",
              "callback"}
  /\ stopped \in BOOLEAN /\ late \in Nat /\ promised \in BOOLEAN

\* With the owner on the io thread every assertion of timer.cpp holds whatever the owner
\* does, also in the middle of a callback or with a handler of an earlier Start still
\* queued: a timer that is armed again is not armed, a periodic timer that ticks is
\* running, and one that is destroyed is not started.
AssertsHold ==
  ~shared =>
    /\ (upc = "start" \/ ipc = "expire") => ~armed
    /\ ipc = "test" => running
    /\ upc = "detach" => ~IsStarted
    /\ detached => ~armed

\* After Stop has returned no listener is called, except once when Stop ran on another
\* thread and the io thread was past the tests already; this bounds what a listener
\* like TipsServer::OnAppTimer sees after TipsServer::Stop.
AtMostOneLateCall == late <= IF shared THEN 1 ELSE 0

\* GetTimes, which TipsServer's OnAppTimer takes the remainder of, is the number of the
\* listener calls since Start, also after a Start inside a call or over a queued handler.
TimesCountsCalls ==
  (~shared /\ kind = "periodic" /\ promised /\ ipc \in {"idle", "callback"} /\ upc = "idle")
    => times = calls

\* A timer that was started on the io thread calls its listener, unless its owner calls
\* again: no early return of OnTimerMessage ever loses the only wait.
StartedTimerCalls ==
  (~shared /\ promised) ~> (ipc = "callback" \/ upc # "idle")

=============================================================================
