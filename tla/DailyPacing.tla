---------------------------- MODULE DailyPacing ----------------------------
(***************************************************************************)
(* What the task server promises the owner of the tasks: during a day the  *)
(* number of times a task has been handed out never runs ahead of the      *)
(* task's time curve, one request is answered with a bounded number of     *)
(* tasks, and every day starts from zero again.  Nothing is said here of   *)
(* files, timers, restarts or console commands: TipsServer is shown to     *)
(* implement this module (see TipsPacing).                                 *)
(***************************************************************************)
EXTENDS Integers, FiniteSets

CONSTANTS
  Guid,         \* the tasks
  DayLength,    \* seconds of a day
  PerRequest,   \* most tasks one request is answered with
  Quota         \* Quota[g][s]: how many g may have been handed out at second s

VARIABLES
  second,       \* second of the day the pacing was last adjusted to
  dispatched    \* how often each task has been handed out this day

vars == <<second, dispatched>>

Second == 0 .. DayLength - 1

Init ==
  /\ second \in Second
  /\ dispatched = [g \in Guid |-> 0]

\* The pacing follows the clock forward within the day.
Advance ==
  /\ second' \in Second
  /\ second' >= second
  /\ UNCHANGED dispatched

\* A new day: everything handed out belongs to yesterday.
NewDay ==
  /\ second' \in Second
  /\ dispatched' = [g \in Guid |-> 0]

\* One request is answered with the tasks of S, each of them within its quota.
Dispatch ==
  \E S \in SUBSET Guid :
    /\ Cardinality(S) <= PerRequest
    /\ \A g \in S : dispatched[g] < Quota[g][second]
    /\ dispatched' = [g \in Guid |-> dispatched[g] + IF g \in S THEN 1 ELSE 0]
    /\ UNCHANGED second

Next == Advance \/ NewDay \/ Dispatch

Spec == Init /\ [][Next]_vars
=============================================================================
