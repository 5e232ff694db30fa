---------------------------- MODULE TipsPacing ----------------------------
(***************************************************************************)
(* The pacing of TipsServer as long as the edits of Task.txt leave the     *)
(* curve of every task alone: tasks may be added, dropped, dropped by a    *)
(* line that cannot be parsed and added again; the server may be stopped,  *)
(* may crash and start again, and the day counters may be cleared by hand. *)
(***************************************************************************)
EXTENDS TipsServer

CONSTANT HomeCurve    \* the curve of each task

ASSUME HomeCurveAssumption ==
  /\ HomeCurve \in [Guid -> Curve]
  /\ \A f \in Files : \A i \in DOMAIN f :
       (f[i].guid \in Guid /\ f[i].par # Unparsable) =>
         f[i].par.curve = HomeCurve[f[i].guid]

Quota == [g \in Guid |-> Limit[HomeCurve[g]]]

-----------------------------------------------------------------------------
(***************************************************************************)
(* The inductive invariant                                                 *)
(***************************************************************************)

\* A positive limit is the one the last full tick computed.
LimitIsCurrent(g) ==
  taskMap[g].limit > 0 =>
    taskMap[g].limit = Quota[g][lastSecondOfDay] - taskMap[g].start

\* What was handed out before this table entry began to count fits below its start.
CountCovers(g) == dispatched[g] <= taskMap[g].start + taskMap[g].count

\* Today's hand-outs of every task stay within its curve at the last tick.
WithinQuota == \A g \in Guid : dispatched[g] <= Quota[g][lastSecondOfDay]

PacingInv ==
  /\ WithinQuota
  /\ \A g \in DOMAIN taskMap :
       /\ taskMap[g].par.curve = HomeCurve[g]
       /\ LimitIsCurrent(g)
       /\ (Day(clock) = Day(lastTick) \/ taskMap[g].limit > 0) => CountCovers(g)

-----------------------------------------------------------------------------
\* TipsServer implements DailyPacing.
DP == INSTANCE DailyPacing WITH
        PerRequest <- TaskCountEachUser,
        second <- lastSecondOfDay

DPSpec == DP!Spec
=============================================================================
