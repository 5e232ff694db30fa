---------------------------- MODULE MCTipsPacing ----------------------------
(***************************************************************************)
(* A small instance of TipsPacing: up to three tasks, of which a request   *)
(* gets at most two, days of three seconds, curves with a flat start, so   *)
(* that requests come in before a task may be handed out, and one task     *)
(* that only clients of channel 1 in one region get.                       *)
(***************************************************************************)
EXTENDS TipsPacing

Here == [country |-> 1, province |-> 2, city |-> 3]
HereCountry == [country |-> 1, province |-> 0, city |-> 0]
Away == [country |-> 4, province |-> 5, city |-> 6]

MCLimit ==
  [c \in {"slow", "fast"} |->
     [s \in 0 .. 2 |-> IF c = "slow" THEN <<0, 1, 1>>[s + 1] ELSE <<0, 1, 2>>[s + 1]]]

MCHomeCurve == [g \in {1, 2, 3} |-> IF g = 1 THEN "slow" ELSE "fast"]

\* A task for everybody.
Plain(c) ==
  [type |-> 2, groupID |-> 0, rate |-> "never", curve |-> c, star |-> TRUE,
   allow |-> {}, forbid |-> {}, channels |-> {}, requestTypes |-> {},
   minVersion |-> 0, min |-> 0, max |-> 0, total |-> 0]

\* A task of group 7 for channel 1 in one country.
Narrow(c) ==
  [Plain(c) EXCEPT !.groupID = 7, !.rate = "some", !.star = FALSE,
                   !.allow = {HereCountry}, !.channels = {1}]

MCParams == {Plain("slow"), Plain("fast"), Narrow("fast")}

L(g, p) == [guid |-> g, par |-> p]

MCFiles ==
  { <<L(1, Plain("slow")), L(2, Narrow("fast")), L(3, Plain("fast"))>>,
    <<L(2, Plain("fast")), L(1, Unparsable), L(NoGuid, Plain("slow"))>> }

MCBlackFiles == {{}, {<<10, 20>>}}

Request(v, c, ip, net, seen) ==
  [version |-> v, channelID |-> c, ip |-> ip, net |-> net, value |-> 5,
   requestType |-> 0, visited |-> seen]

MCRequests ==
  { Request(5, 1, 10, Here, {}), Request(5, 1, 20, Here, {7}) }

MCQueries == {[hasIp |-> TRUE, net |-> Away, value |-> 5]}
=============================================================================
