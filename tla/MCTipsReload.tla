---------------------------- MODULE MCTipsReload ----------------------------
(***************************************************************************)
(* Small instances of TipsServer for edits of Task.txt: lines that change  *)
(* the curve and the regions of a task, that repeat a guid, that cannot be *)
(* parsed, and a Task.txt that goes missing.                               *)
(***************************************************************************)
EXTENDS TipsServer

Here == [country |-> 1, province |-> 2, city |-> 3]
Away == [country |-> 4, province |-> 5, city |-> 6]
AwayProvince == [country |-> 4, province |-> 5, city |-> 0]

MCLimit ==
  [c \in {"flat", "steep"} |->
     [s \in 0 .. 2 |-> IF c = "flat" THEN <<1, 1, 1>>[s + 1] ELSE <<0, 1, 2>>[s + 1]]]

Everywhere ==
  [type |-> 2, groupID |-> 0, rate |-> "never", curve |-> "steep", star |-> TRUE,
   allow |-> {}, forbid |-> {}, channels |-> {}, requestTypes |-> {0},
   minVersion |-> 3, min |-> 0, max |-> 1, total |-> 2]

NotAway ==
  [Everywhere EXCEPT !.star = FALSE, !.forbid = {AwayProvince}, !.curve = "flat",
                     !.total = 0, !.minVersion = 0, !.requestTypes = {}]

MCParams == {Everywhere, NotAway}

L(g, p) == [guid |-> g, par |-> p]

MCFiles ==
  { <<L(1, Everywhere)>>,
    <<L(1, NotAway), L(1, Everywhere)>>,
    <<L(1, Unparsable), L(2, NotAway)>> }

MCBlackFiles == {{<<10, 20>>}}

MCRequests ==
  {[version |-> 5, channelID |-> 1, ip |-> 20, net |-> n, value |-> 4,
    requestType |-> 0, visited |-> {}] : n \in {Here}}

MCQueries == {[hasIp |-> h, net |-> Away, value |-> 0] : h \in {FALSE}}
=============================================================================
