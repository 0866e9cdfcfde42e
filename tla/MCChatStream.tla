---------------------------- MODULE MCChatStream ----------------------------
(* A small instance of ChatStream: a subscription to the statuses of the   *)
(* chat only and one to everything.  Either both are made and no turn runs,*)
(* with two connections and three troubles or with four and two, of which  *)
(* no behaviour dials the last; or a turn runs while the second comes and  *)
(* goes.                                                                   *)
EXTENDS ChatStream

CONSTANTS home, other

Statuses == {"streaming", "tool_calling", "completed"}

MCFilterOf ==
  [id \in SubIds |-> IF id = 1 THEN [container |-> Chat, names |-> {"artifact"}]
                     ELSE [container |-> Any, names |-> Statuses \cup {"delta", "artifact"}]]

MCScenarios ==
  {[turns |-> {},    gone |-> 0, first |-> 1, spent |-> 2, trouble |-> 3],
   [turns |-> {},    gone |-> 0, first |-> 1, spent |-> 0, trouble |-> 2],
   [turns |-> Turns, gone |-> 0, first |-> 2, spent |-> 2, trouble |-> 0],
   [turns |-> Turns, gone |-> 1, first |-> 2, spent |-> 2, trouble |-> 1]}

(* One subscription, and connections that are lost or not established.     *)
LossesOnly == {[turns |-> {}, gone |-> 0, first |-> 2, spent |-> 0, trouble |-> 2]}
=============================================================================
