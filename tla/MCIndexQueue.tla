---------------------------- MODULE MCIndexQueue ----------------------------
(* Small instances of IndexQueue for TLC: all tasks with one generation,   *)
(* or fewer of them with a second start() and a second stop().             *)
EXTENDS IndexQueue

CONSTANTS
  a, b, c, n1,
  Plans          \* [tasks, starts, stops]: what is called at most

VARIABLE plan

(* Two tasks of one tenant and one without a tenant.                       *)
MCTenantOf == [t \in Tasks |-> IF t = c THEN NoTenant ELSE n1]

MCPlans ==
  {[tasks |-> Tasks, starts |-> 1, stops |-> 1],
   [tasks |-> {a, c}, starts |-> 2, stops |-> 2]}

MCInit == Init /\ plan \in Plans

MCNext ==
  /\ Next
  /\ current' \in 0..plan.starts
  /\ stops' <= plan.stops
  /\ \A t \in Tasks \ plan.tasks : phase'[t] = "new"
  /\ UNCHANGED plan

MCSpec == MCInit /\ [][MCNext]_<<vars, plan>> /\ Fairness
=============================================================================
