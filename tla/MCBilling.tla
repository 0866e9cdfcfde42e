----------------------------- MODULE MCBilling -----------------------------
(* A small instance of Billing: a checkout of the plan pro, two packs of   *)
(* top-up and a cancellation; VU in hundreds.                              *)
EXTENDS Billing

CONSTANTS buy, top, end

MCKind == [e \in Events |-> CASE e = buy -> "checkout" [] e = top -> "topup" [] OTHER -> "update"]
MCNewPlan == [e \in Events |-> CASE e = buy -> "pro" [] e = top -> 2 [] OTHER -> "free"]
MCPlanVu == [p \in {"free", "pro"} |-> IF p = "free" THEN 1 ELSE 20]
=============================================================================
