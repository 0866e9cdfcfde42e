SPECIFICATION Spec
CONSTANTS
  buy = buy
  top = top
  end = end
  Events = {buy, top, end}
  Kind <- MCKind
  NewPlan <- MCNewPlan
  PlanVu <- MCPlanVu
  Pack = 5
  Cap = 2
  MaxDeliveries = 2
  MaxCrashes = 1
INVARIANTS ReplayNeedsForgetting CreditIsPaidFor
CHECK_DEADLOCK FALSE
