SPECIFICATION MCSpec
CONSTANTS
  a = a
  b = b
  c = c
  n1 = n1
  Tasks = {a, b, c}
  Tenants = {n1}
  NoTenant = NoTenant
  TenantOf <- MCTenantOf
  Workers = 2
  MaxStarts = 2
  MaxStops = 2
  Plans <- MCPlans
INVARIANTS PendingExact StoppedPoolIdle
PROPERTIES RunsOnce AcceptedIsProcessed StopReturns ImplementsTaskPool
CHECK_DEADLOCK FALSE
