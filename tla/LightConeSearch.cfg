SPECIFICATION ConeSpec
CONSTANTS
  n1 = n1
  n2 = n2
  n3 = n3
  n4 = n4
  u1 = u1
  u2 = u2
  Nodes = {n1, n2, n3, n4}
  Server = n1
  Capability = n2
  Users = {u1, u2}
  Top = Top
  Unborn = Unborn
  Gone = Gone
  UpDepth = 3
  DownDepth = 2
  RootDepth = 3
  MaxSteps = 5
INVARIANTS FoundWhereReadable
PROPERTIES AddingHidesNothing
SYMMETRY Same
CHECK_DEADLOCK FALSE
