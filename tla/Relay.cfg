SPECIFICATION FairSpec
CONSTANTS
  ann = ann
  bob = bob
  c1 = c1
  c2 = c2
  c3 = c3
  r1 = r1
  r2 = r2
  Users = {ann, bob}
  Conns = {c1, c2, c3}
  Reqs = {r1, r2}
  UserOf <- MCUserOf
  NoConn = NoConn
  MaxPings = 1
INVARIANTS AnswerIsOwn
PROPERTIES RequestEnds ImplementsRemoteCall
CHECK_DEADLOCK FALSE
