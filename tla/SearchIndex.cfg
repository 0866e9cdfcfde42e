SPECIFICATION Spec
CONSTANTS
  a1 = a1
  a2 = a2
  c1 = c1
  c2 = c2
  w1 = w1
  w2 = w2
  b1 = b1
  x = x
  y = y
  Artifacts = {a1, a2}
  Collections = {c1, c2}
  Tokens = {x, y}
  Threads = {w1, w2, b1}
  Bulk = {b1}
  None = None
  MaxJobs = 4
  Scenarios <- MCScenarios
INVARIANTS StatsExact ManifestNamesPostings IndexFollowsStore LastIndexPosted
SYMMETRY Same
CHECK_DEADLOCK FALSE
