SPECIFICATION SessionSpec
CONSTANTS
  k1 = k1
  k2 = k2
  Keys = {k1, k2}
  None = None
  Window = 1
  MaxSessions = 3
  MaxUnpublish = 3
  MaxRestarts = 1
INVARIANTS ListedHasNotEnded
PROPERTIES EndsWhenIdle
CHECK_DEADLOCK FALSE
