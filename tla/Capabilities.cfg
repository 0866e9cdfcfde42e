SPECIFICATION CapSpec
CONSTANTS
  x = x
  y = y
  d = d
  e = e
  t1 = t1
  t2 = t2
  Kinds <- MCKinds
  Names = {x, y}
  Descs = {d, e}
  Catalog <- MCCatalog
  Threads = {t1, t2}
  None = None
  MaxCalls = 3
  MaxChanges = 1
  MaxTrouble = 1
INVARIANTS LastListingHolds
PROPERTIES ArchivedForAReason
CHECK_DEADLOCK FALSE
