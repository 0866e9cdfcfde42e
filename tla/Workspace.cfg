SPECIFICATION Spec
CONSTANTS
  p = p
  q = q
  r = r
  f = f
  g = g
  Base = 5
  Letters = 2
  Pad = 1
  Items = {p, q, r, f, g}
  Initial = {p, q}
  Files = {f, g}
  MantleCaps = TRUE
  TabCaps = FALSE
  Before <- MCBefore
  Mode <- MCMode
  Setups <- MCSetups
  NoDoc = NoDoc
INVARIANTS ShownIsStored PlacedAsAsked ServedOnceComplete SettledInOrder
CHECK_DEADLOCK FALSE
