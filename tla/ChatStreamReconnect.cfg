SPECIFICATION FairSpec
CONSTANTS
  home = home
  other = other
  Any = Any
  MaxConns = 3
  MaxSubs = 2
  FilterOf <- MCFilterOf
  Containers = {home}
  Chat = home
  MaxTrouble = 3
  Scenarios <- LossesOnly
  Turns = {1}
  MaxIterations = 2
  MaxChunks = 1
PROPERTY AutoReconnects
CHECK_DEADLOCK FALSE
