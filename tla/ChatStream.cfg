SPECIFICATION FairSpec
CONSTANTS
  home = home
  other = other
  Any = Any
  MaxConns = 4
  MaxSubs = 2
  FilterOf <- MCFilterOf
  Containers = {home}
  Chat = home
  MaxTrouble = 3
  Scenarios <- MCScenarios
  Turns = {1}
  MaxIterations = 2
  MaxChunks = 1
INVARIANTS BetweenAckAndUnack OwnEventsInOrder ToldInStages ToldInFull
CHECK_DEADLOCK FALSE
PROPERTIES WasReadable StreamComesToRest ReissuedUnlessStranded
