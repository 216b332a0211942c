CONSTANTS
  Lo = 4
  Hi = 11
  Helpers = {1, 2}
  HelperPort <- MCHelperPort
  Settings <- MCSettings
  Me = 3
  MyPort = 7
  Stranger <- MCStranger
  MaxHelperProbes = 1
  MaxRequests = 2
  MaxFaults = 1
  Via = 1
  ObserverAddrs <- MCObserverAddrs
  Ends = {3, 4}
  BindPort = 7
  Pairs <- MCPairs
  Drawn <- MCDrawn
  MaxPunchForwards = 2
  MaxPunchHelpers = 4
  MaxPunchProbeRounds = 2
  MaxPunchCandidates = 4
  MaxBracketWidth = 6
  BirthdaySocketCap = 2
  BirthdaySprayCap = 1
SPECIFICATION PathsSpec
INVARIANTS PathTypes DirectReachable PunchConnects
CONSTRAINT Sparse
CHECK_DEADLOCK FALSE
