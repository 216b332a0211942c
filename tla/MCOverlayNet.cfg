SPECIFICATION NetSpec
CONSTANTS
  n1 = n1
  n2 = n2
  n3 = n3
  n4 = n4
  Nodes = {n1, n2, n3, n4}
  Mover = n1
  Static = n2
  Links <- MCLinks
  Claims = {n1, n3, n4, None}
  Sources = {n3, n4}
  Shreds = {s1}
  SourceAt = {3}
  Fanout = 1
  Ttl = 1
  MaxTicks = 5
  MaxFaults = 1
  Requester = n2
  RepairAt = 2
  Nonces = {q1,q2}
  MaxStreams = 2
  MaxOutbound = 2
  MaxInbound = 1
  MaxRate = 1
  MaxEvents = 1
  None = None
SYMMETRY Symmetry
INVARIANTS
  TypeOK
  RestartHeals
  FloodCovers
  OnlyCulpritsQuarantined
  RepairConcludes
CHECK_DEADLOCK FALSE
