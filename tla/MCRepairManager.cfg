SPECIFICATION Spec
CONSTANTS
  Slots = {1}
  NumShreds <- MCNumShreds
  Peers = {p1}
  SocketCap = 1
  Lonely = TRUE
  Faulty = TRUE
  None = None
  WireCap = 1
  Asks <- MCAsks
INVARIANTS
  TypeOK
  NoStrandedEntry
PROPERTIES
  RequestsPersist
CONSTRAINTS
  LoadBounded
VIEW ButFilter
