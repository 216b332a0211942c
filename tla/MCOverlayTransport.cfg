SPECIFICATION Spec
CONSTANTS
  Addrs = {a1, a2}
  Ids = {k1, k2}
  Helpers = {h1}
  MaxConnections = 2
  MaxPending = 1
  MaxStreamStates = 2
  MaxStreams = 2
  MaxHandles = 2
  None = None
SYMMETRY Symmetry
INVARIANTS
  TypeOK
  DeliveredToIntended
  StreamsFollowConnections
  IndexNamesItsIdentity
CHECK_DEADLOCK FALSE
