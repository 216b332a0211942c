SPECIFICATION Spec
CONSTANTS
  Chain <- MCChain
  ListsBlocks = TRUE
  RpcDown = TRUE
  ShutsDown = TRUE
  None = None
INVARIANTS
  TypeOK
  CatchupContiguous
PROPERTIES
  ImplementsOrderedStream
CHECK_DEADLOCK FALSE
