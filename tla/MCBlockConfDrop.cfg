SPECIFICATION Spec
CONSTANTS
  Chain <- MCChain
  ListsBlocks = FALSE
  RpcDown = FALSE
  ShutsDown = FALSE
  None = None
INVARIANTS
  DropHasSocket
CHECK_DEADLOCK FALSE
