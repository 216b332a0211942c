SPECIFICATION Spec
CONSTANTS
  Slots = {1, 2, 3}
  CacheCap = 1
  ConfCap = 2
  MetaCap = 2
  StoreGets = {"whole", "partial", "error"}
  None = None
INVARIANTS
  TypeOK
  NoLostWakeup
PROPERTIES
  DeliversInOrder
  ConfirmedAreSent
CHECK_DEADLOCK FALSE
