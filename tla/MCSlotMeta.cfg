SPECIFICATION Spec
CONSTANTS
  Slots = {1, 2}
  FecSize = 2
  NumBatches <- MCTwoThenOne
  BucketCap = 1
  GrpcCap = 1
  RepairCap = 1
  Bucket <- MCOneBucket
  Backlog = 3
  None = None
INVARIANTS
  TypeOK
  DeliveredRecoverable
  StoreHasCompleteSlot
  NeverForgotten
  QuietWhenComplete
PROPERTIES
  BoundedRequestSuffices
CONSTRAINT
  Arriving
CHECK_DEADLOCK FALSE
