SPECIFICATION Spec
CONSTANTS
  Slots = {1}
  FecSize = 1
  NumBatches <- MCThreeBatches
  BucketCap = 1
  GrpcCap = 1
  RepairCap = 4
  Bucket <- MCBucket
  Backlog = 4
  Peers = {p1}
  SocketCap = 1
  WireCap = 4
  None = None
  Turbine <- MCHeadAndTail
  MaxFaults = 0
PROPERTIES
  SlotsComplete
