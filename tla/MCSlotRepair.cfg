SPECIFICATION Spec
CONSTANTS
  Slots = {1}
  FecSize = 1
  NumBatches <- MCTwoBatches
  BucketCap = 1
  GrpcCap = 1
  RepairCap = 4
  Bucket <- MCBucket
  Backlog = 4
  Peers = {p1}
  SocketCap = 1
  WireCap = 4
  None = None
  Turbine <- MCDataAndTail
  MaxFaults = 1
PROPERTIES
  RequestedComplete
  RepairSubsides
