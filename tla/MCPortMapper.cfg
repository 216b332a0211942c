SPECIFICATION Spec
CONSTANTS
  StepTimeout = 2
  StepAttempts = 2
  TcpTimeout = 4
  LadderRetry = 20
  MinLease = 15
  Lease <- MCLease
  Gateways <- MCGateways
  MaxDelay = 3
  MaxShocks = 1
  None = None
INVARIANTS
  TypeOK
  OfferedIsLeased
  NeverLapses
PROPERTIES
  NoSpin
  LadderRecovers
