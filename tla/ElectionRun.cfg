CONSTANTS
  Addr = {0, 1, 2, 3}
  MAX_HEIGHT = 2
  UINT32 = 8
  Self = 1
  SelfMetric = 0
  SelfCounter = 0
  PeerRecords <- MCPeerRecords
SPECIFICATION Spec
INVARIANTS TypeOK BestSoFar
PROPERTY ImplementsAtomic
