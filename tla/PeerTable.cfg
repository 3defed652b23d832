CONSTANTS
  Addr = {0, 1, 2}
  MAX_HEIGHT = 2
  UINT32 = 8
  Self = 1
  SelfMetric = 1
  SelfCounter = 0
  Timeout = 1
  CleanInterval = 1
  MaxTlvs = 2
  Refusable = {2}
  Advertised <- MCAdvertised
  Versions <- MCVersions
SPECIFICATION FairSpec
INVARIANTS TypeOK NeighborsMatch AnnouncedAfterMif SyncMasterIsPeer
PROPERTIES ClockFromValidPeer SilentPeerForgotten SteadyPeerStays
