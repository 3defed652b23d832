CONSTANTS
  TU = 2
  AwPeriod = 2
  Presence = 4
  U16 = 16
  U64 = 128
  Slots = 4
  UnicastGuard = 3
  MulticastGuard = 3
  MulticastSlots = {0, 2}
  Hops = 2
  Ahead <- MCAhead
  MaxDelay = 1
  MaxTime = 22
  MaxMoves = 1
  Nexts = {3}
  Counters = {15}
  Common <- MCCommon
SPECIFICATION Spec
INVARIANTS Aligned Heard
PROPERTY ErrorIsLag
