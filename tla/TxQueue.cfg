CONSTANTS
  TU = 1
  AwPeriod = 3
  Presence = 1
  U16 = 2
  U64 = 6
  Slots = 2
  UnicastGuard = 1
  MulticastGuard = 1
  MulticastSlots = {0}
  Peer = {"p"}
  Dest = {"p", "mcast", "runt"}
  Common <- MCCommon
  Capacity = 2
  MaxFrames = 3
  MaxChanges = 1
SPECIFICATION FairSpec
INVARIANTS NoLostWakeup Accounted InOrder
PROPERTY AllServed
