CONSTANTS
  TU = 1
  AwPeriod = 16
  Presence = 4
  U16 = 65536
  U64 = 1048576
  Slots = 16
  UnicastGuard = 3
  MulticastGuard = 16
  MulticastSlots = {0, 10}
  Late = 1
  MaxTries = 21
  Common <- MCCommon
SPECIFICATION TimerSpec
INVARIANTS UnicastHeard MulticastHeard SentSoon
CHECK_DEADLOCK FALSE
