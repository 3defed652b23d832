CONSTANTS
  Self = "me"
  Sender = "p"
  Other = {"q"}
  MAX_NUM_AMPDU = 2
  ETHER_MAX_LEN = 20
  MTU = 5
  HostFrames <- MCHostFrames
  Foreign <- MCForeign
  Flags = {"none", "fcs", "absent"}
  Garbage = Garbage
  OutOfBounds = OutOfBounds
  NoPeer = NoPeer
  Elections <- MCElections
  Channels = {149}
  Clocks <- MCClocks
  Name = "owl"
  NameLength = 3
  HOST_NAME_LENGTH_MAX = 3
  Version = 52
  DevClass = 1
  Slots = 16
  Presence = 4
SPECIFICATION Spec
INVARIANTS  LostOnlyByFailedAmsdu
INVARIANTS EntryIsSnapshot ValidFromMif
PROPERTY ClockTakenWhole
