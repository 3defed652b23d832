CONSTANTS
  Key = {"a", "b", "c", "d", "e"}
  Value = {"v", "w"}
  None = None
  Hash <- MCHash
  INITIAL_SIZE = 4
  MAX_CHAIN_LENGTH = 2
  MaxTable = 32
SPECIFICATION Spec
INVARIANT Consistent
PROPERTY ImplementsMap
