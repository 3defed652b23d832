CONSTANTS
  Addr = {1, 2, 3}
  MAX_HEIGHT = 2
  UINT32 = 8
  Links <- MCMesh
  Metric <- MCMetric
  MaxLeaves = 0
  MaxLapses = 1
SPECIFICATION NetworkSpec
INVARIANT NoCycle
