CONSTANTS
  Addr = {1, 2, 3, 4}
  MAX_HEIGHT = 3
  UINT32 = 5
  Links <- MCPendant
  Metric <- MCMetric
  MaxLeaves = 2
  MaxLapses = 1
SPECIFICATION StartSpec
INVARIANTS HeightsFit NeverWorse
PROPERTY Converges
