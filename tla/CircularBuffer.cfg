CONSTANTS
  Data = {d1, d2, d3}
  Max = 3
  NoData = none
SPECIFICATION Spec
INVARIANT Consistent
PROPERTY ImplementsQueue
