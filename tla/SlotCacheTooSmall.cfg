CONSTANTS
  NLayers = 1
  Experts = {e1, e2, e3}
  TopK = 3
  Capacity = 2
  None = None
  MaxTick = 3
SPECIFICATION WindowSpec
INVARIANT OwnHitsNotEvicted
CHECK_DEADLOCK FALSE
