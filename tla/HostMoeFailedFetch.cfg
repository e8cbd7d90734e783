CONSTANTS
  NLayers = 1
  Experts = {e1, e2, e3}
  TopK = 2
  Capacity = 3
  None = None
  MaxTick = 3
  Batch = 1
  FracNum = 1
  FracDen = 1
SPECIFICATION Spec
SYMMETRY Symmetry
INVARIANT GemvReadsItsExpert
CHECK_DEADLOCK FALSE
