CONSTANTS
  NLayers = 2
  Experts = {e1, e2, e3}
  TopK = 2
  Capacity = 3
  None = None
  MaxTick = 6
  Batch = 1
  FracNum = 1
  FracDen = 2
SPECIFICATION Spec
SYMMETRY Symmetry
INVARIANTS
  TypeOK
  GemvReadsItsExpertUnlessCutShort
  CopiesLagTwoLayers
CHECK_DEADLOCK FALSE
