CONSTANTS
  NLayers = 1
  Experts = {e1, e2, e3}
  TopK = 2
  Capacity = 2
  None = None
  MaxTick = 6
  Batch = 2
  FracNum = 1
  FracDen = 2
SPECIFICATION Spec
SYMMETRY Symmetry
INVARIANTS
  MappedIsFilled
  EveryRoutedExpertOnce
CHECK_DEADLOCK FALSE
