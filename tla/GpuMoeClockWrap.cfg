CONSTANTS
  NLayers = 1
  Experts = {e1, e2, e3, e4}
  Batch = 1
  TopK = 2
  NSlots = 3
  ClockBits = 3
  None = None
  MaxLaunch = 5
SPECIFICATION Spec
SYMMETRY Symmetry
INVARIANT StepKeepsItsSlots
CHECK_DEADLOCK FALSE
