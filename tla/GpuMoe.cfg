CONSTANTS
  NLayers = 2
  Experts = {e1, e2, e3}
  Batch = 2
  TopK = 1
  NSlots = 3
  ClockBits = 4
  None = None
  MaxLaunch = 4
SPECIFICATION Spec
SYMMETRY Symmetry
INVARIANTS
  TypeOK
  StepKeepsItsSlots
  PromotesAreDisjoint
  DeviceGemvReadsItsExpert
  DeviceMappedIsFilled
CHECK_DEADLOCK FALSE
