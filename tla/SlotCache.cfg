CONSTANTS
  NLayers = 2
  Experts = {e1, e2, e3}
  TopK = 2
  Capacity = 3
  None = None
  MaxTick = 5
SPECIFICATION WindowSpec
SYMMETRY Symmetry
INVARIANTS
  MapMatchesSlots
  GrantsSurviveTheStep
  WorkingSetStays
PROPERTY RefinesLru
CHECK_DEADLOCK FALSE
