CONSTANTS
  Requests = {r1, r2, r3}
  MaxBatch = 2
  MaxSeq = 3
  PromptLens = {1}
  MaxTokens = {2}
  None = None
SPECIFICATION Spec
SYMMETRY Symmetry
INVARIANTS
  TypeOK
  SlotsAccountedFor
  NeverContextOverflow
  TerminalEventIsLast
  CancelledStopsAtOnce
CHECK_DEADLOCK FALSE
