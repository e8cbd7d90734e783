CONSTANTS
  Requests = {r1, r2}
  MaxBatch = 1
  MaxSeq = 3
  PromptLens = {1, 2}
  MaxTokens = {0, 2}
  None = None
SPECIFICATION FairSpec
INVARIANTS
  PositionsMatchTokens
  LengthMeansBudgetSpent
PROPERTIES
  EveryRequestAnswered
  EveryRequestReleased
CHECK_DEADLOCK FALSE
