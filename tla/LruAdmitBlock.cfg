CONSTANTS
  NWarps = 2
  Lanes = 2
  BlockSlots = 6
  BlockExperts = {1, 2, 3, 4, 5}
  EntryLists <- SharedExpert
  MaxLaunches = 1
SPECIFICATION BlockSpec
INVARIANT EveryEntryKeepsItsSlot
CHECK_DEADLOCK FALSE
