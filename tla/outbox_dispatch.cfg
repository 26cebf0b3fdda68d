CONSTANTS
  d1 = d1
  d2 = d2
  MaxRow = 3
  Batch = 2
  MaxCopies = 1
  Dispatcher <- MCDispatcher
  Poison <- FirstPoison
  Faults <- AllFaults
SPECIFICATION FairSpec
INVARIANTS MarkedIsProduced
PROPERTIES DeliversAll BacklogDrains
