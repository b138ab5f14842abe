CONSTANTS
  m1 = m1
  m2 = m2
  Ids <- MCIds
  Given <- MCGiven
  NoMemory = NoMemory
  MaxArchives = 2
  MaxStores = 4
SPECIFICATION Spec
INVARIANTS HistoryIsWhole ProposalsWait
CHECK_DEADLOCK FALSE
