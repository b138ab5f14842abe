CONSTANTS
  Keep = 2
  Threshold = 50
  Windows = {0, 6}
  MaxAttempts = 2
  Sizes = {1, 2}
  Summaries = {0, 1, 3}
  Overheads <- MCOverheads
  MaxMessages = 7
  MaxSeeds = 2
SPECIFICATION Spec

PROPERTIES RecentKept
CHECK_DEADLOCK FALSE
