CONSTANTS
  Pids = {p1, p2, p3}
  Ids = {v1, v2}
  NoVm = NoVm
  MaxHosts = 2
  MaxDeaths = 1
  Faults = {TRUE, FALSE}
SPECIFICATION FairSpec
INVARIANTS NoneIsLost
PROPERTIES ReapSparesOwned OrphansAreCollected
CHECK_DEADLOCK FALSE
