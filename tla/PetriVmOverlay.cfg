CONSTANTS
  Pids = {p1, p2}
  Ids = {v1, v2}
  NoVm = NoVm
  MaxHosts = 2
  MaxDeaths = 1
  Faults = {FALSE}
SPECIFICATION Spec
PROPERTIES OverlaySpared
CHECK_DEADLOCK FALSE
