CONSTANTS
  NoCap = NoCap
  NaN = NaN
  Values = {1, 2, 3}
  Configs <- MCConfigs
  TurnsPerChild = 1
  MaxGrants = 1
  StepsPerGrant = 1
SPECIFICATION FairSpec
INVARIANTS CandidateIsLedger LedgerIsReproducible TreeIsAccounted StagnationIsExact
PROPERTIES ClimbEnds
CHECK_DEADLOCK FALSE
