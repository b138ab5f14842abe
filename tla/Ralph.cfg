CONSTANTS
  NoCap = NoCap
  NoVerifier = NoVerifier
  NoRalph = NoRalph
  Configs <- MCConfigs
  TurnsPerPhase = 1
  MaxGrants = 1
  StepsPerGrant = 1
  Resets = {0, 2, NoRalph}
  MaxWrites = 1
SPECIFICATION RalphFairSpec
INVARIANTS AcceptedIsReviewed BudgetHolds FeedbackIsKept WindowsAreBounded
PROPERTIES ReportIsCheckpoint RalphEnds
CHECK_DEADLOCK FALSE
