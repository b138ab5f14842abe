\* PlanExecuteContinue
SPECIFICATION Spec
CONSTANTS
    NoCap = NoCap
    Configs <- OneContinue
    MaxGrants = 1
    StepsPerGrant = 1
    PlanRetries = 0
    MaxTasks = 2
    MaxTurns = 2
    MaxEdits = 0
    MaxPauses = 1
    MaxRuns = 1
CHECK_DEADLOCK FALSE
PROPERTIES
    ContinueReschedules
