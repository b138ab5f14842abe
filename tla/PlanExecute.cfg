\* PlanExecute
SPECIFICATION FairSpec
CONSTANTS
    NoCap = NoCap
    Configs <- Everything
    MaxGrants = 1
    StepsPerGrant = 1
    PlanRetries = 1
    MaxTasks = 3
    MaxTurns = 2
    MaxEdits = 2
    MaxPauses = 1
    MaxRuns = 2
CHECK_DEADLOCK FALSE
INVARIANTS
    TypeOK
    BlockersDone
    GraphIsDag
    CompletedOnce
    FailedNotRun
    DrainIsQuiet
PROPERTIES
    AgentEditsSurvive
    RunEnds
