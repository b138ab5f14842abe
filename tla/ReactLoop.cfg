\* ReactLoop
SPECIFICATION FairSpec
CONSTANTS
    NoCap = NoCap
    Configs <- Everything
    Tools = {"work", "send"}
    Send = "send"
    Args = {1, 2}
    BatchSize = 2
    MaxGrants = 1
    StepsPerGrant = 1
    SchemaRetries = 1
    MaxPauses = 1
CHECK_DEADLOCK FALSE
INVARIANTS
    TypeOK
    PauseCarriesTheRest
    TurnsBounded
    BreakersExact
    WarnedFirst
PROPERTIES
    LedgerKept
    ComesToRest
