SPECIFICATION Spec
CONSTANTS
    None = None
    Age <- MCAge
    Scenarios <- ScanScenarios
    PageSize = 2
    Concurrency = 1
    CheckpointEvery = 1
    MaxInFlight = 1
    IndexLimit = 1
INVARIANTS
    TypeOK
    RulesApplied
PROPERTIES
    ImplementsRetention
CHECK_DEADLOCK FALSE
