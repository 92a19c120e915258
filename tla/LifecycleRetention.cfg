SPECIFICATION Spec
CONSTANTS
    None = None
    Age <- MCAge
    Scenarios <- DeletionScenarios
    PageSize = 2
    Concurrency = 1
    CheckpointEvery = 1
    MaxInFlight = 1
    IndexLimit = 1
INVARIANTS
    KeepsLatestNoncurrent
CHECK_DEADLOCK FALSE
