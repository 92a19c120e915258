SPECIFICATION Spec
CONSTANTS
    None = None
    Age <- MCAge
    Scenarios <- ConductorScenarios
    PageSize = 2
    Concurrency = 1
    CheckpointEvery = 1
    MaxInFlight = 1
    IndexLimit = 1
INVARIANTS
    IndexBuildsBounded
PROPERTIES
    ScannedForEver
CHECK_DEADLOCK FALSE
