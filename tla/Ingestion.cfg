SPECIFICATION Spec
CONSTANTS
    Versions <- MCVersions
    PageSize = 1
    MaxRead = 2
    MaxReaders = 2
    NullKey = 2
    MaxJobs = 2
    Scenarios <- MCScenarios
INVARIANTS
    TypeOK
    NothingMissed
    NoGhosts
    PauseStateAgrees
CHECK_DEADLOCK FALSE
