SPECIFICATION Spec
CONSTANTS
    c1 = c1
    c2 = c2
    Contents <- MCContents
    InitialContents = c1
    MaxWrites = 2
    MaxRestores = 2
    MaxScans = 3
    MaxFaults = 1
    MaxEvents = 4
INVARIANTS
    TypeOK
    Recoverable
    NothingForgotten
    NoLeftovers
PROPERTIES
    RestoredUntilExpired
CHECK_DEADLOCK FALSE
