SPECIFICATION Spec
CONSTANTS
    b1 = b1
    b2 = b2
    Buckets <- MCBuckets
    NbConnectors = 2
    MaxChanges = 2
    MaxFaults = 2
INVARIANTS
    TypeOK
    ListensWhenSettled
PROPERTIES
    EventuallyListens
CHECK_DEADLOCK FALSE
