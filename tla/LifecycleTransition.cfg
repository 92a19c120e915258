SPECIFICATION Spec
CONSTANTS
    small = small
    large = large
    Contents <- MCContents
    InitialContents = large
    Length <- MCLength
    MpuUploaded = {}
    MinMPUSize = 3
    StoreModes <- MCStoreModes
    MaxWrites = 1
    MaxScans = 2
    MaxFaults = 2
    MaxEvents = 3
    DefaultPartSize = 2
    LargestPartSize = 8
    SoftPartLimit = 3
    HardPartLimit = 5
    GCPMaxParts = 4
    MaxLength = 70
INVARIANTS TypeOK DataAvailable NoOrphanCopies
PROPERTY ExpiresListedObject
CHECK_DEADLOCK FALSE
