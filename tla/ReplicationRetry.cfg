SPECIFICATION FairSpec
CONSTANTS
    Sites <- DrOnly
    CloudSites <- NoSites
    ReplayTopics <- OneReplay
    Transient = FALSE
    Objects <- HeldObject
    MaxCrashes = 1
    MaxRequests = 1
INVARIANT CompletedMeansReplicated
PROPERTIES CompletedIsFinal EventuallySettled
CHECK_DEADLOCK FALSE
