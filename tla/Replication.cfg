SPECIFICATION Spec
CONSTANTS
    Sites <- BothSites
    CloudSites <- CloudOnly
    ReplayTopics <- OneReplay
    Transient = TRUE
    Objects <- AnyObject
    MaxCrashes = 1
    MaxRequests = 0
INVARIANTS TypeOK NoEarlyCollection PendingHasFuture NoStrayUploads
CHECK_DEADLOCK FALSE
