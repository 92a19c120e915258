\* Two queue populators on one log
SPECIFICATION FairSpec
CONSTANTS
    p1 = p1
    p2 = p2
    crr = crr
    lifecycle = lifecycle
    Populators <- TwoPopulators
    Topics <- TwoTopics
    MaxSeq = 3
    Filter <- ThreeRecords
    MaxRead = 2
    MaxExits = 2
    MaxProvisions = 3
INVARIANTS TypeOK NothingSkipped
PROPERTIES EventuallyQueued
