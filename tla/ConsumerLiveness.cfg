\* One consumer, with crashes, under fairness
SPECIFICATION FairSpec
CONSTANTS
    c1 = c1
    c2 = c2
    None = None
    Consumers <- OneConsumer
    MaxOffset = 2
    Concurrency = 2
    MaxAssigns = 2
    MaxRestarts = 1
    BacklogMetrics = TRUE
PROPERTIES EventuallyAllCommitted RebalanceEnds
