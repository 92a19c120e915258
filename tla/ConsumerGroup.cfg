\* Two consumers exchange the partition
SPECIFICATION Spec
CONSTANTS
    c1 = c1
    c2 = c2
    None = None
    Consumers <- TwoConsumers
    MaxOffset = 2
    Concurrency = 2
    MaxAssigns = 2
    MaxRestarts = 0
    BacklogMetrics = TRUE
INVARIANTS TypeOK AtLeastOnce PipelineBound NoLostWakeup
PROPERTIES ImplementsDelivery DrainBeforeUnassign
