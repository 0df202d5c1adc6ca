SPECIFICATION MCSpec
CONSTANTS
    Sizes <- MCSizes
    NoGroup = NoGroup
    Careful = TRUE
    Bypass = TRUE
    CapacitySizes <- MCCapacitySizes
    AnomalyCapacity = 3
    SpikeCapacities <- MCSpikes
    Quota = 7
    Gone = Gone
INVARIANTS SurgeCountedAtHome EnoughInstances SpikeIsMeasured
CHECK_DEADLOCK FALSE
