SPECIFICATION FairSpec
CONSTANTS
    Workers <- AllWorkers
    MaxSignals = 2
CHECK_DEADLOCK FALSE
PROPERTIES
    ShutdownEnds
