SPECIFICATION FairSpec
CONSTANTS
    Workers <- AllWorkers
    MaxSignals = 2
CHECK_DEADLOCK FALSE
INVARIANTS
    TypeOK
    CompleteMeansReturned
    WatchIsDisarmed
PROPERTIES
    ImplementsGracefulShutdown
    HeardShutdownEnds
    WatchedShutdownEnds
