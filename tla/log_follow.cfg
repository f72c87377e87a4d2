SPECIFICATION FairSpec
CONSTANTS
    MaxBacklog = 4
    MaxBytes = 4
    Chunk = 2
    MaxLines = 2
    MaxExits = 1
    MaxRotations = 1
CHECK_DEADLOCK FALSE
INVARIANTS
    TypeOK
    BacklogIsLastLines
    NothingLost
    NothingTwice
    ClaimIsTrueOfDaemon
PROPERTIES
    CatchesUp
    RotationIsSeen
