SPECIFICATION FairSpec
CONSTANTS
    s1 = s1
    s2 = s2
    None = None
    Starts = {s1, s2}
    Window = 2
    MaxChat = 1
CHECK_DEADLOCK FALSE
INVARIANTS
    DetachedTypeOK
    FailureLeavesNothing
    FailedStartIsNotStarted
    OwnErrorIsNotMasked
PROPERTIES
    StartReturns
