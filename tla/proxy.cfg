SPECIFICATION FairSpec
CONSTANTS
    Requests = {1, 2}
    Hosts = {"app", "api", "typo"}
    NoHost = ""
    Ports = {3000, 4000}
    Route <- MCRoute
    NoPort = 0
    BackendCodes = {500}
    Cooldown = 2
    LogCacheLimit = 2
    MaxTime = 2
CHECK_DEADLOCK FALSE
INVARIANTS
    TypeOK
    PayloadIntact
    TruncationShows
    StatusIsHonest
PROPERTIES
    RepeatNeedsEviction
    SilentBackendAnswered
