SPECIFICATION Spec
CONSTANTS
    Requests = {1}
    Hosts = {"app", "api", "typo"}
    NoHost = ""
    Ports = {3000, 4000}
    Route <- MCRoute
    NoPort = 0
    BackendCodes = {500}
    Cooldown = 2
    LogCacheLimit = 2
    MaxTime = 2
CHECK_DEADLOCK FALSE
INVARIANT
    StatusIsCaptured
