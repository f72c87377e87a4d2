SPECIFICATION Spec
CONSTANTS
    Chars <- MCChars
    Alnum = {"a", "localhost"}
    LowerOf <- MCLowerOf
    Rank <- MCRank
    MaxLabel = 3
    Configs <- MCConfigs
    Hosts <- MCHosts
    Questions <- MCQuestions
    Durations = {"1s", "2m0s"}
CHECK_DEADLOCK FALSE
INVARIANTS
    TypeOK
    KeysAreReachable
    ProxyServesSpellings
    ConfiguredIsServed
    UnknownIsNxdomain
