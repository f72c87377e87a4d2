SPECIFICATION Spec
CONSTANTS
    d1 = d1
    d2 = d2
    c1 = c1
    c2 = c2
    dnsA = dnsA
    dnsB = dnsB
    web = web
    alt = alt
    None = None
    Empty = Empty
    Daemons = {d1, d2}
    Clients = {c1}
    Addrs <- MCAddrs
    DnsAddr <- OwnDns
    ProxyAddr <- SameProxy
    FallbackAddr = alt
CHECK_DEADLOCK FALSE
INVARIANTS
    TypeOK
    LockMatchesControl
    FilesNeverMislead
    BindFindsPathFree
    DownMeansReleased
PROPERTIES
    UnlinkSparesSuccessor
    ImplementsSingleInstance
