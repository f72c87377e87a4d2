SPECIFICATION FairSpec
CONSTANTS
    d1 = d1
    d2 = d2
    c1 = c1
    c2 = c2
    dnsA = dnsA
    dnsB = dnsB
    web = web
    alt = alt
    None = None
    Empty = Empty
    Daemons = {d1}
    Clients = {c1, c2}
    Addrs <- MCAddrs
    DnsAddr <- SameDns
    ProxyAddr <- SameProxy
    FallbackAddr = alt
CHECK_DEADLOCK FALSE
PROPERTIES
    CancelledReleases
    DownReturns
    CrashLeftoversSwept
