SPECIFICATION Spec
CONSTANTS
    d1 = d1
    d2 = d2
    c1 = c1
    c2 = c2
    dnsA = dnsA
    dnsB = dnsB
    web = web
    alt = alt
    None = None
    Empty = Empty
    Daemons = {d1, d2}
    Clients = {}
    Addrs <- MCAddrs
    DnsAddr <- OwnDns
    ProxyAddr <- SameProxy
    FallbackAddr = alt
CHECK_DEADLOCK FALSE
INVARIANTS
    ServingDaemonKeepsFiles
