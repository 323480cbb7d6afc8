SPECIFICATION ProxySpec
CONSTANTS
    c1 = c1
    c2 = c2
    a = a
    aZone = aZone
    b = b
    blank = blank
    port = port
    p1 = p1
    p2 = p2
    Self = Self
    Nobody = Nobody
    Conns = {c1, c2}
    Names = {a, aZone, b, blank}
    Hosts = {a, b}
    NoHost = NoHost
    NoName = NoName
    NoLeaf = NoLeaf
    NormalizeHost <- TwoHosts
    Cap = 1
    LeafRenewBefore = 1
    LeafLife = 2
    MaxTime = 2
    MaxMints = 3
    Askers = {c1, c2}
    Ports = {port}
    Processes = {p1, p2, Self}
    OwnerTTL = 1
    OwnerMinRefresh = 0
    LsofTimeout = 1
    OwnerFaults = {"cut"}
    Loads <- MCLoads
INVARIANT ServedIsValid
INVARIANT Accounted
INVARIANT OwnerIsRecent
PROPERTY FreshIsKept
PROPERTY TunnelEnds
