SPECIFICATION Spec
CONSTANTS
    A = A
    B = B
    Own = Own
    NoPath = NoPath
    NoName = NoName
    NoPid = 0
    NoFlow = NoFlow
    NoView = NoView
    NoZoom = NoZoom
    Notice <- MCNotice
    Pids = {1, 2}
    Paths = {A, B, Own}
    AppName <- MCAppName
    Sockets <- MCSockets
    LsofOrder <- MCLsofOrder
    TlsFlows <- MCTlsFlows
    Traffic <- MCTraffic
    MaxPackets = 3
    MaxChunks = 2
    TrustOf <- MCTrustOf
    CapsOf <- MCCapsOf
    Background = {A, Own}
    Start <- MCStart
    SparkLen = 2
    Sustained = 1
    IPs = {1, 2, 3}
    Names = {"n1", "n2"}
    Blank = "blank"
    DnsCap = 2
    QueueCap = 2
    MaxPerApp = 3
    MaxTrackedPIDs = 1
    Senders <- MCSenders
    Bounds <- MCBounds
INVARIANT RateIsRecent
INVARIANT RingsInStep
INVARIANT KeepsLatest
INVARIANT BufferAccounted
INVARIANT NeverMixed
INVARIANT PaneShowsTheEndpoint
PROPERTY InspectsTheHighlighted
PROPERTY QuitEnds
CHECK_DEADLOCK FALSE
