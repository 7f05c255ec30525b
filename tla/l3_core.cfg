SPECIFICATION Spec
CONSTANTS
    Component <- Letters
    Name <- TwoNames
    InterestName <- TwoNames
    TextLength <- PrefixLength
    FaceLength <- FirstIsShort
    RegName <- OneName
    Nonce = {x1, x2}
    Lifetime = {1}
    MaxLifetime = 1
    LocalFace = {app1, app2}
    AdhocFace = {radio}
    HubFace = {}
    IPFace = {}
    Source = {}
    NackCode = {}
    FibNode = {node1}
    NoSource = NoSource
    NoFace = NoFace
    NoFib = NoFib
    Freed = Freed
    NoEntry = NoEntry
    Idle = Idle
    CSSize = 1
    MaxRetx = 1
    QueueSize = 1
    MaxPackets = 3
    AppsLeave = TRUE
    AppsLinger = TRUE
    AppsUnregister = FALSE
INVARIANTS TypeOK FlowBalance RoutesLive PointersSound DiesForAReason
PROPERTIES ForwardedOnce FreshIsAsked ImplementsExchange
CHECK_DEADLOCK FALSE
