SPECIFICATION Spec
CONSTANTS
    Component <- Letters
    Name <- ShortAndLong
    InterestName <- OneName
    TextLength <- PrefixLength
    FaceLength <- FirstIsShort
    RegName <- ShortAndLong
    Nonce = {x1, x2}
    Lifetime = {1}
    MaxLifetime = 1
    LocalFace = {app1}
    AdhocFace = {radio}
    HubFace = {}
    IPFace = {}
    Source = {}
    NackCode = {}
    FibNode = {node1, node2}
    NoSource = NoSource
    NoFace = NoFace
    NoFib = NoFib
    Freed = Freed
    NoEntry = NoEntry
    Idle = Idle
    CSSize = 1
    MaxRetx = 1
    QueueSize = 1
    MaxPackets = 4
    AppsLeave = TRUE
    AppsLinger = TRUE
    AppsUnregister = TRUE
INVARIANTS PointersSound
CHECK_DEADLOCK FALSE
