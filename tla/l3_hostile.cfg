SPECIFICATION FairSpec
CONSTANTS
    Component <- Letters
    Name <- RootShortAndLong
    InterestName <- RootAndA
    TextLength <- PrefixLength
    FaceLength <- FirstIsShort
    RegName <- ShortAndLong
    Nonce = {x1, x2}
    Lifetime = {1}
    MaxLifetime = 1
    LocalFace = {app1}
    AdhocFace = {radio}
    HubFace = {hub}
    IPFace = {}
    Source = {s1, s2}
    NackCode = {"GIVEUP_PIT", "OTHER"}
    FibNode = {node1, node2}
    NoSource = NoSource
    NoFace = NoFace
    NoFib = NoFib
    Freed = Freed
    NoEntry = NoEntry
    Idle = Idle
    CSSize = 1
    MaxRetx = 1
    QueueSize = 1
    MaxPackets = 4
    AppsLeave = TRUE
    AppsLinger = FALSE
    AppsUnregister = TRUE
INVARIANTS PitFacesAttached HubRequesterKnown
PROPERTIES PitDrains
CHECK_DEADLOCK FALSE
