SPECIFICATION FairSpec
CONSTANTS
    Component <- Letters
    Name <- TwoNames
    Nonce = {x1, x2}
    NoNonce = NoNonce
    Place = {0, 1, 2}
    Origin = 0
    NoFix = NoFix
    NoMetadata = NoMetadata
    Limit = 2
    MaxPackets = 3
CHECK_DEADLOCK FALSE
INVARIANTS
    TypeOK
    BroadcastsBounded
    AnsweredNotAsked
    NothingHidden
PROPERTIES
    InterestPersists
    StorageDrains
