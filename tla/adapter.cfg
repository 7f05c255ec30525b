SPECIFICATION Spec
CONSTANTS
    MaxLatitude = 8
    MaxLongitude = 16
    ZoneWidth = 8
    FalseNorthing = 100
    ResearchBox = 2
    IntersectionSize = 2
    KeyHash <- MCKeyHash
    TableSize = 6
    MaxFailures = 1
    MapFiles <- MCMapFiles
    Reports <- MCReports
CHECK_DEADLOCK FALSE
INVARIANTS
    TypeOK
    WatchesAll
    OwnDescriptors
    PositionIsReported
    RightPlace
    MapClosed
