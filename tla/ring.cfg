SPECIFICATION FairSpec
CONSTANTS
    Size = 3
    MaxPackets = 5
    MaxFailures = 1
CHECK_DEADLOCK FALSE
INVARIANTS
    TypeOK
    ReaderFindsPacket
    EachAnnouncedOnce
    SlotExclusive
PROPERTIES
    ImplementsChannel
    Responsive
