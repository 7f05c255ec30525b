SPECIFICATION FairSpec
CONSTANTS
    Size = 2
    MaxPackets = 4
    MaxFailures = 0
CHECK_DEADLOCK FALSE
PROPERTIES
    SendReturns
