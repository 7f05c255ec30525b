SPECIFICATION Spec
CONSTANTS
    a = a
    b = b
    Component <- Letters
    Name <- Names
    ContentName <- Names
    LookupName <- Names
    Packet = {x1, x2}
    NoPacket = NoPacket
    MaxSize = 3
CHECK_DEADLOCK FALSE
INVARIANTS
    TypeOK
    TrieMatchesList
    NoDeadBranches
PROPERTIES
    ImplementsCache
