SPECIFICATION FairSpec
CONSTANTS
    Cap = 1
    KeyCodes <- MCEnter
    EnterCode = 13
    Coords <- MCEdge
    InitByte <- MCZero
    Stale = 0
    Column = 0
    Rows <- MCLine
    KeyWidth = 1
    KeyHeight = 1
INVARIANTS
    TypeOK
    KeyboardShownIffActive
PROPERTIES
    UsesKeyQueue
    UsesPositionQueue
    QueueDrains
