SPECIFICATION Spec
CONSTANTS
    Cap = 1
    KeyCodes <- MCEnter
    EnterCode = 13
    Coords <- MCCoords
    InitByte <- MCZero
    Stale = 0
    Column = 1
    Rows <- MCLines
    KeyWidth = 2
    KeyHeight = 1
INVARIANTS
    HideRestoresOldScreen
