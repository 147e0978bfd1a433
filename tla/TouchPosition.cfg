SPECIFICATION Spec
CONSTANTS
    Cap = 3
    KeyCodes <- MCEnter
    EnterCode = 13
    Coords <- MCCoords
    InitByte <- MCZero
    Stale = 0
    Column = 0
    Rows <- MCLine
    KeyWidth = 1
    KeyHeight = 1
INVARIANTS
    PositionWasTouched
