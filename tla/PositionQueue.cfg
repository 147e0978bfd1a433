SPECIFICATION Spec
CONSTANTS
    Cap = 3
    Coords <- MCCoords
    Stale = 0
INVARIANTS
    TypeOK
    IndexSafe
    ReturnsLastTouch
