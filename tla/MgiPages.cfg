SPECIFICATION Spec
CONSTANTS
    Cells <- MCCells
    Inks <- MCInks
    Depth = 3
    Bar <- MCBar
    MenuArea <- MCMenuArea
    Area <- MCArea
    Centre <- MCCentre
INVARIANTS
    TypeOK
    DesktopShown
PROPERTIES
    ImplementsStack
    CloseRestores
    RestoresOnlySaved
