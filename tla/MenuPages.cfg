SPECIFICATION Spec
CONSTANTS
    Cells <- MCCells
    Inks <- MCInks
    Depth = 3
    Bar <- MCBar
    MenuArea <- MCMenuArea
    Area <- MCArea
    Centre <- MCCentre
INVARIANT
    RestoresAPage
