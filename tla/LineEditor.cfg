SPECIFICATION Spec
CONSTANTS
    Rows = 4
    Cols = 3
    Letters <- MCLetters
    Outputs <- MCOutputs
    Messages <- MCMessages
    PromptLens <- MCPromptLens
    BufLen = 4
    MaxLine = 5
    KeyRows = 2
    KeyCols <- MCKeyCols
    KeyRoom = 1
    KeyAbove = 3
INVARIANTS
    TypeOK
    LineIsShown
    PromptStays
    KeyboardPutAway
    TextIsSeen
PROPERTIES
    RepeatHarmless
