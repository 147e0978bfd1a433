SPECIFICATION Spec
CONSTANTS
    Bytes <- MCBytes
    NameLen = 1
    Chunk = 2
    Depth = 2
    MaxSent = 3
INVARIANTS
    SavedMeansWritten
CHECK_DEADLOCK FALSE
