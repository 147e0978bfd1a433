SPECIFICATION SpecBoth
CONSTANTS
    Bytes <- MCBytes
    NameLen = 1
    Chunk = 2
    Depth = 2
    MaxSent = 4
PROPERTIES
    BothEstablished
CHECK_DEADLOCK FALSE
