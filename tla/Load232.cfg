SPECIFICATION FairSpec
CONSTANTS
    Bytes <- MCBytes
    NameLen = 1
    Chunk = 2
    Depth = 2
    MaxSent = 4
INVARIANTS
    TypeOK
    WritesWhatItReceived
    SavedIsReceived
    ReceivedIsSent
PROPERTIES
    TransferEnds
CHECK_DEADLOCK FALSE
