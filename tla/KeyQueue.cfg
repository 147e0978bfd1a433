SPECIFICATION Spec
CONSTANTS
    Cap = 3
    Bytes <- MCBytes
    InitByte <- MCAnyByte
INVARIANTS
    TypeOK
    IndexSafe
    KeysInOrder
