SPECIFICATION Spec
CONSTANTS
    Bytes <- MCBytes
    Limit = 7
    MaxText = 4
INVARIANTS
    TypeOK
    EncodedTextArrives
    CutTextIsPrefix
    RawTextArrives
CHECK_DEADLOCK FALSE
