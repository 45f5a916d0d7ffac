SPECIFICATION KpiSpec
CONSTANTS
    Half = 16
    Base = 2
    MaxSize = 6
    HeaderSize = 2
    Bytes = {0, 1}
    Addresses <- MCAddresses
INVARIANTS
    KpiTypeOK
    ReadsInBounds
    DecodesBothStrings
    DecodeInv
PROPERTIES
    ReadEnds
CHECK_DEADLOCK FALSE
