SPECIFICATION ChainSpec
CONSTANTS
    inter1 = inter1
    inter2 = inter2
    Certs = {inter1, inter2}
    Junk = Junk
    Garbage = Garbage
    Stuck = Stuck
    ChainFiles <- MCChainFiles
INVARIANTS
    EveryCertificateExtracted
CHECK_DEADLOCK FALSE
