SPECIFICATION SpecWords
CONSTANTS
    Size = 7
    Buf <- MCBuf
    NoBuf = NoBuf
    Requests <- MCRequests
    b1 = b1
    b2 = b2
    b3 = b3
SYMMETRY Symmetric
INVARIANTS
    HashStartNonzero
CHECK_DEADLOCK FALSE
