SPECIFICATION FairSpec
CONSTANTS
    Size = 8
    Buf <- MCBuf
    NoBuf = NoBuf
    Requests <- MCRequests
    b1 = b1
    b2 = b2
    b3 = b3
INVARIANTS
    TypeOK
    UsedDisjoint
    DrainedIsEmpty
    FailureHasAFreeToCome
    FifoDestruction
PROPERTIES
    CallbackComes
CHECK_DEADLOCK FALSE
CONSTRAINT BeforeLate
