SPECIFICATION FairSpec
CONSTANTS
    Device <- MCDevices
    Nonces = 2
    Chunks <- MCChunks
    Capacity = 2
    MaxWork = 2
    MaxJobs = 2
    d1 = d1
    d2 = d2
INVARIANTS
    TypeOK
    NoNonceTwice
    FreshAfterSetWork
    IdleOnlyIfRefused
PROPERTIES
    WorkReachesDevices
CHECK_DEADLOCK FALSE
