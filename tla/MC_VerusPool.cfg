SPECIFICATION FairSpec
CONSTANTS
    Worker <- MCWorker
    MaxJobs = 2
    MaxResults = 3
    InitialBatch = 1
    Few = 2
    Short = 2
    Boost = 4
    TargetMs = 4
    WordMod = 16
    Durations <- MCDurations
    w1 = w1
    w2 = w2
INVARIANTS
    TypeOK
    WatermarkExact
    NoLostWakeup
PROPERTIES
    ImplementsFifo
    EveryJobDrained
    WorkersComeToRest
CHECK_DEADLOCK FALSE
