SPECIFICATION Spec
CONSTANTS
    Worker <- MCWorker
    MaxJobs = 2
    MaxResults = 2
    InitialBatch = 1
    Few = 2
    Short = 2
    Boost = 4
    TargetMs = 4
    WordMod = 16
    Durations <- MCDurations
    w1 = w1
    w2 = w2
SYMMETRY Symmetric
INVARIANTS
    PopTakesSomething
CHECK_DEADLOCK FALSE
