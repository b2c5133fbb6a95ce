SPECIFICATION FairSpec
CONSTANTS
    MaxSessions = 2
    MaxFound = 2
    MaxInFlight = 2
    MaxChanges = 2
    MaxOutages = 1
    Parents <- MCParents
    p1 = p1
    p2 = p2
    None = None
INVARIANTS
    TypeOK
    OneSession
    SentInSessionTakenUp
    UniqueIds
    CleanIndexTellsParent
    StandsStillKnown
PROPERTIES
    CatchesUp
    SessionGetsWork
CHECK_DEADLOCK FALSE
