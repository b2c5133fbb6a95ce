SPECIFICATION Spec
CONSTANTS
    Devices = 2
    Rates <- MCRates
    Capacity = 2
    MaxStops = 1
    None = None
INVARIANTS
    TypeOK
    RateSum
    CircularWaitsKnown
CONSTRAINTS
    BeforeRace
    FractionOfTotal
    PoolRates
CHECK_DEADLOCK FALSE
