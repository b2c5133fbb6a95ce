SPECIFICATION Spec
CONSTANTS
    Devices = 1
    Rates <- MCRates
    Capacity = 2
    MaxStops = 1
    None = None
INVARIANT TotalZeroAfterStop
CHECK_DEADLOCK FALSE
