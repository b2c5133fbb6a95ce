SPECIFICATION Spec
CONSTANTS
    Devices = 1
    Rates <- MCRates
    Capacity = 2
    MaxStops = 0
    None = None
INVARIANT FractionPositive
CHECK_DEADLOCK FALSE
