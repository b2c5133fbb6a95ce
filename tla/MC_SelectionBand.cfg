SPECIFICATION SpecBand
CONSTANTS
    MaxHash = 4095
    C = 20
    CThreshold = 15
    Fractions <- MCFractions
    Requests = {1, 5, 40, 1000}
    Rooms = {0, 1, 2, 6, 30}
    Remaining = {1, 2, 7, 90, 5000}
    Watermarks = {0, 1, 3, 20}
INVARIANTS
    BandAsWideAsFraction
CHECK_DEADLOCK FALSE
