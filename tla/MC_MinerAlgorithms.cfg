SPECIFICATION SpecParts
CONSTANTS
    WordMod = 11
    MaxSize = 5
    Width = 12
    DigitWidth = 6
    ByteWidth = 3
    HashBytes = 6
    VerusStarts <- MCVerusStarts
    HashStarts <- MCHashStarts
    Difficulties <- MCDifficulties
    AddressSize = 20
    RewardSize = 16
    TransferSize = 99
    MaxBlockSize = 200
    MaxBodySize = 210
    MaxCount = 4
    MaxHash = 4095
    C = 20
    CThreshold = 15
    Fractions <- MCFractions
    Requests = {1, 5, 40, 1000}
    Rooms = {0, 1, 2, 6, 30}
    Remaining = {1, 2, 7, 90, 5000}
    Watermarks = {0, 1, 3, 20}
    Worker = {1, 2}
    Second = 10
    MinDuration = 2
    MinProcessed = 2
    Window = 1
    Timings <- MCTimings
    MaxReports = 5
INVARIANTS
    TypeOK
    WithinSpans
    MissedOnlyAcrossSeam
    RepeatedOnlyBehindSeam
    TotalNonzero
    PowBracketed
    ShareMeetsDifficulty
    BodySections
    RootBindsBody
    BandFitsRoom
    RoundsAddUp
CHECK_DEADLOCK FALSE
