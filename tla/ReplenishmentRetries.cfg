CONSTANTS
    NotRanged = NotRanged
    NoCall = NoCall
    Calls = {c1, c2, c3}
    Items = {i1}
    Readings <- OrderReadings
    Faults <- AllFaults
    LastDay = 1
    MaxCrashes = 1
SPECIFICATION Spec
SYMMETRY CallSymmetry
INVARIANTS
    OneOrderPerCall
    TwinsNeedAnUnconfirmedWrite
    CallersAgree
    CallersAreToldTheTruth
    NoOrderCountedTwice
    TrailMatchesOrderBook
    QuietReportIsComplete
PROPERTIES
    RecordedKeysAreStable
    ImplementsLedger
