CONSTANTS
    NotRanged = NotRanged
    NoCall = NoCall
    Calls = {c1, c2}
    Items = {i1, i2}
    Readings <- AllReadings
    Faults <- AllFaults
    LastDay = 1
    MaxCrashes = 1
SPECIFICATION FairSpec
INVARIANTS
    TypeOK
    OrdersRespectPolicy
    ResultsAreAudited
PROPERTIES
    EveryCallEnds
