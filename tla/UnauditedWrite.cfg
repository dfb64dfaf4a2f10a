CONSTANTS
    NotRanged = NotRanged
    NoCall = NoCall
    Calls = {c1, c2}
    Items = {i1}
    Readings <- OneReading
    Faults = {"unanswered"}
    LastDay = 0
    MaxCrashes = 0
SPECIFICATION Spec
SYMMETRY CallSymmetry
INVARIANTS
    EveryWriteIsAudited
