CONSTANTS
    Names = {"k1", "k2"}
    Required <- NoneRequired
    Workers = {"w1"}
    LinesRace = TRUE
SPECIFICATION Spec
INVARIANTS
    OutageIsReported
