CONSTANTS
    Calls <- TwoCalls
    Faults <- AllButChatter
    StdoutCapacity = 2
    StderrCapacity = 1
SPECIFICATION FairSpec
INVARIANTS
    TypeOK
    JudgedOnOwnAnswer
    SuccessIsEarned
    NoServerLeftRunning
PROPERTIES
    ProbeEnds
