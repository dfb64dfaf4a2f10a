CONSTANTS
    NoText = NoText
    Threads = {t1}
    Secrets = {s1, s2}
    Fragments = {f1}
    Mishaps <- AllMishaps
    MaxChanges = 5
SPECIFICATION FairSpec
INVARIANTS
    StillFileSettles
    RotationsAreObserved
PROPERTIES
    EventuallyCurrent
    ImplementsLastKnownValue
