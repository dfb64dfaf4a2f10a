CONSTANTS
    NoText = NoText
    Threads = {t1, t2}
    Secrets = {s1, s2}
    Fragments = {f1}
    Mishaps <- DecodableMishaps
    MaxChanges = 3
SPECIFICATION Spec
SYMMETRY SecretSymmetry
INVARIANTS
    TypeOK
    AvailableWhenHealthy
    RegisteredAtRest
    HeldValueNeverFails
