CONSTANTS
    NoText = NoText
    Threads = {t1, t2}
    Secrets = {s1, s2}
    Fragments = {f1}
    Mishaps = {}
    MaxChanges = 2
SPECIFICATION Spec
INVARIANTS
    RotationTakesEffect
