CONSTANTS
    NoText = NoText
    Threads = {t1}
    Secrets = {s1, s2}
    Fragments = {f1}
    Mishaps = {"race"}
    MaxChanges = 2
SPECIFICATION Spec
INVARIANTS
    RegisteredAtRest
