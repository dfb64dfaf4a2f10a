CONSTANTS
    NotRanged = NotRanged
    NoKey = NoKey
    Calls = {c1, c2}
    Keys = {k1, k2}
    Positions <- TwoPositions
    Deliveries = {1}
    MaxEvents = 3
SPECIFICATION Spec
SYMMETRY MeasurementSymmetry
INVARIANTS
    TypeOK
    OneRotationIsAbsorbed
    NeverMoreThanTheGap
