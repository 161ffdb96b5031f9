SPECIFICATION Spec
CONSTANTS
    TableSize = 3
    i1 = i1
    i2 = i2
    Ieees <- MCIeees
    NoIeee = NoIeee
    Shorts = {0, 1, 2}
    NoShort = 9
    Hash <- MCHash
    LockSize = 2
    MaxDeletes = 2
    DoubleHits = FALSE
INVARIANTS
    TypeOK
    TableExact
PROPERTIES
    ImplementsPairs
    LockedSurvives
SYMMETRY IeeeSymmetry
CHECK_DEADLOCK FALSE
