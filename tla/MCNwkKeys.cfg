SPECIFICATION Spec
CONSTANTS
    tc = tc
    r1 = r1
    r2 = r2
    TC = tc
    Devices <- MCDevices
    MaxFrames = 4
    MaxQueue = 2
    MaxSwitches = 1
SYMMETRY MCSymmetry
INVARIANTS
    TypeOK
    KeysAgree
    CountersAdvance
CHECK_DEADLOCK FALSE
