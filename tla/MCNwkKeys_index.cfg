SPECIFICATION Spec
CONSTANTS
    tc = tc
    r1 = r1
    r2 = r2
    TC = tc
    Devices <- MCDevices
    MaxFrames = 3
    MaxQueue = 2
    MaxSwitches = 2
SYMMETRY MCSymmetry
INVARIANTS
    ActiveIndexMatchesSeq
CHECK_DEADLOCK FALSE
