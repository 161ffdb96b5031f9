SPECIFICATION Spec
CONSTANTS
    ZB_N_APS_RETRANS_ENTRIES = 2
    ZB_N_APS_MAX_FRAME_ENTRIES = 2
    MaxReqs = 3
    MaxOutstanding = 3
    DropKinds = {}
    MaxAcks = 1
    CounterSize = 4
    FirstCounter = 3
    NoAddr = NoAddr
    NoBuf = NoBuf
    b1 = b1
    b2 = b2
    p1 = p1
    Bufs <- MCBufs
    Peers <- MCPeers
INVARIANTS
    RefusedTakesNoEntry
CHECK_DEADLOCK FALSE
