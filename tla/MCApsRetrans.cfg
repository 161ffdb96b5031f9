SPECIFICATION FairSpec
CONSTANTS
    ZB_N_APS_RETRANS_ENTRIES = 3
    ZB_N_APS_MAX_FRAME_ENTRIES = 3
    MaxReqs = 2
    MaxOutstanding = 2
    DropKinds = {"unacked"}
    MaxAcks = 1
    CounterSize = 4
    FirstCounter = 3
    NoAddr = NoAddr
    NoBuf = NoBuf
    b1 = b1
    b2 = b2
    p1 = p1
    Bufs <- MCBufs
    Peers <- MCPeers
INVARIANTS
    TypeOK
    BuffersOwned
    RetriesEnd
    ConfirmsMatch
    OkMeansAcked
PROPERTIES
    EveryRequestConfirmed
CHECK_DEADLOCK FALSE
