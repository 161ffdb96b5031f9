SPECIFICATION FairSpec
CONSTANTS
    p1 = p1
    p2 = p2
    Peers <- TwoPeers
    NoAddr = NoAddr
    TableSize = 1
    AckQSize = 2
    CounterSize = 2
    OutBufs = 1
    ZB_BUF_Q_SIZE = 2
    DupCheckTimeout = 1
    DupWindow = 0
    MaxPkts <- TwoPkts
    MaxRepeats = 1
    Outstanding = 1
    Leaves = 1
INVARIANTS
    OneBufferPerPacket
PROPERTIES
    EveryQueuedAcked
CHECK_DEADLOCK TRUE
