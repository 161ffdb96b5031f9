SPECIFICATION Spec
CONSTANTS
    p1 = p1
    p2 = p2
    Peers <- TwoPeers
    NoAddr = NoAddr
    TableSize = 2
    AckQSize = 2
    CounterSize = 2
    OutBufs = 1
    ZB_BUF_Q_SIZE = 2
    DupCheckTimeout = 2
    DupWindow = 3
    MaxPkts <- ThreePkts
    MaxRepeats = 1
    Outstanding = 2
    Leaves = 0
INVARIANTS
    RequestPerPacket
CHECK_DEADLOCK TRUE
