SPECIFICATION JoinSpec
CONSTANTS
    zc = zc
    r1 = r1
    r2 = r2
    e1 = e1
    Devices <- MCDevices
    Coord = zc
    RouterCap <- MCRouters
    Movers <- MCMoversOfRouters
    Announcers <- MCMoversOfRouters
    Configs <- MCDeepConfigs
    ZB_NEIGHBOR_TABLE_SIZE = 4
    ZB_MAC_PENDING_QUEUE_SIZE = 2
    CrossAnswers = FALSE
    MaxTries = 4
SYMMETRY MCSymmetry
INVARIANTS
    BlocksNested
CHECK_DEADLOCK FALSE
