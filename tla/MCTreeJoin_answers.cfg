SPECIFICATION JoinSpec
CONSTANTS
    zc = zc
    r1 = r1
    r2 = r2
    e1 = e1
    Devices <- MCDevices
    Coord = zc
    RouterCap <- MCRouters
    Movers <- MCMovers
    Announcers <- MCMovers
    Configs <- MCConfigs
    ZB_NEIGHBOR_TABLE_SIZE = 3
    ZB_MAC_PENDING_QUEUE_SIZE = 2
    CrossAnswers = TRUE
    MaxTries = 3
SYMMETRY MCSymmetry
INVARIANTS
    BlocksNested
CHECK_DEADLOCK FALSE
