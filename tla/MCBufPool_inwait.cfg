SPECIFICATION Spec
CONSTANTS
    ZB_IOBUF_POOL_SIZE = 6
    ZB_SCHEDULER_Q_SIZE = 6
    ZB_BUF_Q_SIZE = 2
    MaxPlain = 0
    c1 = c1
    c2 = c2
    Callbacks <- MCCallbacks1
INVARIANT
    InWaitOnlyWhenFull
