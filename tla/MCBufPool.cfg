SPECIFICATION FairSpec
CONSTANTS
    ZB_IOBUF_POOL_SIZE = 6
    ZB_SCHEDULER_Q_SIZE = 6
    ZB_BUF_Q_SIZE = 3
    MaxPlain = 2
    c1 = c1
    c2 = c2
    Callbacks <- MCCallbacks1
INVARIANTS
    TypeOK
    AllocExact
    HalvesIndependent
    OneOwner
    NoBufferLost
PROPERTIES
    OutWaitServed
