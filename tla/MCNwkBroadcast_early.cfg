SPECIFICATION Spec
CONSTANTS
    mine = mine
    theirs = theirs
    NoFrame = NoFrame
    OutBufs <- MCOut
    InBufs <- MCIn
    Nbrs <- MCNbrs
    Routers <- MCRouters
    RxOn <- MCNone
    Frames <- MCFrames
    Own <- MCOwn
    SrcOf <- MCSrcChild
    DstOf <- MCDstOf
    ZB_NWK_BTR_TABLE_SIZE = 1
    ZB_NWK_BRR_TABLE_SIZE = 2
    ZB_NWK_WAIT_ALLOC_TABLE_SIZE = 1
    ZB_NWK_MAX_BROADCAST_RETRIES = 2
    DeliveryTime = 1
    AckBits = 8
    MaxReceive = 2
INVARIANTS
    EndsServed
CHECK_DEADLOCK FALSE
