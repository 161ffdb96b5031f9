SPECIFICATION Spec
CONSTANTS
    b1 = b1
    b2 = b2
    b3 = b3
    b4 = b4
    c1 = c1
    Bufs = {b1, b2, b3, b4}
    Children = {c1}
    None = None
    ZB_MAC_PENDING_QUEUE_SIZE = 2
    ZB_MAC_QUEUE_SIZE = 2
SYMMETRY MCSymmetry
INVARIANTS
    TypeOK
    HalvesFit
    SlotTimers
CHECK_DEADLOCK FALSE
