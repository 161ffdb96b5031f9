SPECIFICATION MeshSpec
CONSTANTS
    p1 = p1
    p2 = p2
    NoPacket = NoPacket
    Coordinator = 1
    Nodes <- MCNodes
    Links <- MCLinks
    LinkCost <- MCCost
    Packets <- MCPackets
    From <- MCFrom
    To <- MCTo
    ZB_NWK_STATIC_PATH_COST = 7
    ZB_NWK_ROUTING_TABLE_SIZE = 1
    ZB_NWK_ROUTE_DISCOVERY_TABLE_SIZE = 1
    ZB_NWK_PENDING_TABLE_SIZE = 1
    MaxRadius = 4
    MaxId = 1
    LateNodes <- MCLate
CHECK_DEADLOCK FALSE
INVARIANT
    InitiateFindsPending
