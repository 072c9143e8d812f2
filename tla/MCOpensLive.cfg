CONSTANTS
    a = a
    b = b
    a1 = a1
    a2 = a2
    b1 = b1
    k1 = k1
    k2 = k2
    NoSession = NoSession
    NoClient = NoClient
    Client <- MCClient
    Session <- Reconnecting
    Owner <- MCOwner
    Conn <- MCConn
    RouteOf <- MCRouteOf
    Kind <- MCKind
SPECIFICATION OpensFairSpec
PROPERTIES
    LostSessionOpensRevoked
    BridgeEndsWithSession
CHECK_DEADLOCK FALSE
