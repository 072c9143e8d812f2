CONSTANTS
    a = a
    b = b
    d = d
    a1 = a1
    a2 = a2
    b1 = b1
    d1 = d1
    ida = ida
    idb = idb
    idd = idd
    NoSession = NoSession
    NoClaim = NoClaim
    Client <- AandB
    Session <- Reconnect
    Owner <- MCOwner
    Identity <- Identities
    Announces <- OneProvider
    Transport <- AllTcp
    MaxId = 6
    Reports <- Relay
    RandomFails = FALSE
SPECIFICATION Spec
PROPERTIES
    TeardownDropsOwnPairs
CHECK_DEADLOCK FALSE
