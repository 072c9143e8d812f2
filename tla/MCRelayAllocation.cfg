CONSTANTS
    a = a
    b = b
    d = d
    a1 = a1
    a2 = a2
    b1 = b1
    d1 = d1
    ida = ida
    idb = idb
    idd = idd
    NoSession = NoSession
    NoClaim = NoClaim
    Client <- AandB
    Session <- OneEach
    Owner <- MCOwner
    Identity <- Identities
    Announces <- OneProvider
    Transport <- AllTcp
    MaxId = 1
    Reports <- AnyPath
    RandomFails = TRUE
SPECIFICATION FairSpec
PROPERTIES
    RelaylessPairDies
CHECK_DEADLOCK FALSE
