CONSTANTS
    a = a
    b = b
    d = d
    a1 = a1
    a2 = a2
    b1 = b1
    d1 = d1
    ida = ida
    idb = idb
    idd = idd
    NoSession = NoSession
    NoClaim = NoClaim
    Client <- AandB
    Session <- OneEach
    Owner <- MCOwner
    Identity <- Identities
    Announces <- OneProvider
    Transport <- MixedTransport
    MaxId = 1
    Reports <- AnyPath
    RandomFails = FALSE
SPECIFICATION FairSpec
PROPERTIES
    EveryPairReported
    RelayResolves
    PairDiesWithSession
CHECK_DEADLOCK FALSE
