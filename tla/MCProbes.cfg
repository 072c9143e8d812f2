CONSTANTS
    a = a
    b = b
    d = d
    a1 = a1
    a2 = a2
    b1 = b1
    d1 = d1
    ida = ida
    idb = idb
    idd = idd
    NoSession = NoSession
    NoClaim = NoClaim
    Client <- AandB
    Session <- OneEach
    Owner <- MCOwner
    Identity <- Identities
    Announces <- OneProvider
    Transport <- AllUdp
    MaxId = 4
    Reports <- Relay
    RandomFails = TRUE
SPECIFICATION Spec
INVARIANTS
    InfoSentOnce
CHECK_DEADLOCK FALSE
