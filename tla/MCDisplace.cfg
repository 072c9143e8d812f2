CONSTANTS
    a = a
    b = b
    d = d
    a1 = a1
    a2 = a2
    b1 = b1
    d1 = d1
    ida = ida
    idb = idb
    idd = idd
    NoSession = NoSession
    NoClaim = NoClaim
    Client <- ABD
    Session <- ThreeClients
    Owner <- MCOwner
    Identity <- ThreeIdentities
    Announces <- SharedIdentity
    Transport <- AllTcp
    MaxId = 4
    Reports <- NoReports
    RandomFails = FALSE
SPECIFICATION Spec
INVARIANTS
    ExitIsExclusive
    IdentityHeldOnce
CHECK_DEADLOCK FALSE
