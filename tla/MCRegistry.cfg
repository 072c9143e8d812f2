CONSTANTS
    a = a
    s1 = s1
    s2 = s2
    s3 = s3
    NoSession = NoSession
    Client <- MCClient
    Session <- MCSession
    Owner <- MCOwner
SPECIFICATION RegistryFairSpec
INVARIANTS
    RegistryNamesLiveSessions
    LostSlotIsCancelled
PROPERTIES
    OnlyOwnReaderUnregisters
    LostSlotEnds
CHECK_DEADLOCK FALSE
