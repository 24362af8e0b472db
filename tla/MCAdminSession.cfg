CONSTANTS
    t1 = t1
    t2 = t2
    Threads <- MCThreads
    Capabilities <- MCCapabilities
    RoleCaps <- MCRoleCaps
    InspectCaps <- MCInspectCaps
    MaxSessions = 3
    MaxRenewals = 1
    MaxRetired = 1
    MaxChallenges = 1
    UnlockLimit = 1
    RenewLimit = 1
SPECIFICATION ThreadSpec
INVARIANTS
    TypeOK
    SessionInv
PROPERTIES
    ImplementsAuthority
    DoubtBarsOpening
    NobodyWaitsForEver
