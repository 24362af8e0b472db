SPECIFICATION Spec
CONSTANTS
    p = p
    q = q
    Clients <- MCClients
    Sources <- MCSources
    MaxOps = 4
    MaxFaults = 2
    MaxCrashes = 1
    MaxEdits = 1
SYMMETRY MCSymmetry
INVARIANTS Safety ActiveCompose
PROPERTIES LockFollowsReceipts FailureIsClean
CHECK_DEADLOCK FALSE
