SPECIFICATION Spec
CONSTANTS
    t1 = t1
    t2 = t2
    k1 = k1
    k2 = k2
    i1 = i1
    i2 = i2
    Nobody = Nobody
    Threads <- MCThreads
    Keys <- MCKeys
    Inputs <- MCInputs
    MaxReceipts = 1
    Attempts = 2
    MaxWorld = 3
SYMMETRY Symmetric
INVARIANTS
    Safety
    ReadYourWrites
    SnapshotIsWhole
PROPERTIES
    ReceiptIsFinal
