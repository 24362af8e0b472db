\* Two requests, two plans, two sessions; a store that holds one plan.
CONSTANTS
    t1 = t1
    t2 = t2
    page = page
    Worker = Worker
    Nobody = Nobody
    Threads <- MCThreads
    Files <- MCPages
    ConfigFiles <- NoFiles
    MaxSessions = 2
    MaxStored = 1
    MaxPlans = 2
    MaxHead = 1
    MaxEdits = 1
SPECIFICATION Spec
SYMMETRY Symmetry
INVARIANTS
    Safety
    RevokedNeverWrites
CHECK_DEADLOCK FALSE
