SPECIFICATION Spec
CONSTANTS
    t = t
    Threads <- MCThreads
    Operator = t
    MaxSessions = 2
    MaxHeads = 2
    MaxPulls = 2
    MaxShocks = 2
INVARIANTS Safety
PROPERTIES NothingBesideDoubt NothingDropped
CHECK_DEADLOCK FALSE
