SPECIFICATION Spec
CONSTANTS
    a = a
    b = b
    None = None
    Conditions <- MCConditions
    Attempts = {1}
    MaxJobs = 2
    MaxVersions = 2
    MaxRestarts = 1
    MaxLosses = 1
SYMMETRY MCSymmetry
INVARIANTS Safety TriedOnce DeliveredIsReceipted CollectedOnce
CHECK_DEADLOCK FALSE
