SPECIFICATION Spec
CONSTANTS
    a = a
    b = b
    None = None
    Conditions <- MCConditions
    Attempts = {1}
    MaxJobs = 1
    MaxVersions = 2
    MaxRestarts = 1
    MaxLosses = 1
PROPERTIES FailedIsFinal
CHECK_DEADLOCK FALSE
