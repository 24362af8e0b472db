SPECIFICATION FairCleanup
CONSTANTS
    MaxDeaths = 3
    MaxSwaps = 2
INVARIANT CleanupSafety
PROPERTIES StrangersStay ContainerRecovered
\* A container that is gone, or preserved, is the end of its story.
CHECK_DEADLOCK FALSE
