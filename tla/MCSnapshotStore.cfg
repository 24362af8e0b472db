SPECIFICATION FairSpec
CONSTANTS
    p1 = p1
    p2 = p2
    x1 = x1
    r1 = r1
    r2 = r2
    r3 = r3
    Nobody = Nobody
    Processes <- MCProcesses
    Readers <- MCReaders
    Revisions <- MCRevisions
    FlatRev = r1
    Retention = 2
    Kinds = {"dir"}
    MaxFaults = 2
INVARIANTS Safety LeaseHolds DirectoriesKept
PROPERTY EverybodyGoesOn
\* A stranger's entry at the active path bars every publication.
CHECK_DEADLOCK FALSE
