SPECIFICATION ScheduledSpec
CONSTANTS
    j1 = j1
    j2 = j2
    p1 = p1
    p2 = p2
    Jobs <- MCJobs
    Posts <- MCPosts
    Worker = Worker
    Nobody = Nobody
    NoJob = NoJob
    MaxRestarts = 1
INVARIANT Safety
PROPERTIES LastWord JobFinishes CancelStops
