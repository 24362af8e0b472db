------------------------------ MODULE MCJobQueue ------------------------------
(* Small instances of JobQueue for TLC.                                    *)
EXTENDS JobQueue

CONSTANTS j1, j2, p1, p2

MCJobs == {j1, j2}
MCPosts == {p1, p2}

\* Liveness is asked of one job: the two are interchangeable.

\* A job in the queue comes to an end behind any other job, its agent killed by
\* the watchdog at last (JobRunner._drain).
JobFinishes == AgentsAreBounded => Finishes(j1)

\* A caller inside the process who cancels a running job ends its agent, however
\* long that would run (JobRunner.cancel).
CancelStops == ~routed => StopsWhenAsked(j1)
===============================================================================
