-------------------------------- MODULE JobQueue --------------------------------
(***************************************************************************)
(* The life of agent jobs: wiki_core/web/codex_jobs.py (submit, the worker *)
(* thread, cancel) and the route of web/server.py that reaches it.  What a *)
(* job does to the git checkout is the subject of JobCheckout; here a job  *)
(* is prepared, its agent process runs and the outcome is recorded.        *)
(*                                                                         *)
(* Every /api/codex request runs inside _authorized_effect, which holds    *)
(* CHECKOUT_LOCK; the worker holds the same lock for a whole job.  A       *)
(* caller inside the process, such as the tests of the runner, takes no    *)
(* lock.  A behaviour has callers of one kind.                             *)
(***************************************************************************)
EXTENDS Sequences, FiniteSets, Naturals

CONSTANTS
    Jobs,      \* job ids; each is submitted at most once
    Posts,     \* threads that submit and cancel
    Worker,    \* the thread of JobRunner
    Nobody,    \* the holder of a free CHECKOUT_LOCK
    NoJob,
    MaxRestarts \* bound on the restarts of the operator

ASSUME QueueAssumption ==
    /\ Nobody \notin Posts \cup {Worker}
    /\ Worker \notin Posts
    /\ NoJob \notin Jobs
    /\ MaxRestarts \in Nat

VARIABLES
    routed,    \* the callers come through the HTTP route; never changes
    status,    \* the status in the record of each job
    queue,     \* JobRunner._queue
    flagged,   \* JobRunner._cancelled
    claimed,   \* JobRunner._running_id
    agent,     \* the job whose agent process is alive
    signalled, \* cancel has sent it a terminate
    worker,    \* where the worker thread is
    post,      \* where each request is
    checkout,  \* the holder of CHECKOUT_LOCK
    launched,  \* history: jobs whose agent was started
    restarts,  \* history: how often the operator has been started again
    lost       \* history: jobs whose record a restart found unfinished

runner == <<queue, flagged, claimed>>
lock == <<routed, checkout>>
process == <<agent, signalled>>
history == <<launched, restarts, lost>>
vars == <<status, runner, process, worker, post, lock, history>>

Statuses == {"none", "queued", "running", "delivered", "failed", "cancelled"}
Terminal == {"delivered", "failed", "cancelled"}

WorkerSteps == {"idle", "claim", "wait", "begin", "check", "prepare", "launch",
                "agent", "reap", "unwind", "finish", "leave", "raised", "fail",
                "settle"}
PostSteps == {"idle", "submit", "cancel", "record", "put", "read", "flag",
              "write", "leave"}

At(step) == worker.step = step
Go(step) == worker' = [worker EXCEPT !.step = step]
PostAt(t, step) == post[t].step = step
PostGo(t, step) == post' = [post EXCEPT ![t].step = step]
Record(j, s) == status' = [status EXCEPT ![j] = s]

Resting == [step |-> "idle", job |-> NoJob]

Init ==
    /\ routed \in BOOLEAN
    /\ status = [j \in Jobs |-> "none"]
    /\ queue = <<>>
    /\ flagged = {}
    /\ claimed = NoJob
    /\ agent = NoJob
    /\ signalled = FALSE
    /\ worker = Resting
    /\ post = [t \in Posts |-> Resting]
    /\ checkout = Nobody
    /\ launched = {}
    /\ restarts = 0
    /\ lost = {}

-------------------------------------------------------------------------------
(* Requests.                                                               *)

\* A request comes to the lock first, a call to the runner.
Ask(t, j, waiting, called) ==
    post' = [post EXCEPT ![t] = [step |-> IF routed THEN waiting ELSE called, job |-> j]]

AskSubmit(t, j) ==
    /\ PostAt(t, "idle")
    /\ status[j] = "none"
    /\ \A u \in Posts : post[u].job # j
    /\ Ask(t, j, "submit", "record")
    /\ UNCHANGED <<status, runner, process, worker, lock, history>>

AskCancel(t, j) ==
    /\ PostAt(t, "idle")
    /\ status[j] # "none"
    /\ Ask(t, j, "cancel", "read")
    /\ UNCHANGED <<status, runner, process, worker, lock, history>>

\* Mutant of TakeCheckout: the route does not take the lock.
TakeNoCheckout(t) == t \in Posts /\ UNCHANGED checkout

\* The lock is waited for without limit, like any "with" on a lock.
TakeCheckout(t) == checkout = Nobody /\ checkout' = t

Enter(t) ==
    /\ \/ PostAt(t, "submit") /\ PostGo(t, "record")
       \/ PostAt(t, "cancel") /\ PostGo(t, "read")
    /\ TakeCheckout(t)
    /\ UNCHANGED <<routed, status, runner, process, worker, history>>

Leave(t) ==
    /\ PostAt(t, "leave")
    /\ post' = [post EXCEPT ![t] = Resting]
    /\ checkout' = IF checkout = t THEN Nobody ELSE checkout
    /\ UNCHANGED <<routed, status, runner, process, worker, history>>

\* submit writes the record, marks the brief and puts the job in the queue;
\* an unknown, changed or stale brief is refused before anything is written.
SubmitRecord(t) ==
    /\ PostAt(t, "record")
    /\ \/ Record(post[t].job, "queued") /\ PostGo(t, "put")
       \/ PostGo(t, "leave") /\ UNCHANGED status
    /\ UNCHANGED <<runner, process, worker, lock, history>>

SubmitPut(t) ==
    /\ PostAt(t, "put")
    /\ queue' = Append(queue, post[t].job)
    /\ PostGo(t, "leave")
    /\ UNCHANGED <<status, flagged, claimed, process, worker, lock, history>>

\* cancel reads the record before it takes the lock of the runner.
CancelRead(t) ==
    /\ PostAt(t, "read")
    /\ PostGo(t, IF status[post[t].job] \in Terminal THEN "leave" ELSE "flag")
    /\ UNCHANGED <<status, runner, process, worker, lock, history>>

\* Mutant of Terminate: the agent is left to notice the flag.
TerminateNothing(j) == j \in Jobs /\ UNCHANGED signalled

Terminate(j) == signalled' = (signalled \/ agent = j)

\* With the lock of the runner held: the flag, the claim and the process.  The
\* worker records the end of a job it has claimed.
CancelFlag(t) ==
    LET j == post[t].job IN
    /\ PostAt(t, "flag")
    /\ flagged' = flagged \cup {j}
    /\ Terminate(j)
    /\ PostGo(t, IF claimed = j THEN "leave" ELSE "write")
    /\ UNCHANGED <<status, queue, claimed, agent, worker, lock, history>>

CancelWrite(t) ==
    LET j == post[t].job IN
    /\ PostAt(t, "write")
    /\ Record(j, "cancelled")
    /\ PostGo(t, "leave")
    /\ UNCHANGED <<runner, process, worker, lock, history>>

-------------------------------------------------------------------------------
(* The worker thread.                                                      *)

Take ==
    /\ At("idle")
    /\ queue # <<>>
    /\ worker' = [step |-> "claim", job |-> Head(queue)]
    /\ queue' = Tail(queue)
    /\ UNCHANGED <<status, flagged, claimed, process, post, lock, history>>

\* The flag, which the worker looks at when it claims a job, when it has the
\* checkout, when it starts the agent and when the agent has ended.
Cancelled(j) == j \in flagged

\* With the lock of the runner held: honour an earlier cancel or own the job.
Claim ==
    /\ At("claim")
    /\ \/ /\ Cancelled(worker.job)
          /\ Record(worker.job, "cancelled")
          /\ Go("settle")
          /\ UNCHANGED claimed
       \/ /\ ~Cancelled(worker.job)
          /\ claimed' = worker.job
          /\ Go("wait")
          /\ UNCHANGED status
    /\ UNCHANGED <<queue, flagged, process, post, lock, history>>

WorkerEnters ==
    /\ At("wait")
    /\ checkout = Nobody
    /\ checkout' = Worker
    /\ Go("begin")
    /\ UNCHANGED <<routed, status, runner, process, post, history>>

\* The brief disappeared or changed since it was submitted, or the job runs.
Begin ==
    /\ At("begin")
    /\ \/ Record(worker.job, "failed") /\ Go("leave")
       \/ Record(worker.job, "running") /\ Go("check")
    /\ UNCHANGED <<runner, process, post, lock, history>>

CheckFlag ==
    /\ At("check")
    /\ \/ /\ Cancelled(worker.job)
          /\ Record(worker.job, "cancelled")
          /\ Go("leave")
       \/ /\ ~Cancelled(worker.job)
          /\ Go("prepare")
          /\ UNCHANGED status
    /\ UNCHANGED <<runner, process, post, lock, history>>

\* Getting onto a proposal branch may be refused.
Prepare ==
    /\ At("prepare")
    /\ \/ Record(worker.job, "failed") /\ Go("leave")
       \/ Go("launch") /\ UNCHANGED status
    /\ UNCHANGED <<runner, process, post, lock, history>>

\* With the lock of the runner held: look at the flag, start the process and
\* register it.  A binary that cannot be started counts as exit code 127.
Launch ==
    /\ At("launch")
    /\ \/ /\ ~Cancelled(worker.job)
          /\ agent' = worker.job
          /\ launched' = launched \cup {worker.job}
          /\ Go("agent")
       \/ /\ ~Cancelled(worker.job)
          /\ Go("reap")
          /\ UNCHANGED <<agent, launched>>
       \/ /\ Cancelled(worker.job)
          /\ Go("unwind")
          /\ UNCHANGED <<agent, launched>>
    /\ UNCHANGED <<status, runner, signalled, post, lock, restarts, lost>>

AgentGone == At("agent") /\ agent' = NoJob /\ signalled' = FALSE

\* The agent exits by itself.
AgentEnds ==
    /\ AgentGone
    /\ Go("reap")
    /\ UNCHANGED <<status, runner, post, lock, history>>

\* Its output cannot be decoded: it is killed and the exception goes on.
AgentGarbles ==
    /\ AgentGone
    /\ Go("raised")
    /\ UNCHANGED <<status, runner, post, lock, history>>

\* The watchdog kills it when the time of a job is over.
AgentTimesOut == AgentEnds

\* A terminate ends it.
AgentStops == signalled /\ AgentEnds

\* The flag is read again once the process has been reaped.
Reap ==
    /\ At("reap")
    /\ \/ Cancelled(worker.job) /\ Go("unwind")
       \/ ~Cancelled(worker.job) /\ Go("finish")
    /\ UNCHANGED <<status, runner, process, post, lock, history>>

\* Mutant of Unwind: the record is written and the clean-up comes later.
UnwindLater ==
    /\ At("unwind")
    /\ Record(worker.job, "cancelled")
    /\ worker' \in [step : {"unwind", "leave"}, job : {worker.job}]
    /\ UNCHANGED <<runner, process, post, lock, history>>

\* Clean up, then record; the clean-up can raise.
Unwind ==
    /\ At("unwind")
    /\ \/ Record(worker.job, "cancelled") /\ Go("leave")
       \/ Go("raised") /\ UNCHANGED status
    /\ UNCHANGED <<runner, process, post, lock, history>>

\* A bad exit code, no changes, a refused commit or publication; a delivery;
\* or an exception of one of these steps.
Finish ==
    /\ At("finish")
    /\ \/ Record(worker.job, "delivered") /\ Go("leave")
       \/ Record(worker.job, "failed") /\ Go("leave")
       \/ Go("raised") /\ UNCHANGED status
    /\ UNCHANGED <<runner, process, post, lock, history>>

\* The lock is left on every path.
WorkerLeaves ==
    /\ \/ At("leave") /\ Go("settle")
       \/ At("raised") /\ Go("fail")
    /\ checkout' = Nobody
    /\ UNCHANGED <<routed, status, runner, process, post, history>>

\* Mutant of Fail: the exception ends the worker thread.
FailForGood ==
    /\ At("fail")
    /\ UNCHANGED vars

\* The except clause of _drain, with _fail.
Fail ==
    /\ At("fail")
    /\ IF status[worker.job] = "cancelled" THEN UNCHANGED status
                                           ELSE Record(worker.job, "failed")
    /\ Go("settle")
    /\ UNCHANGED <<runner, process, post, lock, history>>

\* Its finally clause.
SettleJob ==
    /\ At("settle")
    /\ claimed' = IF claimed = worker.job THEN NoJob ELSE claimed
    /\ worker' = Resting
    /\ UNCHANGED <<status, queue, flagged, process, post, lock, history>>

-------------------------------------------------------------------------------
(* A restart.                                                              *)

\* What a job is in the hands of: the queue, the worker, or a request that has
\* written its record and not queued it.
Kept(j) ==
    \/ \E i \in DOMAIN queue : queue[i] = j
    \/ worker.job = j
    \/ \E t \in Posts : PostAt(t, "put") /\ post[t].job = j

Unfinished == {j \in Jobs : status[j] \in {"queued", "running"}}

\* The operator ends between any two steps and is started again.  The records
\* of agent jobs are neither queued again nor closed.  An agent that is still
\* there belongs to nobody.
Restart ==
    /\ restarts < MaxRestarts
    /\ restarts' = restarts + 1
    /\ lost' = lost \cup Unfinished
    /\ queue' = <<>>
    /\ flagged' = {}
    /\ claimed' = NoJob
    /\ agent' = NoJob
    /\ signalled' = FALSE
    /\ worker' = Resting
    /\ post' = [t \in Posts |-> Resting]
    /\ checkout' = Nobody
    /\ UNCHANGED <<routed, status, launched>>

-------------------------------------------------------------------------------
Request(t) ==
    \/ Enter(t) \/ SubmitRecord(t) \/ SubmitPut(t)
    \/ CancelRead(t) \/ CancelFlag(t) \/ CancelWrite(t)
    \/ Leave(t)

\* Everything the worker does of its own accord.
Work ==
    \/ Take \/ Claim \/ WorkerEnters \/ Begin \/ CheckFlag \/ Prepare
    \/ Launch \/ Reap \/ Unwind \/ Finish \/ WorkerLeaves \/ Fail \/ SettleJob

Next ==
    \/ \E t \in Posts, j \in Jobs : AskSubmit(t, j) \/ AskCancel(t, j)
    \/ \E t \in Posts : Request(t)
    \/ Work
    \/ AgentEnds \/ AgentGarbles \/ AgentTimesOut \/ AgentStops
    \/ Restart

Spec == Init /\ [][Next]_vars

\* The threads run.  Only the lock can bar a step that was possible: it has no
\* order, but a waiter competes whenever it is released, so a thread that keeps
\* waiting enters at last.
Scheduled == SF_vars(Work) /\ \A t \in Posts : SF_vars(Request(t))

\* A terminate ends the agent.
ScheduledSpec == Spec /\ Scheduled /\ WF_vars(AgentStops)

\* The time of a job is bounded: its watchdog ends the agent at last.
AgentsAreBounded == WF_vars(AgentTimesOut)

-------------------------------------------------------------------------------
(* Properties.                                                             *)

TypeOK ==
    /\ routed \in BOOLEAN
    /\ status \in [Jobs -> Statuses]
    /\ queue \in Seq(Jobs)
    /\ flagged \in SUBSET Jobs
    /\ claimed \in Jobs \cup {NoJob}
    /\ agent \in Jobs \cup {NoJob}
    /\ signalled \in BOOLEAN
    /\ worker \in [step : WorkerSteps, job : Jobs \cup {NoJob}]
    /\ (worker.step # "idle") => (worker.job \in Jobs)
    /\ post \in [Posts -> [step : PostSteps, job : Jobs \cup {NoJob}]]
    /\ \A t \in Posts : (post[t].step # "idle") => (post[t].job \in Jobs)
    /\ checkout \in Posts \cup {Worker, Nobody}
    /\ launched \in SUBSET Jobs
    /\ restarts \in 0 .. MaxRestarts
    /\ lost \in SUBSET Jobs

\* Through the route, the record of a delivered job is never rewritten, whatever
\* cancel arrives and however late: cancel reads the record first and writes it
\* last, and no request does so while a job comes to its end.
DeliveredIsFinal ==
    [][\A j \in Jobs :
          (routed /\ status[j] = "delivered") => (status'[j] = "delivered")]_vars

\* "a job cancelled before launch does not start the agent": from the moment
\* the flag is set, wherever the worker is, no agent starts for the job.
CancelledNeverLaunches ==
    [][\A j \in Jobs : (j \in launched' \ launched) => (j \notin flagged)]_vars

\* "The job remains running until cleanup ends": nobody reads "cancelled" of
\* a job that was launched while its agent lives or its changes are there.
RunningUntilCleanedUp ==
    \A j \in launched :
        (status[j] = "cancelled" /\ worker.job = j) =>
            (worker.step \in {"leave", "settle"})

\* A record that promises work has somebody who does it, unless a restart has
\* lost the job: then it stays as it is until it is cancelled.
PromisesAreKept == \A j \in Unfinished : Kept(j) \/ j \in lost

\* Every job in the queue comes to an end, and so does the one after it,
\* whatever the agent, git or a cancel do to the first, unless it is lost.
Finishes(j) == (status[j] = "queued") ~> (status[j] \in Terminal \/ j \in lost)

Asked(j) == \E t \in Posts : post[t] = [step |-> "read", job |-> j]

\* "cooperative cancel (kills the subprocess, marks `cancelled`)": an agent
\* that does not end by itself ends because its cancellation was asked for.
StopsWhenAsked(j) == (agent = j /\ Asked(j)) ~> (agent # j)

\* What the owner is told of a job is what its agent and its changes do, and a
\* cancellation before the launch, or a delivery, is the last word.
Safety == TypeOK /\ RunningUntilCleanedUp /\ PromisesAreKept

LastWord == DeliveredIsFinal /\ CancelledNeverLaunches
===============================================================================
