------------------------------ MODULE SourceJobs ------------------------------
(***************************************************************************)
(* The review jobs of one source: wiki_core/web/source_review_jobs.py, the *)
(* worker of web/codex_jobs.py that runs them, the ledger of attempts in   *)
(* source_state.py and the native refresh of web/source_operations.py.     *)
(*                                                                         *)
(* A job is the plan it was submitted with: its digest is its identity.    *)
(* Records, ledger, receipts and checkout are files; the queue, what the   *)
(* worker does, the authorities and the cancellations are lost with the    *)
(* process.  The adapter is a child process and may outlive the operator.  *)
(***************************************************************************)
EXTENDS Sequences, Naturals, FiniteSets

CONSTANTS
    Conditions,  \* what may be out of date in the pages of the source
    Attempts,    \* the attempt budgets plans are made with
    None,        \* no job
    MaxJobs,     \* bound on the records
    MaxVersions, \* bound on the versions of the checkout
    MaxRestarts, \* bound on the restarts
    MaxLosses    \* bound on the losses of the ledger

ASSUME SourceJobsAssumption ==
    /\ Attempts \subseteq Nat \ {0}
    /\ MaxJobs \in Nat /\ MaxVersions \in Nat
    /\ MaxRestarts \in Nat /\ MaxLosses \in Nat
    /\ None \notin [head : Nat, inputs : Nat, conditions : SUBSET Conditions,
                    attempts : Attempts]

VARIABLES
    tree,      \* the head, the inputs of the source there and in the files
    ledger,    \* the review request, if any: its conditions, its attempts
    records,   \* of each job submitted: status, calls of the adapter, token
    receipts,  \* the jobs whose refresh has its receipt
    queue,     \* the jobs that wait for the worker
    job,       \* the job in the worker's hands
    stage,     \* and how far it is
    authority, \* the authorities in RAM, with those revoked
    cancelled, \* the jobs flagged
    adapters,  \* the jobs whose adapter runs
    versions,  \* number of versions of the checkout
    troubles   \* number of restarts, number of losses

files == <<tree, ledger, records, receipts>>
ram == <<queue, job, stage, authority, cancelled>>
vars == <<files, ram, adapters, versions, troubles>>

Open == {"queued", "running"}
Jobs == DOMAIN records
Clean == tree.files = tree.inputs
\* condition in _run_source_job.
Key(j) == [inputs |-> j.inputs, conditions |-> j.conditions]
Live(j) == j \in authority.live

\* The checkout is the worker's from its first check to its last write.
CheckoutBusy == stage \notin {"idle", "taken", "claimed"}

Settle(j, status) == records' = [records EXCEPT ![j].status = status]

NoLedger == [asked |-> FALSE, conditions |-> {}, attempts |-> {}]

Init ==
    /\ tree = [head |-> 1, inputs |-> 1, files |-> 1]
    /\ ledger = NoLedger
    /\ records = <<>>
    /\ receipts = {}
    /\ queue = <<>> /\ job = None /\ stage = "idle"
    /\ authority = [live |-> {}, revoked |-> {}]
    /\ cancelled = {}
    /\ adapters = {}
    /\ versions = 1
    /\ troubles = [restarts |-> 0, losses |-> 0]

-------------------------------------------------------------------------------
(* Submission, reconciliation, cancellation.                               *)

\* Mutant of Retained: any receipt of the source is the job's.
RetainedAny(j) == receipts # {}

\* _retained_receipt: the token, the attempt and the configuration agree.  The
\* refresh of a connector writes its receipt only when it succeeds.
Retained(j) == records[j].token /\ j \in receipts

Reconciled(j) == IF Retained(j) THEN "delivered" ELSE "failed"

\* The job is in the queue, or the worker has claimed it.
Observed(j) ==
    /\ j \in authority.live \cup authority.revoked
    /\ \/ job = j /\ stage # "taken"
       \/ \E i \in DOMAIN queue : queue[i] = j

PlannedNow(j) ==
    /\ Clean
    /\ j.head = tree.head /\ j.inputs = tree.inputs

\* enqueue_review_work: the conditions of the request are those of the plan.
Enqueue(conditions) ==
    ledger' = [ledger EXCEPT !.asked = @ \/ conditions # {}, !.conditions = conditions]

\* A plan without a job for the source: its budget is spent on others, nothing
\* is out of date in the scope it looks at.
Project(conditions) ==
    /\ ~CheckoutBusy /\ Clean
    /\ Enqueue(conditions)
    /\ ledger' # ledger
    /\ UNCHANGED <<tree, records, receipts, ram, adapters, versions, troubles>>

Submit(j) ==
    /\ ~CheckoutBusy
    /\ PlannedNow(j)
    /\ j \notin Jobs /\ Cardinality(Jobs) < MaxJobs
    /\ Enqueue(j.conditions)
    /\ records' = [k \in Jobs \cup {j} |->
                      IF k = j THEN [status |-> "queued", calls |-> 0, token |-> FALSE]
                      ELSE records[k]]
    /\ queue' = Append(queue, j)
    /\ authority' = [authority EXCEPT !.live = @ \cup {j}]
    /\ UNCHANGED <<tree, receipts, job, stage, cancelled, adapters, versions,
                   troubles>>

\* The same plan once more: the record is reconciled, nothing is sent again.
Resubmit(j) ==
    /\ ~CheckoutBusy
    /\ PlannedNow(j)
    /\ j \in Jobs
    /\ Enqueue(j.conditions)
    /\ IF records[j].status \in Open /\ ~Observed(j) THEN Settle(j, Reconciled(j))
                                                     ELSE UNCHANGED records
    /\ UNCHANGED <<tree, receipts, ram, adapters, versions, troubles>>

Cancel(j) ==
    /\ records[j].status \in Open
    /\ j \notin cancelled
    /\ cancelled' = cancelled \cup {j}
    /\ IF job = j /\ stage # "taken" THEN UNCHANGED records
                                     ELSE Settle(j, "cancelled")
    /\ UNCHANGED <<tree, ledger, receipts, queue, job, stage, authority, adapters,
                   versions, troubles>>

\* The session of the authorities is locked, expires or is replaced.
Revoke ==
    /\ authority.live # {}
    /\ authority' = [live |-> {}, revoked |-> authority.revoked \cup authority.live]
    /\ UNCHANGED <<files, queue, job, stage, cancelled, adapters, versions, troubles>>

-------------------------------------------------------------------------------
(* The worker.                                                             *)

Pop(j) == authority' = [live |-> authority.live \ {j},
                        revoked |-> authority.revoked \ {j}]

Take ==
    /\ stage = "idle" /\ queue # <<>>
    /\ job' = Head(queue)
    /\ queue' = Tail(queue)
    /\ stage' = "taken"
    /\ UNCHANGED <<files, authority, cancelled, adapters, versions, troubles>>

\* run_job: what was cancelled in the queue ends here.
Claim ==
    /\ stage = "taken"
    /\ IF job \in cancelled
       THEN /\ Settle(job, "cancelled")
            /\ Pop(job)
            /\ job' = None /\ stage' = "idle"
       ELSE /\ stage' = "claimed"
            /\ UNCHANGED <<records, authority, job>>
    /\ UNCHANGED <<tree, ledger, receipts, queue, cancelled, adapters, versions,
                   troubles>>

\* The job is over, however it ends.
Over(status) ==
    /\ Settle(job, status)
    /\ Pop(job)
    /\ job' = None /\ stage' = "idle"
    /\ UNCHANGED <<queue, cancelled>>

Admitted == job \notin cancelled /\ Live(job)

Same == tree.files = job.inputs

Named(l) == {a.job : a \in l.attempts}

\* Mutant of Uncustodied: only the ledger has the custody of adapters.
UncustodiedByLedger == TRUE

\* A job the ledger does not name is held to its record.
Uncustodied ==
    \A k \in Jobs \ (Named(ledger) \cup {job}) :
        records[k].calls > 0 =>
            /\ Retained(k)
            /\ k.conditions \cap job.conditions = {}

Uncertain(a) == a.status \in {"started", "uncertain"}

Recovered(l) ==
    [l EXCEPT !.attempts =
        {IF Uncertain(a) THEN [a EXCEPT !.status = "fetched"] ELSE a : a \in @}]

Certain == \A a \in ledger.attempts : Uncertain(a) => a.job \in Jobs /\ Retained(a.job)

\* Mutant of Allowed: a larger budget buys another attempt.
AllowedByBudget(l) == TRUE

\* review_attempt_allowed.
Allowed(l) ==
    LET same == {a \in l.attempts : a.key = Key(job)} IN
    /\ Cardinality(same) < job.attempts
    /\ \A a \in same : a.status # "blocked"

\* Mutant of Wanted: only what one condition collected is kept.
WantedAnew(l) ==
    /\ l.asked
    /\ \A a \in l.attempts : a.key = Key(job) => a.status \notin {"started", "fetched"}
    /\ Allowed(l)

\* Collected work needs factual review, not another fetch.
Wanted(l) ==
    /\ l.asked
    /\ \A a \in l.attempts :
          a.status = "fetched" => /\ a.conditions # {}
                                  /\ a.conditions \cap l.conditions = {}
    /\ \A a \in l.attempts : a.key = Key(job) => a.status \notin {"started", "fetched"}
    /\ Allowed(l)

Attempt(l) == [job |-> job, key |-> Key(job), conditions |-> l.conditions,
               status |-> "started"]

\* Everything the first check and the claim ask for.
Claimable == PlannedNow(job) /\ Admitted /\ Uncustodied /\ Certain

Refuse ==
    /\ ~Claimable
    /\ Over("failed")
    /\ UNCHANGED ledger

Repeat ==
    /\ Claimable /\ ~Wanted(Recovered(ledger))
    /\ ledger' = Recovered(ledger)
    /\ Over("failed")

Start ==
    /\ Claimable /\ Wanted(Recovered(ledger))
    /\ ledger' = [Recovered(ledger) EXCEPT !.attempts = @ \cup {Attempt(ledger)}]
    /\ Settle(job, "running")
    /\ stage' = "grounded"
    /\ UNCHANGED <<queue, job, authority, cancelled>>

\* The checks before the first effect, and the claim in the ledger.
Ground ==
    /\ stage = "claimed"
    /\ Refuse \/ Repeat \/ Start
    /\ UNCHANGED <<tree, receipts, adapters, versions, troubles>>

\* outcome.
Conclude(status) ==
    ledger' = [ledger EXCEPT !.attempts =
                  {IF a.job = job THEN [a EXCEPT !.status = status] ELSE a : a \in @}]

\* The except clause: the attempt is blocked if the authority still allows it.
Blocked ==
    /\ IF Live(job) THEN Conclude("blocked") ELSE UNCHANGED ledger
    /\ Over(IF job \in cancelled THEN "cancelled" ELSE "failed")

\* adapter_effect: the call is counted before it is made.
Call(next) ==
    /\ Same /\ Admitted
    /\ records' = [records EXCEPT ![job].calls = @ + 1,
                                  ![job].token = stage = "previewing"]
    /\ adapters' = adapters \cup {job}
    /\ stage' = next
    /\ UNCHANGED <<ledger, queue, job, authority, cancelled>>

\* The proposal branch is refused, the inputs have changed, the authority or the
\* adapter fails.
Fail == Blocked /\ adapters' = adapters \ {job}

BeginPreview ==
    /\ stage = "grounded"
    /\ Call("previewing") \/ Fail
    /\ UNCHANGED <<tree, receipts, versions, troubles>>

\* run_source_refresh reads the inventory again.
BeginRun ==
    /\ stage = "previewing"
    /\ Call("running") \/ Fail
    /\ UNCHANGED <<tree, receipts, versions, troubles>>

\* Another inventory or another configuration than was previewed refuses; what
\* was discovered may leave the configuration as it is.
Apply ==
    /\ stage = "running"
    /\ \/ /\ Same
          /\ \/ UNCHANGED <<tree, versions>>
             \/ /\ versions < MaxVersions
                /\ versions' = versions + 1
                /\ tree' = [tree EXCEPT !.files = versions']
          /\ adapters' = adapters \ {job}
          /\ stage' = "applied"
          /\ UNCHANGED <<ledger, records, queue, job, authority, cancelled>>
       \/ Fail /\ UNCHANGED <<tree, versions>>
    /\ UNCHANGED <<receipts, troubles>>

WriteReceipt ==
    /\ stage = "applied"
    /\ receipts' = receipts \cup {job}
    /\ stage' = "receipted"
    /\ UNCHANGED <<tree, ledger, records, queue, job, authority, cancelled, adapters,
                   versions, troubles>>

\* Edits of other files, or of those just written, refuse delivery, and so does
\* an authority revoked meanwhile.
Finish ==
    /\ stage = "receipted"
    /\ \/ /\ Live(job)
          /\ Conclude("fetched")
          /\ Over("delivered")
       \/ Blocked
    /\ UNCHANGED <<tree, receipts, adapters, versions, troubles>>

-------------------------------------------------------------------------------
(* The surroundings.                                                       *)

\* Someone edits the inputs of the source.
Edit ==
    /\ versions < MaxVersions
    /\ versions' = versions + 1
    /\ tree' = [tree EXCEPT !.files = versions']
    /\ UNCHANGED <<ledger, records, receipts, ram, adapters, troubles>>

\* A commit, of the inputs or of other files, or a checkout of the inputs.
Git ==
    /\ ~CheckoutBusy
    /\ \/ /\ tree.head < MaxVersions
          /\ tree' = [tree EXCEPT !.head = @ + 1, !.inputs = tree.files]
       \/ /\ ~Clean
          /\ tree' = [tree EXCEPT !.files = tree.inputs]
    /\ UNCHANGED <<ledger, records, receipts, ram, adapters, versions, troubles>>

\* The state file of the source is deleted.
LoseLedger ==
    /\ ledger.attempts # {} /\ troubles.losses < MaxLosses
    /\ ledger' = NoLedger
    /\ troubles' = [troubles EXCEPT !.losses = @ + 1]
    /\ UNCHANGED <<tree, records, receipts, ram, adapters, versions>>

\* The process ends at any point; the next one reconciles the open records.
Restart ==
    /\ troubles.restarts < MaxRestarts
    /\ records' = [j \in Jobs |->
                      IF records[j].status \in Open
                      THEN [records[j] EXCEPT !.status = Reconciled(j)]
                      ELSE records[j]]
    /\ queue' = <<>> /\ job' = None /\ stage' = "idle"
    /\ authority' = [live |-> {}, revoked |-> {}]
    /\ cancelled' = {}
    /\ troubles' = [troubles EXCEPT !.restarts = @ + 1]
    /\ UNCHANGED <<tree, ledger, receipts, adapters, versions>>

\* An adapter that was left behind ends.
OrphanEnds ==
    \E j \in adapters :
        /\ job # j
        /\ adapters' = adapters \ {j}
        /\ UNCHANGED <<files, ram, versions, troubles>>

Plans == [head : {tree.head}, inputs : {tree.inputs},
          conditions : (SUBSET Conditions) \ {{}}, attempts : Attempts]

Worker ==
    \/ Take \/ Claim \/ Ground \/ BeginPreview \/ BeginRun \/ Apply \/ WriteReceipt
    \/ Finish

Next ==
    \/ \E j \in Plans : Submit(j) \/ Resubmit(j)
    \/ \E conditions \in SUBSET Conditions : Project(conditions)
    \/ \E j \in Jobs : Cancel(j)
    \/ Revoke \/ Worker
    \/ Edit \/ Git \/ LoseLedger \/ Restart \/ OrphanEnds

Spec == Init /\ [][Next]_vars
-------------------------------------------------------------------------------
(* Properties.                                                             *)

\* A claim in the ledger that is open is the worker's or has its record; the
\* worker's job is recorded, and its authority is in RAM.
TypeOK ==
    /\ \A j \in Jobs : records[j].calls \in 0 .. 2
    /\ receipts \subseteq Jobs /\ adapters \subseteq Jobs
    /\ Named(ledger) \subseteq Jobs
    /\ (stage = "idle") = (job = None)
    /\ job # None => job \in Jobs /\ job \in authority.live \cup authority.revoked
    /\ authority.live \cap authority.revoked = {}
    /\ \A j \in Jobs : records[j].calls = 2 => records[j].token

\* "An unreconciled attempt bars another background operation on the same
\* source": never two adapters of a source, though one outlives its operator,
\* though the ledger is lost, though inputs or budgets change.
OneAdapter == Cardinality(adapters) <= 1

\* "Attempts need ... a changed blocking condition before retry": no two jobs
\* call the adapter under one condition.
TriedOnce ==
    \A j, k \in Jobs :
        records[j].calls > 0 /\ records[k].calls > 0 /\ Key(j) = Key(k) => j = k

\* "missing or failed receipts cannot become successful collection".
DeliveredIsReceipted ==
    \A j \in Jobs : records[j].status = "delivered" => j \in receipts

\* What the ledger has as collected it does not have twice, whichever of worker
\* and reconciliation concluded the attempt.
CollectedOnce ==
    \A a, b \in ledger.attempts :
        a.status = "fetched" /\ b.status = "fetched" =>
            a = b \/ a.conditions \cap b.conditions = {}

\* The worker's state is consistent, and one adapter of a source runs.
Safety == TypeOK /\ OneAdapter

\* "source_review_reconciliation_required_no_automatic_retry": what was
\* answered as failed does not run afterwards.
FailedIsFinal ==
    [][\A j \in Jobs : records[j].status = "failed" =>
          records'[j].status # "running"]_vars
===============================================================================
