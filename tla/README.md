# Wiki Viva Kit: verification project

Wiki Viva Kit keeps a wiki of markdown pages in a git repository and runs, on the
owner's machine, a local *operator*: an HTTP server that shows the wiki in a
cockpit, lets the owner unlock an administrative session, plans and executes
commands on the repository, and queues coding agents that write proposals. Beside
it command line tools publish snapshots of the wiki, move actions through their
lifecycle, collect sources and install packs. This directory holds TLA+ models of
the parts that have a protocol, TLC configurations that check them on small
instances, and theorems that the TLA+ proof system checks for every instance.

Ten components are modelled. They are where the program is concurrent or may be
interrupted: one thread per HTTP request, one worker thread for agents, an agent
process, publishers and command line processes that share locks, editors and git,
which take none, and a provider that answers late or never. The rest of the kit
(parsing, projections, scores, reports) computes one result from one input.

Paths are relative to `src/wiki_core/` unless they start with another directory.

## 1. Inventory

### 1.1 Parts that are modelled

**Admin session manager** (`web/admin/sessions.py`).
*State*: the unlock code and its age, pending challenges, two rate windows, the one
current session with its token, retired sessions (16 at most), the number of
effects in flight for each session, sessions with an outcome in doubt; all under one
mutex with a condition variable, all in memory.
*Operations*: `arm`, `issue_challenge`, `unlock`, `validate`, `renew`,
`execute_current` (admit an effect, run it with the mutex released, settle it),
`lock` (end the session and wait up to a second for its effects).
*Hard*: the mutex is released in the middle of three calls; the code for the next
session is printed by a thread that no longer holds it; a session can end while its
effects run; the outcome of an effect may be unknown.
*Correct means*: one session acts at a time; a confirmed revocation is final; no
code opens a session over a live one; counts equal what runs; nobody waits forever.

**Admin command bus** (`web/admin/plans.py`, with the handlers in `web/server.py`).
*State*: a store of plans (age and capacity bounded), each with the preconditions
(HEAD, branch, fingerprints of worktree and configuration) read when it was made;
`CHECKOUT_LOCK`, one lock for every writer of the checkout in the process.
*Operations*: plan (validate the session, build, put) and execute (peek a copy,
validate it, take the lock or answer busy, compare the preconditions, consume, run
the executor through `execute_current`, release). Other posts go through
`_authorized_effect`, which waits for the lock.
*Hard*: what is checked before the lock is used after it; two requests hold the same
plan; the owner locks and unlocks in between; the store prunes under a request; an
editor and the job worker write the same files.
*Correct means*: a plan runs at most once, for the session that reviewed it, on what
was reviewed; the checkout has one writer and is always given back.

**Agent job runner: queue and cancellation** (`web/codex_jobs.py`, its route in
`web/server.py`).
*State*: one record per job on disk; in memory a queue, the set of cancelled ids, the
id the worker has claimed, the agent's process.
*Operations*: submit, the worker from dequeue to settlement, cancel (read the record,
flag, terminate, write the record), the watchdog, a restart.
*Hard*: cancel and the worker write the same record from copies read earlier; a
cancel can come between any two steps of the worker; one exception must not end
the only worker; the agent may be silent forever; a restart keeps the records
and loses the queue.
*Correct means*: every job ends, or a restart lost it; a flagged job starts no agent;
a job says cancelled only when it has cleaned up; a delivered job stays delivered.

**Agent job runner: git checkout** (`web/codex_jobs.py`, `web/git_workflows.py`,
`web/git_ops.py`).
*State*: branches with their commits, HEAD, index, working tree, and the baseline a
job takes of what is the owner's.
*Operations*: get on a branch (fresh, resume or continue on the current one), run
the agent, go back to the job's branch, pick the changes, stage, commit, publish,
unwind a failure.
*Hard*: the agent may run git itself; the owner edits and stages meanwhile; every
git command can fail.
*Correct means*: the owner's uncommitted work survives; a job's commit takes of it
nothing that the owner did not stage (the code says: nothing at all, which findings 17 and
18 contradict); the checkout is not left on a half-built branch.

**Operator server** (`web/server.py`).
*State*: receipts of attempts (512), the number of active mutations, one cached
snapshot with the revision it was built from, the snapshot lock.
*Operations*: a POST (claim its attempt key, work behind the mutation barrier,
invalidate, end the mutation, close the receipt, answer), a GET (reuse, wait for or
build the snapshot; rebuild while the source moves).
*Hard*: clients retry; work, encoding and socket fail at any point; a build is
longer than a mutation; one reader is answered from what another observed.
*Correct means*: one run per attempt key; a replay repeats the first answer; a
client told of a write reads it; no snapshot mixes two states of the wiki.

**Snapshot publication** (`web/snapshot.py`).
*State*: a store of revisions named by their hash, the active path, which is a symlink
into it, a publication lease, one lease per revision, and the containers publishers
work in, with their ownership markers, intents and receipts.
*Operations*: publish (pin what is active, reconcile leftovers, install, exchange,
compare, restore or archive, prune, remove the container), prune alone, roll back,
load.
*Hard*: publishers die between any two file operations; people and older versions
put entries at the active path without a lease; a reader reads while
revisions are pruned; a leftover must be told from a stranger's directory.
*Correct means*: what is active is complete; what is read stays; no stranger's
directory is destroyed; what a dead publisher leaves is cleaned up or left alone,
never deleted on a guess.

**Action lifecycle** (`action_transition.py`, `action_state.py`, `action_dialogue.py`).
*State*: one page per action: its state, the fields that state owns, and a chain of
receipts, each bound to the hash of the page before and after.
*Operations*: transition, edit, comment, contribute, consolidate, each under the
page's lock and for the revision the caller reviewed; the audit of a page against the
one that was merged last.
*Hard*: two writers with one reviewed revision; a caller that repeats a request
whose answer was lost; editors and git, which take no lock; time zones; pages older
than the receipts.
*Correct means*: a revision has one successor; a terminal action is never reopened;
the audit accepts what the writers write and refuses a state they did not.

**Source review jobs** (`web/source_review_jobs.py`, `source_state.py`,
`web/source_operations.py`, the worker of `web/codex_jobs.py`).
*State*: records of jobs, a ledger of attempts, receipts of refreshes, authorities in
memory, the adapter's process, which may outlive the operator.
*Operations*: submit, cancel, the worker (claim, ground, preview, run, apply, receipt,
settle), reconciliation at a start and at a submission.
*Hard*: a restart with an attempt of unknown outcome; a job in neither the queue nor the
worker's hands; a lost ledger; a revoked authority between two calls of the adapter.
*Correct means*: adapters of a source never overlap; a condition is tried once; what is
delivered has its receipt; nothing is collected twice.

**Experience packs** (`_experience_pack_lifecycle.py`, `_experience_pack_state.py`).
*State*: bundles in the wiki, receipts, a lock file that names both, a quarantine.
*Operations*: install, upgrade, disable, remove, under one lock of all processes.
*Hard*: each writes up to three things, any write may fail and is undone, a process
may crash, and people edit bundles and restore the lock file from git.
*Correct means*: the active packs compose; what the lock file names exists; a failed
operation is undone; what people edited meanwhile stays, but for what they write into a
file at the very moment of its deletion (finding 20).

**Proposals: publish, promote, adopt** (`web/normal_proposal.py`).
*State*: the local branches, the proposal branch and pull request at the provider, the
default branch there, the commands on their way.
*Operations*: every executor observes, asks the session manager for each command, sends
it, reads back what it did, and poisons the process when it cannot tell.
*Hard*: a command may land late or never; others push, close, reopen and merge;
the owner works in a shell; sessions end in between.
*Correct means*: nothing is sent while something is in doubt; what is merged was
reviewed; no commit of the owner is dropped.

### 1.2 How they interact

    cockpit --HTTP--> server.py --+-- attempts, barrier, cache      OperatorServer
                                  +-- sessions.execute_current      AdminSession
                                  |      (promise: AdminAuthority)
                                  +-- plans / _authorized_effect    AdminPlan
                                  |      CHECKOUT_LOCK
                                  |      +-- proposal executors     ProposalDelivery
                                  +-- jobs -- JobRunner             JobQueue
                                             +-- agent, git         JobCheckout
                                             +-- adapter, ledger    SourceJobs
    command line ----+-- publish, prune, load                       SnapshotStore
                     |      +-- activation containers               SnapshotCleanup
                     +-- action writers, gate                       ActionLifecycle
                     +-- packs                                      ExperiencePack

`CHECKOUT_LOCK` is what the command bus, the posts and the worker share: in AdminPlan
the worker is a writer that takes the lock, in JobQueue the requests are, in JobCheckout
a job runs alone because of it, and in ProposalDelivery one executor at a time works
because of it. `execute_current` is what the command bus needs of the session manager:
AdminPlan and ProposalDelivery are written over AdminAuthority, the abstract promise,
and AdminSession is shown to implement it. The worker runs agent jobs and source jobs
from one queue: JobQueue and SourceJobs model the same loop, each with the steps and the
restart that concern it. The server's barrier and cache surround every POST and know
nothing of sessions. Snapshots, actions and packs share no state with the rest but the
files of the wiki, and in each model "an editor" or "a stranger" is everybody else.

### 1.3 Parts that are not modelled

| Part | Why not |
| --- | --- |
| Proposal preparation, `web/normal_proposal.py` | renders, checks and commits documents in one process under the checkout lock; most of it is content. Between its last check and its commit (440-455) an editor's write can enter, as in AdminPlan. |
| Git workflows over HTTP, `web/git_workflows.py` | sequences of git commands behind `_authorized_effect`; the part jobs use is in JobCheckout. Their own busy answer cannot occur behind that lock. |
| Action contribution and adoption, `action_contribution.py`, `action_adoption.py` | one command line process that sends the commands of ProposalDelivery; what it adds is the reconciliation of a merged proposal with its action. |
| Gate, `gate/state_machine.py` | reads, compares and writes a proposal's state without a lock, and promises nothing about two people at once. Listed as a hazard. |
| Audit log, `web/admin/audit.py` | a chain of digests, under a lock of its own that no executor waits on; its correctness is about bytes. A torn append is listed as a hazard. |
| Briefs, `web/briefs.py` | one record per brief, last writer wins |
| Ingestion, sources' declarations, model passes | one input, one process; the outcome depends on content or on a model's answer |
| Snapshot projection, page model, quality, reports, command line scripts, kit synchronisation | functions from files to files or documents: no state that outlives a call, nothing interleaves |
| Cockpit, `apps/wiki-cockpit/src` | the browser; its retries are the repeated requests of OperatorServer |

These parts are most of the kit's lines: content computation, rendering, validation of
declared data and entry points. A model of them would be a copy of the program, with no
interleaving to explore and no property that a test does not reach, so the models
cover about a twelfth of the implementation and are meant to.

## 2. The models

Every module abstracts data and keeps control. An action is one critical section,
one git command, one file operation that others can see, or the stretch between two
points where another actor can interfere; `PROJECT.json` maps each definition to its
lines. Operators whose comment begins with "Mutant of" are not part of any
specification: they are faulty versions of a definition, each breaking one property.

### AdminAuthority: what the session manager promises

The abstract specification: at most one session has authority, an effect acts for
the session that was current when it began, `Confirm` says that nothing acts
for a past session any more, an uncertain outcome (`poisoned`) bars every later
`Open`, a restart forgets all of it except the history. 99 lines that the command bus can
be read against without knowing tokens, codes or limits.

### AdminSession: `web/admin/sessions.py`

One action per critical section of the manager's mutex. A thread has a program
state only where the code leaves the mutex inside a call: an effect runs, its
outcome is recorded and then settled (two sections), `lock()` waits, `arm()` is owed.
Tokens are (session, number of renewals); codes and challenges are "usable" or "too
old", and grow old at any moment by actions of their own. Rate windows count up to
their limit and slide at any moment. `uncertain`, `retired` and `inflight` are the
code's own structures. `confirmed` and `opened` are history. `Restart` is the
constructor of the next process.

### AdminPlan: `web/admin/plans.py` and the handlers that reach the checkout

Built on AdminAuthority (its `Begin`, `End`, `Poison` are conjuncts of the steps that
call `execute_current`). A request is a thread that goes through
validate, peek, lock, check, consume, admit, run, release; a content post
through queue, inside, write. The checkout is a HEAD number (branch and commit) and
a number of edits per file; `Fingerprint` is what the code hashes of it: HEAD,
the *set* of dirty paths, and the content of the configuration. The planners and
executors of the single commands are abstracted to "refuse" or "write anything for as
long as you run". Plans are numbered in order of arrival, so "oldest" is "smallest".
The worker is a writer with the lock, the editor a writer without.

### JobQueue: jobs, worker, cancel, restart

The worker thread's steps between which a cancel can come (take, claim, wait, begin,
check the flag, prepare, launch, agent, reap, unwind, finish, leave, fail, settle)
and the three steps of a cancel. `routed` says whether callers come
through HTTP, where they hold `CHECKOUT_LOCK`, or from inside the process as in the
tests of the runner; both kinds are in every run. The agent ends, prints bytes
that do not decode, is stopped by its watchdog, or stops because it was told to.
`Restart` may come between any two steps: the records stay, everything else is gone,
and the jobs whose records were unfinished are `lost`, a history variable. The code
does nothing about them; only a cancel ends such a record.

### JobCheckout: what one job does to git

Branches with content and commits, index, working tree. A file's content is the set
of hands that edited it, which is all that "whose work is lost" needs. A file in
`NewDirs` lives in a directory no commit has: `git status` shows that directory as
one row, and the runner works with rows. The agent edits, commits, switches to a
branch of `Wanders`, creates one; the owner edits and stages `Stageable` files at
any time. Every git command may fail where the code handles a failure. The steps of
a job follow `_run_job_locked` in its three modes. The runner's commit takes the whole
index, as `git commit` does; `ownersIndex` is history, the files of which what is staged
was staged before the job or by the owner since, so that a property can tell whose staging
is committed.

### OperatorServer: attempts, barrier, snapshot cache

The wiki is the number of writes made to it. Its revision is that number; a build
reads twice, `lo` then `hi`, so it can see one page before a write and another
after. Receipts are a function of the keys that are kept. A new claim makes room by
forgetting the completed ones it must, and any others, whose age may be over; which of
them are older is left open. A thread has the state of its POST, and separately of
the snapshot it reads, because two kinds of POST compose their work from a snapshot.
`known` is the latest write any answer has reported: a later reader must not get
less. A mutation writes at most twice. The snapshot lock with its coalescing (`covered`
are the readers that an observation made by another may answer), stable builds with
retries, failing work, failing encoding, failing sockets with their second answer, and
an editor are all there.

### SnapshotStore: publication, retention and readers

The active path holds nothing, a pointer of the store, a flat directory of the older
layout, or a stranger's directory or symlink with an identity of its own. A
publication is the sequence of `Steps` of its process: what it read as active
(`expected`), what its container holds (`box`), the revisions it means to remove.
Install, exchange, comparison, restore, archive and each removal are separate, and a
process may die at every one. `pulled` marks the readers of a revision whose own
publisher takes it back (finding 9). Removing a container succeeds when
it is empty; how is the next module.

### SnapshotCleanup: the life of one activation container

Two paths, at most two directories at a time, each with an inode and a set of contents:
ownership marker, draft of an intent, intent, pointer, archived tree, somebody's data.
The intent is bound to the inode, so is the receipt in the store. One file operation per
action, `Die` at any of them, and the reconciliation of the next publisher, which
decides from what it sees alone. `Swap` is a stranger who puts a directory of its own at
one of the paths.

### ActionLifecycle: writers, editor, gate

A text is a record whose `rev` stands for its SHA-256. A writer reads under the lock,
refuses or computes the successor with one more receipt, and replaces the file; a client
names the revision it reviewed. Edits by hand, which change the state or a governed
field, merges, which move the base the gate compares with, and checkouts, which take the page
back to it, need no lock: each may come between the reading of a writer and its write. `seen` keeps what the writers had made of the text that was read. Instants are
two a day and offsets move them between days, which is what the dates of receipts and
completions are about. `honest` is history: what the writers alone made of the base, and
whether they were alone; a checkout under a writer counts as an edit by hand, and so does a
merge of a text that is not the one the writer has read. `Pages` and `RequestSpace` say what
pages and requests may be, and `LifecycleAssumption` that the pages to begin with have their receipts in order (`Linked`),
as every page has that the writers made.

### SourceJobs: worker, ledger, adapter, restart

One source with one review request. A job is the plan it was submitted with: head and
digest of the inputs, conditions, budget. Records, ledger, receipts and checkout survive
a restart; queue, authorities and flags do not; an adapter that runs when the operator
dies goes on (`OrphanEnds`). The ledger may be lost, which the code expects of a file
outside the repository. `Reconcile` is the code's own decision about a record it finds
unfinished, at a restart and at a submission.

### ExperiencePack: operations, undo, crashes

`Plan` computes the lock file after the operation, or refuses: composition of needs,
conflicts and exclusive claims, dependents of what is disabled or removed. The operation
then writes bundle, receipt, lock, moves a bundle into quarantine and deletes it; each
write may fail, after which the undo runs in the code's order and its own writes may
fail as well. A crash ends it anywhere. Where the code compares and then acts, these are two
steps: the lock file is compared ("compare", "recompare") and replaced after that ("replace",
"putback"), and a file in quarantine is compared ("wipe") and unlinked after that
("unlink"). Between any two steps people edit bundles, also through an open file of a
bundle that was moved away, and git restores the lock file. A bundle is none, whole,
partial or edited, or "late": written to after its comparison. `overtaken` is history: who
compared the lock before git restored it.

### ProposalDelivery: executors against a provider

A proposal head is the number of its commits; a default branch is the sequence of
what was merged into it. An executor observes, is admitted, sends a command, which
joins `sent` and lands at any later moment or never, and reads back. `known` and
`here` mark commands whose effect was read and those of this process. Others push,
force the branch back, review, close, reopen and merge; the owner commits, edits
and switches branches in a shell; sessions change and processes restart. AdminAuthority
is the session manager.

## 3. The runs

| Run | Module | What it shows |
| --- | --- | --- |
| `session` | MCAdminSession | the session manager is safe and implements AdminAuthority; each `lock()` is answered and an ended session drains |
| `plan` | MCAdminPlan | plans run once, for their reviewer, on the reviewed commit, alone, and the lock is given back |
| `jobs` | MCJobQueue | every job ends or was lost by a restart; cancellation is clean and early; through the route, delivery is final |
| `tree` | MCJobCheckout | the owner's earlier work survives two jobs, whose commits take of it only what was staged before or by the owner; foreseen failures restore the default branch |
| `server` | MCOperatorServer | one run per key, final receipts, exact barrier, read-your-writes, whole snapshots, no orphaned claim, no deadlock |
| `snapshot` | MCSnapshotStore | what is active is complete, what is read stays, strangers' directories survive, nobody waits for ever |
| `cleanup` | MCSnapshotCleanup | a container is recovered after any deaths or is one of those left alone; never anonymous; strangers' data stay |
| `actions` | MCActionLifecycle | one successor per reviewed revision; terminal is final; the audit accepts writers and refuses a state moved by hand, with merges and checkouts under a writer |
| `sources` | MCSourceJobs | adapters never overlap; a condition is tried once; delivered means receipted; collected once in the ledger |
| `packs` | MCExperiencePack | the active packs compose; the lock file is backed and follows receipts, and edits are kept, with the two windows of the code stated exactly; an undone operation leaves nothing |
| `delivery` | MCProposalDelivery | what is merged was reviewed; nothing is sent beside a doubt; no local commit is dropped |
| `sources_race` | MCSourceJobs | *violation*: finding 13 |

### Properties

Each has a comment in its module with the sentence of the code or its docs that it
renders. What a run calls `Safety`, or by its own name where two models meet in one proof
module, is its type invariant with the invariants named here.

- *AdminSession* `SessionInv`: `OneSessionActs`, `ConfirmedIsQuiet`, `OneWayIn`,
  `PendingRevocationIsKnown` relate what threads do now to what the owner was told
  or what was printed earlier, `InflightIsExact` the count to the threads.
  `DoubtBarsOpening` holds also in the gap between the return
  of an effect and the section that records its doubt; `ImplementsAuthority` is the
  refinement; `NobodyWaitsForEver` is liveness.
- *AdminPlan* `Safety`: `RunsOnce` is about two requests with copies of one plan;
  `RunsForItsReviewer` and `StartsOnReviewedHead` relate the execution to the review;
  `OneWriter` and `CheckoutIsReleased` say that `CHECKOUT_LOCK` is held exactly in the
  guarded region. `RevokedNeverWrites` combines lock, sessions and effects.
- *JobQueue* `Safety`: `RunningUntilCleanedUp`, and `PromisesAreKept`: an unfinished
  record has a request, a queue entry or the worker behind it, or a restart lost it.
  `LastWord`: a delivery through the route is never rewritten, a flagged job starts no
  agent. `JobFinishes` and `CancelStops` are liveness.
- *JobCheckout* `BaselineSpared`; `OwnedIsNotSwept`, about the content of the commit and not
  only the paths the job picked, with two exceptions: what the owner himself has staged
  (finding 18) and a file that left the row of its directory (finding 17); TLC finds the commit
  without either. In `CheckoutSafety` `HandledNotStranded`.
- *OperatorServer* `Safety`: `OneRunPerKey`, `AttemptsClose`, `BarrierIsExact`; then
  `ReceiptIsFinal`, `ReadYourWrites`, `SnapshotIsWhole`.
- *SnapshotStore* `Safety`: one publisher works and `ActiveIsWhole`; `LeaseHolds`
  is about a prune beside a reader, `DirectoriesKept` about exchange, restore, death and
  reconciliation together; `EverybodyGoesOn` is liveness.
- *SnapshotCleanup* `CleanupSafety`: `NeverUnattested`, the order of marker, intent and receipt
  that lets the next publisher tell whose a directory is. `StrangersStay` is its other
  side. `ContainerRecovered` is liveness, whose exceptions (`Ambiguous`) are the states the code
  preserves on purpose.
- *ActionLifecycle* `ActionSafety`: `AuditAcceptsWriters`, for any sequence of writes in any
  time zone; `StateIsReceipted` for any mixture of writers and editors; `OneSuccessor`
  for two writers and repeated requests; `TerminalIsFinal`.
- *SourceJobs* `Safety`: `OneAdapter`; `TriedOnce`, `DeliveredIsReceipted`, `CollectedOnce`
  across restarts, lost ledgers and reconciliation.
- *ExperiencePack* `ActiveCompose`; `Safety`: `LockedIsBacked`; `LockFollowsReceipts`, which
  excepts a lock that git restored between its comparison and its replacement;
  `FailureIsClean`: `EditsKept`, which excepts a file written to between its comparison and
  its unlink, and `UndoneIsAsBefore`. Both exceptions name the single step that loses something;
  at every other step of every interleaving nothing is lost.
- *ProposalDelivery* `Safety`: `MergedIsReviewed`; `NothingBesideDoubt`, `NothingDropped`.

### Bounds

- **session**: two threads, so that one runs an effect while the other locks, renews,
  validates or unlocks; three sessions, so that a past session is retired and forgotten
  (`MaxRetired = 1` instead of 16) while two later ones come; one renewal, so that a
  stale token of the current session exists; limits of one, so that each is
  met. Three capabilities: held, left to a doubtful session, never held.
- **plan**: two requests that can hold the same plan, two sessions (the reviewer and the
  next), two plans in a store of one, so that pruning happens under a request; one
  commit and one edit are enough to make a plan stale.
- **jobs**: two jobs, so that one waits behind the other, two callers, so that two
  cancels, or a submit and a cancel, overlap, and one restart at any point. The jobs
  are interchangeable, so the liveness properties ask about one of them.
- **tree**: one tracked page and one draft in a new directory, either of which the owner
  may stage; two jobs, the second on what the first left; two commits (the agent's and the
  runner's); one edit by the owner; four branches, one for each role in the code.
- **server**: two handlers, two keys for one receipt (512 in the code) so that pressure
  is the normal case, two inputs so that a key can be reused for other work, three writes
  so that a mutation and an editor's write interleave with a build, two build
  attempts (five in the code): one that is repeated and one that is the last.
- **snapshot**: two publishers, one reader, three revisions of which two are kept, so that
  a prune has a victim; one of them is the flat directory's; two faults, so that a
  stranger's write and a death fall into one publication. Strangers put directories; that
  their symlinks can be lost is finding 8.
- **cleanup**: three deaths, so that two recoveries are cut short as well; two swaps,
  so that both paths can be a stranger's.
- **actions**: two clients beside an editor, four pages to begin with (new, without a
  state, closed by its author, with a receipt of an older version), three writes, three
  instants on two days, an operator at UTC and one a day west.
- **sources**: two jobs, two conditions, two versions of the checkout, one restart, one loss
  of the ledger. The budget is one attempt: see "Also seen".
- **packs**: four versions of three packs; `b` needs the first version of `a`, so
  upgrading `a` must be refused, and excludes `c`. Four operations, two failed writes
  (the second in the undo), one crash, one edit.
- **delivery**: two heads, pull requests, sessions and interventions each: one before and
  one after any observation.

Threads, keys, clients and conditions are interchangeable, and `plan`, `server`, `actions`,
`sources` and `packs` use that symmetry; none of these runs checks liveness.
Deadlock is checked in `session`, `jobs` and `server`. The others stop when their
history bounds (plans, commits, jobs, faults, operations) are used up, or, in `snapshot`
and `cleanup`, when a stranger's entry bars all that follows, and switch it off.

### Fairness

- `ThreadSpec` (AdminSession): weak fairness of the steps a thread takes by itself
  (print the code, record and settle an outcome, wake up from the wait of `lock()`,
  whose timeout is a second). Whether an effect ends is *not* assumed, except in
  the part of `NobodyWaitsForEver` about draining, whose premise `EffectsAreBounded`
  states it: the code runs effects with timeouts of their own.
- `ScheduledSpec` (JobQueue): strong fairness of the worker and of each request. Only
  `CHECKOUT_LOCK` can bar a step of theirs that was possible: it has no queue, but each
  release wakes waiters, so one that waits through infinitely many releases gets
  in. This is an assumption about `threading.RLock`, which promises no order.
  `WF(AgentStops)`: a signalled process dies. `JobFinishes` also needs the watchdog,
  stated as the premise `AgentsAreBounded`.
- `FairSpec` (SnapshotStore): weak fairness of the publisher at work while it lives, which
  waits for no one but the kernel; strong fairness of a reader, who may find
  revisions leased for removal again and again. No process is forced to begin.
- `FairCleanup` (SnapshotCleanup): weak fairness of the work on the container: the process at
  it goes on, and after a death another publication or prune comes at some time.
- No fairness is assumed in the other modules. What could be liveness there is stated as
  safety: `CheckoutIsReleased`, `AttemptsClose` and `PromisesAreKept` say that whoever owes
  something is still on its way to it.

## 4. Theorems

TLAPS proves, for any sets of threads, processes and data and any bounds, and for
specifications without fairness:

**AdminSessionProofs.** `TypeCorrect`: the types. `SessionSafety`: `SessionInv` is
invariant. It contains `PastIsPast`, without
which the rest is not inductive: only the session opened last can be current, and
every thread, retired token and confirmation names an opened one. The proof takes one
lemma per action; `AwaitStep` and `SessionEnds` hold what several actions share, and
the counting lemmas (`ActorsCount`, `ZeroMeansQuiet`) relate `inflight` to the number of
threads that act. `DoubtBars` is an action property from the same
invariant. `Refinement`: AdminSession implements AdminAuthority, with one lemma per
action that names the abstract step it is (`...Mapped`).

**AdminPlanProofs.** `PlanTypeCorrect`, `PlanSafety`, `RevokedWritesNothing`, from `Inv`:

- `Locked`: a thread is in the guarded region exactly if it holds the lock;
- `Registered`: a thread is in an effect exactly if `execute_current` counts it;
- `RevokedIsPast`: confirmed sessions are neither current nor acting;
- `SpentOnce`: an unspent plan has not run, and one that waits to be admitted is spent
  and has not run;
- `RunsForItsReviewer` and `StartsOnReviewedHead`, inductive beside those four.

`RunsOnce` alone is not inductive: nothing would keep a thread at *admit* from running a
plan that ran. `SpentOnce` says that it has not, and is kept because the lock lets one thread
at a time be there (`OneHolds`). `StartsOnReviewedHead` is kept because the steps
that move HEAD need the lock, and the editor, who needs none, cannot move it.

**AgentJobProofs**, of JobQueue. `QueueSafety` and `LastWordStands`, from `IInv`: a job is in one
place at a time, a request that submits it, the queue, or the worker (`SubmitsOK`,
`QueueOK`, `WorkerOK`); while the worker has claimed it nobody else writes its record, for a
cancel that is about to write found it unclaimed and has set its flag (`CancelsOK`),
which keeps the worker from claiming it. Through the route, who holds `CHECKOUT_LOCK` when it
reads a record also holds it when it writes. `PromisesAreKept` is carried beside `IInv`: a restart
moves every unfinished job to `lost`.

**AgentJobProofs**, of JobCheckout. `CheckoutIsSafe`, `OwnersEditsSurvive`, `OwnersWorkIsNotSwept`,
for any files, directories and branches and any number of jobs, commits and edits, from
`CheckoutInv`:

- `Layered`: what is committed is in what is staged, and that in the working tree, so that
  whatever is not committed shows in the working tree;
- `OwnedStays`: until the job has picked its changes, what was the owner's is uncommitted and
  the baseline knows it by its own row or its directory's; a job that changed branches
  began with nothing of the owner's;
- `OwnedIsNotPicked`: what is picked has no row of the baseline and, but for a file that left
  the row of its directory, no file of the owner's;
- `Held`: a job that ended badly off the default branch left the tree dirty, or the default
  branch is gone.

`OwnersWorkIsNotSwept` is about the commit, so it also needs `Unswept`: from the baseline to the
commit, what the index has of an owned file beyond what is committed was staged before or by the
owner, or is a file that left its directory's row (finding 17). The staging step is where
`OwnedIsNotPicked` is used.

**OperatorServerProofs.** `ServerSafety`, `ReceiptsFinal`, `ReadsItsWrites`,
`SnapshotWhole`, from `IInv`. A key in flight is never forgotten, so its thread stays alone
(`OneOwner`, `Owned`), and the barrier is the number of such threads
(`Cardinality` of `Owners`). `CacheOK`: whatever is cached is whole and as new as `known`, as the
levels of all receipts, and as the level of every POST that may already have told of it, because the
cache is emptied between the last write and anything that tells. `LookOK`: what a build
has read lies between the revision it observed before and the present, so if the
revision observed after is the same, the build is whole. The wiki only moves forward.

**SnapshotProofs**, of SnapshotStore. `StoreSafety`, `LeasesHold`, `KeepsDirectories`, from `IInv`:
one process works, the lease holder, and `Stage` says at each of its steps what may be
active and what its container holds. What it is about to remove is not active: its own
revision, because an exchange that is undone puts back what was there; an old one,
because the active pointer, if it is one of the store, names the revision it works for.

**SnapshotProofs**, of SnapshotCleanup. `CleanupIsAttested` and `StrangersAreLeft`, for any
number of deaths and of strangers' directories, from `CleanupInv`: the step at hand knows what
its own container holds, and nothing of another's (`Drafted`); inodes are used once, and no
directory is put where a new one would be taken for it (`Settled`); the receipt stands
while the directory it is bound to loses its files, and goes when no directory is left
(`Bound`). `NeverUnattested` alone is not inductive: between two files of a removal only `Bound`
says that the receipt is there.

**SourceJobsProofs.** `SourceSafety`, `TriesOnce`, `DeliversReceipted`, `CollectsOnce`, from
`IInv`: a job waits once and untried (`QueueOK`); an adapter that runs without its operator has a
record with a call and no receipt, and bars the worker by its attempt if the ledger names it,
by its record if the ledger was lost (`AdaptersOK`); attempts that collected or may have
share no condition (`Apart`).

**ExperiencePackProofs.** `Compose`: `ActiveCompose` for every registry, from `IInv`: the lock
file composes together with both lock files an operation carries, as an entry put where
`Composes` allows it, or dropped where no active pack needs it, leaves the rest composed.
`PackSafety`, `LockFollows`, `FailsCleanly`, from `Inv`, which adds what the step of an operation
tells: `Locked`, the lock file is empty by git, or the one before, or once it was written
the one after; `Evidence`, the receipt is whole in its file as long as the lock may name it,
and the chains of the lock before do without it; `Bundles`, what the lock before names is
on disk but for the one being deleted, which the lock after does not name (`Disjoint`). `LockFollows` needs `Fresh` as well: who has
compared the lock and not replaced it yet finds what it compared, or git restored it since.
`FailsCleanly` goes through every step that touches a tree; the unlink of a file written to after
its comparison is the one that the exception of `EditsKept` names.
One operation works at a time (`Alone`), so `GoesOn` asks these of the one that moves.

**ProposalProofs**, of ProposalDelivery. `DeliverySafety`, `NoneBesideDoubt`, `DropsNothing`: a
merge on its way names a reviewed head (`CommandsOK`) and the executor's step tells what it has
established (`OpOK`); a command in doubt is the one being read back, or has poisoned the
process (`Doubts`). Appending to a branch keeps its prefix (`PrefixOfAppend`).

**ProposalProofs**, of ActionLifecycle. `WritersPassTheGate`, `GateWantsReceipts`,
`EachTextHasOneSuccessor`, `HistoryIsFinal`, for any clients, requests, pages to begin
with, offsets and number of writes, from `ActionInv`:

- page, base and texts are `Linked`: receipts and comments are in the order of their
  instants and of the texts they name, which are older than the page;
- one reader holds the lock, and what it read goes on from the base (`Follows`); the page has
  the same history, or that of the base if git took it back;
- `InStep`: the receipts lead from the base to the state of the writers, or their chain is
  broken and stays so, of the page and of what a writer has read, also when the base moves
  under the writer (`InStepWithMerged`);
- as long as the writers are alone, `Audited`: each thing the audit looks for, said of a page
  that may have any number of further receipts. History and dialogue grow (`Grows`), the
  last receipt carries the page (`Carries`), each goes on from the one before (`LeadsOn`),
  content, dates, comments and the end are those of the receipts (`ContentKept`,
  `DatesKept`, `CommentsMatch`, `EndsKept`), what was terminal stays (`Finished`).

`AuditAcceptsWriters` is not inductive: a page that is accepted may have a date the next receipt
cannot account for, or a body that only its receipts explain, and of a page that is its own
base, or mixes contributions with consolidations, it says nothing at all. `TransitionSucceeds` and `IntegrationSucceeds` say
what the two writers record (`Succeeds`), whatever they were asked; `AuditedOn` has one lemma per part
of `Audited`, each about one receipt more; `AuditPasses` closes the circle. The places in a
history are a finite set of naturals: `LatestIs` and `EarliestIs` find its ends (`HasLeast`,
by the well-foundedness of the naturals), and the lemmas `...OfMore` say how a new receipt moves them.

*Assumptions*: the named ASSUMEs of the modules only: bounds are natural numbers, sets are
finite where they are counted, "nobody" is nobody, a retention of two or more (the code's
lower limit), versions of packs are told apart by pack and number, one operator
at a time holds the checkout in ProposalDelivery, no proposal has the name of the default
branch, and in ActionLifecycle offsets from UTC are a day at most and the pages to begin with
well formed. TLC evaluates them in every run.

*Only model-checked*: liveness (`NobodyWaitsForEver`, `JobFinishes`, `CancelStops`,
`EverybodyGoesOn`, `ContainerRecovered`), which is beyond the prover. Every invariant and
action property that a run checks has its theorem. What a theorem does not cover is in the
model: the definitions are checked against the code by reading and by the mutants. The run of
ActionLifecycle takes the requests, pages and instants of its MC module, the theorems
any of `RequestSpace` and `Pages`.

## 5. Findings

Each was met while translating the code. Number 13 is shown by a run that checks the quoted
sentence; `PROJECT.json` quotes the sentences for all.

1. `web/admin/sessions.py:459`: a `lock()` with the token of an expired session nobody noticed
   ends the session without arming a code; the owner needs a restart.
2. `web/admin/plans.py:155`: the fingerprint names dirty files and not their content; a page
   dirty at the review can change and the plan still runs.
3. `web/server.py:2125`: the cancel route waits for the lock which the job to be cancelled holds.
4. `web/codex_jobs.py:759`: an agent that creates a directory makes the unwinding of a failed
   job raise, and the checkout stays on its branch.
5. `web/codex_jobs.py:504`: an agent that switches to the default branch makes the runner
   delete that branch.
6. `web/codex_jobs.py:745`: an edit the owner begins while a job runs is reverted with the
   agent's when the job fails.
7. `web/server.py:809`: the barrier is read once, before a build; a half-written wiki is cached
   and served as stable.
8. `web/snapshot.py:2979`: a failed publication removes whatever symlink is in its container,
   also one it displaced and told the operator to find there.
9. `web/snapshot.py:2975`: a revision whose publication is undone is removed without its lease,
   though between exchange and restore a reader could have begun to read it.
10. `web/snapshot.py:2391`: the container is renamed before its receipt exists; the guide has
    the other order.
11. `web/snapshot.py:2089`: the receipt attests whatever directory is at the cleanup path, also
    a stranger's empty one.
12. `action_transition.py:1786`: a next action edited by hand is laundered by the next
    transition, whose receipt binds it.
13. `web/source_review_jobs.py:158` (run `sources_race`): a plan submitted again between
    dequeue and claim writes "failed" on a job that then runs.
14. `web/source_review_jobs.py:253`: conditions are taken from the ledger at the start, not from
    the plan, so two jobs whose plans share an obligation are both delivered.
15. `_experience_pack_lifecycle.py:750`: install, remove and install again has the receipt of
    the first installation: the dry run accepts it, the mutation refuses it.
16. `_experience_pack_lifecycle.py:746`: a receipt whose write fails is left torn, and bars the
    same operation for good.
17. `web/codex_jobs.py:517`: `git status` shows an untracked directory as one row, and that is
    what the baseline has. A file of it that the owner stages while a job runs has a row of its
    own, and the job takes it for the agent's and commits it. The proof met it; it is the
    exception `LeftItsDirectory` of `OwnedIsNotSwept`.
18. `web/codex_jobs.py:534`: the baseline keeps the owner's files from being staged by a job, but
    the commit takes the whole index: what the owner had staged before, or stages meanwhile, is
    committed and published with the job's files, although the docstring at 254-256 says that the
    owner's edits "must never be swept into a job commit". It is the exception `ownersIndex` of
    `OwnedIsNotSwept`.
19. `_experience_pack_lifecycle.py:245`: the lock file is compared and then replaced; what git
    restores between the two is overwritten (the exception of `LockFollowsReceipts`).
20. `_experience_pack_lifecycle.py:395`: a file of a bundle is compared and then unlinked; what is
    written into it between the two, through an open file, goes with it, although the docstring
    says it is compared "immediately before unlink" (the exception of `EditsKept`).

Also seen, and not stated as properties:

- *Server*, `web/server.py:1450`: the second answer of a failed socket can close another
  thread's claim of the same key, if as many younger attempts as there are receipts came in
  between (`stray` in OperatorServer marks the case; `OneRunPerKey` excludes it).
- *Plans*, `web/admin/plans.py:846`: a plan pruned between peek and consume is answered
  "already executed".
- *Jobs*, `web/codex_jobs.py:707`: a cancel can answer "cancelled while queued" of a job that
  has started, and a direct caller's late cancel can overwrite "delivered". `:518`: an adopted branch is
  deleted with its commits if nothing is uncommitted. `:503`: the switch back is not checked.
  `:659`: agent output that does not decode strands the checkout. `:115`: agent jobs a
  restart finds unfinished stay so until they are cancelled (`lost`).
- *Sources*: a second attempt is never made, whatever `max_attempts` says, since the key
  of the first bars it. A plan leaves `raw_path` empty, so a script can never run. An
  authority revoked during the preview leaves an attempt "started" without a token, which
  nothing concludes: the source is barred for good, as it is by an attempt older than
  the newest 20 receipts the reconciliation looks through. Nothing ever sets `verified`, and
  merging review requests compares digests with conditions, so `blocked` and `verified` are
  never derived from attempts.
- *Snapshots*: a container with a pointer in it, or the draft of an intent, is preserved for
  ever; `.prune-*`, `.receipt-*` and `.stage-*` leftovers are never looked at. Re-activating an
  old revision and publishing can prune the one that was active before.
- *Actions*: a `next_action` given with a terminal state is dropped silently. Between comparison
  and replacement (`action_transition.py:1181`) an editor's write is lost.
- *Packs*: a crash between receipt and lock file leaves a receipt that validation does not see
  and that bars the same operation.
- *Proposals*: the base may move between the observation and the merge; the guide says so.

## 6. What the models leave out

- *AdminSession*: the comparison of codes and tokens, the text of errors, clocks. A
  code is right or wrong by choice; age is an event.
- *AdminPlan*: what single commands plan and do; deleted files. Preconditions
  are read in one step, although the code runs several git commands. When they are compared
  (`Check`) the lock is held, so only the editor could come between. When a plan is made
  (`Put`) it is not: any writer could come between two of these commands, and the plan would
  keep a mixture of two states, one that the checkout perhaps never was in.
- *JobQueue*: an agent that outlives its operator; reading of records and logs.
- *JobCheckout*: detached HEAD, deleted and renamed files, merge conflicts, a crash inside a
  job. Jobs run one at a time, which is what JobQueue's worker does.
- *OperatorServer*: routing, origin and nonce checks, static files, bodies; who may act
  is AdminSession's subject. Waits are not timed.
- *SnapshotStore, SnapshotCleanup*: the flat build without a store, a reader of a flat
  directory, staging, the quarantine of a pruned revision, the contents of a bundle. Strangers
  swap a container's directory from the moment its removal begins, or when its publisher
  died; not while the publisher itself still fills it.
- *ActionLifecycle*: the shape of requests, secrets, who may ask whom in a dialogue, the
  memory log of contributions. Hands edit the state or the next action; the theorems hold of any
  edit that leaves history and dialogue alone (`HandKeeps`), and an editor that forges or deletes
  receipts is not modelled.
- *SourceJobs*: how a plan chooses sources, several sources in a batch, scripts, stream and
  source settings.
- *ExperiencePack*: reading and validating a pack, its artifacts and translations, dry runs,
  `validate` and `compose`. One branch of review; every version ships its migration. git restores
  the empty lock file that the kit ships, never an older one that somebody committed with
  packs in it, whose bundles and receipts may be gone. What is written into a file
  that is unlinked already is nowhere, in the model as on the disk.
- *ProposalDelivery*: preparation; the local gates run as one admitted effect; texts. A command
  that is lost stays in `sent` and never lands. Merges squash, as the executor asks for; a merge by
  others that keeps the commits of the proposal, after which its branch could be
  forwarded, is not modelled.
- In all of them, git, the file system and the network are external: commands succeed or
  fail atomically.

## 7. What could come next

1. An abstract specification of the snapshot store (one active revision, replaced or not) and
   of the job's checkout (the owner's files and the runner's branch), and the refinement proofs.
2. One model of the worker that serves agent jobs and source jobs together. JobQueue and
   SourceJobs agree on the loop by construction only.
3. **AuditLog** (`web/admin/audit.py`), with lines as sequences of bytes long enough to be torn,
   and **Gate** (`gate/state_machine.py`), once either promises something about two writers.
4. Action contribution and adoption over ProposalDelivery and ActionLifecycle.

## 8. Running it

    tlc -workers 2 -config MCAdminPlan.cfg MCAdminPlan
    tlapm AdminPlanProofs.tla

`PROJECT.json` lists the runs, the mutants that show each property can fail, the
lines each definition translates, and the hazards the properties are for. Every run
takes at most about two minutes on two workers, the proofs one to five minutes per module.
