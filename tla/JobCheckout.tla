------------------------------ MODULE JobCheckout ------------------------------
(***************************************************************************)
(* What one agent job does to the git checkout: _run_job_locked and its    *)
(* helpers in wiki_core/web/codex_jobs.py, with the git workflows of       *)
(* web/git_workflows.py they call.  Jobs run one after the other (JobQueue *)
(* shows that they do); the agent and the owner's editor change the        *)
(* working tree while a job runs.                                          *)
(*                                                                         *)
(* The content of a file is the set of the hands that have edited it.  A   *)
(* branch is the content it has committed and the set of its commits,      *)
(* which are numbered.  The empty content of a file in NewDirs is that the *)
(* file and its directory do not exist.                                    *)
(***************************************************************************)
EXTENDS Naturals

CONSTANTS
    Paths,       \* files an edit can touch
    NewDirs,     \* those in a directory that no commit has
    Default,     \* the default branch
    Mine,        \* a proposal branch of the owner
    Theme,       \* the proposal branch that the theme of the jobs names
    Stray,       \* a proposal branch an agent may invent
    NoBranch,
    Wanders,     \* branches the agent may switch to
    Stageable,   \* files the owner may stage
    MaxJobs,     \* bound on the jobs
    MaxCommits,  \* bound on the commits
    MaxEdits     \* bound on the edits of the owner

Proposals == {Mine, Theme, Stray}
Branches == {Default} \cup Proposals

ASSUME CheckoutAssumption ==
    /\ NewDirs \subseteq Paths
    /\ Default \notin Proposals /\ NoBranch \notin Branches
    /\ Wanders \subseteq Branches
    /\ Stageable \subseteq Paths
    /\ MaxJobs \in Nat
    /\ MaxCommits \in Nat
    /\ MaxEdits \in Nat

VARIABLES
    head,      \* the branch that is checked out
    exists,    \* the local branches
    tip,       \* the content that each branch has committed
    log,       \* the commits of each branch
    index,     \* the staged content
    tree,      \* the content in the working tree
    job,       \* the running or last job
    ownersIndex, \* history: files with something staged before the job took its
               \* baseline, or by the owner since, that is still what is staged
    commits,   \* history: commits so far
    edits,     \* history: edits of the owner so far
    jobs       \* history: jobs so far

repo == <<head, exists, tip, log, index, tree>>
past == <<commits, edits, jobs>>
checkoutVars == <<repo, job, ownersIndex, past>>

Contents == SUBSET {"owner", "agent"}
Trees == [Paths -> Contents]
Empty == [p \in Paths |-> {}]

JobSteps == {"over", "begin", "branch", "agent", "exited", "anchor", "delta",
             "stage", "commit", "publish", "unwind", "abort", "raised"}
Ends == {"none", "refused", "cancelled", "failed", "raised", "unpublished",
         "delivered"}
NoRun == [step |-> "over", mode |-> "fresh", resume |-> NoBranch,
          branch |-> NoBranch, baseline |-> {}, owned |-> {}, picked |-> {},
          end |-> "none"]

JobAt(step) == job.step = step
JobGo(step) == job' = [job EXCEPT !.step = step]
Unwinds(end) == job' = [job EXCEPT !.step = "unwind", !.end = end]

CheckoutInit ==
    /\ head \in {Default, Mine}
    /\ exists = {Default, Mine}
    /\ tip = [b \in Branches |-> Empty]
    /\ log = [b \in Branches |-> {}]
    /\ index = Empty
    /\ tree = Empty
    /\ job = NoRun
    /\ ownersIndex = {}
    /\ commits = 0
    /\ edits = 0
    /\ jobs = 0

-------------------------------------------------------------------------------
(* git.                                                                    *)

Dirty == {p \in Paths : tree[p] # tip[head][p] \/ index[p] # tip[head][p]}

\* _dirty_hashes.  git status shows an untracked directory as one row, the
\* directory itself.  The hashes only tell mixed files in a message.
Row(p) == [path |-> p, directory |-> p \in NewDirs /\ index[p] = {}]
Rows == {Row(p) : p \in Dirty}
PathsOf(rows) == {r.path : r \in rows}

\* What the owner has edited and not committed.
Uncommitted(p) == "owner" \in tree[p] \ tip[head][p]

\* git switch: edits come along unless the file differs between the branches.
CanSwitch(b) ==
    /\ b \in exists
    /\ \A p \in Dirty : tip[head][p] = tip[b][p]

SwitchTo(b) ==
    /\ head' = b
    /\ tree' = [p \in Paths |-> IF p \in Dirty THEN tree[p] ELSE tip[b][p]]
    /\ index' = [p \in Paths |-> IF p \in Dirty THEN index[p] ELSE tip[b][p]]

\* A new branch at HEAD: nothing moves.
BranchOff(b) ==
    /\ head' = b
    /\ exists' = exists \cup {b}
    /\ tip' = [tip EXCEPT ![b] = tip[head]]
    /\ log' = [log EXCEPT ![b] = log[head]]
    /\ UNCHANGED <<index, tree>>

CommitIndex(content) ==
    /\ commits' = commits + 1
    /\ tip' = [tip EXCEPT ![head] = content]
    /\ log' = [log EXCEPT ![head] = @ \cup {commits'}]
    /\ index' = content

-------------------------------------------------------------------------------
(* A job up to its agent.                                                  *)

\* A job is dequeued; a return names the branch it continues.
BeginJob(resume) ==
    /\ JobAt("over")
    /\ jobs < MaxJobs
    /\ jobs' = jobs + 1
    /\ job' = [NoRun EXCEPT !.step = "begin", !.resume = resume]
    /\ UNCHANGED <<repo, commits, edits>>

\* The baseline, before any branch moves.  What of it is the owner's, owned, is
\* history: the code cannot tell.
TakeBaseline ==
    /\ JobAt("begin")
    /\ job' = [job EXCEPT
                  !.step = "branch",
                  !.baseline = Rows,
                  !.owned = {p \in Paths : Uncommitted(p)},
                  !.mode = IF job.resume # NoBranch THEN "resume"
                           ELSE IF head \in Proposals THEN "continue_current"
                           ELSE "fresh"]
    /\ ownersIndex' = {p \in Paths : index[p] # tip[head][p]}
    /\ UNCHANGED <<repo, past>>

OnBranch(b) == job' = [job EXCEPT !.step = "agent", !.branch = b]
Refused == job' = [job EXCEPT !.step = "over", !.end = "refused"]

\* switch_proposal and start_proposal want a clean tree.
GetOnBranch ==
    /\ JobAt("branch")
    /\ \/ /\ job.mode = "resume"
          /\ job.resume \in exists
          /\ Dirty = {}
          /\ SwitchTo(job.resume)
          /\ OnBranch(job.resume)
          /\ UNCHANGED <<exists, tip, log>>
       \/ /\ job.mode = "resume"
          /\ job.resume \notin exists \/ Dirty # {}
          /\ Refused
          /\ UNCHANGED repo
       \/ /\ job.mode = "continue_current"
          /\ OnBranch(head)
          /\ UNCHANGED repo
       \/ /\ job.mode = "fresh"
          /\ Theme \notin exists
          /\ Dirty = {}
          /\ BranchOff(Theme)
          /\ OnBranch(Theme)
       \/ /\ job.mode = "fresh"
          /\ Theme \in exists \/ Dirty # {}
          /\ Refused
          /\ UNCHANGED repo
    /\ UNCHANGED past

-------------------------------------------------------------------------------
(* The agent, told to edit files only and held to nothing.                 *)

AgentEdits(p) ==
    /\ JobAt("agent")
    /\ tree' = [tree EXCEPT ![p] = @ \cup {"agent"}]
    /\ UNCHANGED <<head, exists, tip, log, index, job, past>>

AgentSwitches(b) ==
    /\ JobAt("agent")
    /\ b # head
    /\ CanSwitch(b)
    /\ SwitchTo(b)
    /\ UNCHANGED <<exists, tip, log, job, past>>

AgentBranchesOff ==
    /\ JobAt("agent")
    /\ Stray \in Wanders \ exists
    /\ BranchOff(Stray)
    /\ UNCHANGED <<job, past>>

\* It commits a file of its own, on the branch it has wandered to.
AgentCommits(p) ==
    /\ JobAt("agent")
    /\ head \in Wanders
    /\ commits < MaxCommits
    /\ index = tip[head]
    /\ tree[p] = tip[head][p] \cup {"agent"}
    /\ tree[p] # tip[head][p]
    /\ CommitIndex([index EXCEPT ![p] = tree[p]])
    /\ UNCHANGED <<head, exists, tree, job, edits, jobs>>

\* _run_codex: exit code zero; another, or the watchdog; a cancel; an output
\* that cannot be decoded, which raises.
AgentExits ==
    /\ JobAt("agent")
    /\ \/ JobGo("anchor")
       \/ Unwinds("failed")
       \/ Unwinds("cancelled")
       \/ JobGo("raised")
    /\ UNCHANGED <<repo, past>>

-------------------------------------------------------------------------------
(* From the agent's end to a delivery.                                     *)

\* git switch, when the agent is on another branch that has no commit of its
\* own, and git branch -D of that one; otherwise that branch is adopted.
\* git does not delete the branch it is on.
Reanchor ==
    LET ahead == log[head] \ log[job.branch] IN
    /\ JobAt("anchor")
    /\ \/ /\ head = job.branch
          /\ JobGo("delta")
          /\ UNCHANGED repo
       \/ /\ head # job.branch
          /\ ahead = {}
          /\ IF CanSwitch(job.branch)
             THEN SwitchTo(job.branch) /\ exists' = exists \ {head}
             ELSE UNCHANGED <<head, tree, index, exists>>
          /\ JobGo("delta")
          /\ UNCHANGED <<tip, log>>
       \/ /\ head # job.branch
          /\ ahead # {}
          /\ job' = [job EXCEPT !.step = "delta", !.branch = head]
          /\ UNCHANGED repo
    /\ UNCHANGED past

\* Mutant of Delta: everything that is dirty is the agent's.
DeltaOfAll(rows) == rows

\* Rows that were not there before; a mixed file is left to the owner.
Delta(rows) == rows \ job.baseline

PickDelta ==
    /\ JobAt("delta")
    /\ IF Delta(Rows) = {}
       THEN Unwinds("failed")
       ELSE job' = [job EXCEPT !.step = "stage", !.picked = Delta(Rows)]
    /\ UNCHANGED <<repo, past>>

\* stage_paths: git add, of paths that git status still lists.
Stage ==
    /\ JobAt("stage")
    /\ \/ /\ job.picked \subseteq Rows
          /\ index' = [p \in Paths |-> IF p \in PathsOf(job.picked) THEN tree[p]
                                       ELSE index[p]]
          /\ JobGo("commit")
       \/ /\ ~(job.picked \subseteq Rows)
          /\ Unwinds("failed")
          /\ UNCHANGED index
    /\ UNCHANGED <<head, exists, tip, log, tree, past>>

Committable(b) == b \in Proposals

\* commit_proposal: git commit takes whatever is staged.  A hook may reject it.
Commit ==
    /\ JobAt("commit")
    /\ \/ /\ Committable(head)
          /\ commits < MaxCommits
          /\ index # tip[head]
          /\ CommitIndex(index)
          /\ JobGo("publish")
       \/ /\ Unwinds("failed")
          /\ UNCHANGED <<commits, tip, log, index>>
    /\ UNCHANGED <<head, exists, tree, edits, jobs>>

\* A dry run is delivered here; a refused push or pull request fails the job
\* with its commit in place.
Publish ==
    /\ JobAt("publish")
    /\ \E end \in {"delivered", "unpublished"} :
          job' = [job EXCEPT !.step = "over", !.end = end]
    /\ UNCHANGED <<repo, past>>

-------------------------------------------------------------------------------
(* Failure.                                                                *)

\* Mutant of Unstage: git reset --hard.
UnstageHard == index' = tip[head] /\ tree' = tip[head]

\* git reset.
Unstage == index' = tip[head] /\ UNCHANGED tree

\* _revert_codex_paths: paths dirty now and not before go back to HEAD, in the
\* order of their names.  Unlinking a directory raises.
UnwindJob ==
    LET introduced == Rows \ job.baseline
        directories == {r \in introduced : r.directory}
        Revert(rows) ==
            /\ tree' = [p \in Paths |-> IF p \in PathsOf(rows) THEN tip[head][p]
                                        ELSE tree[p]]
            /\ index' = [p \in Paths |-> IF p \in PathsOf(rows) THEN tip[head][p]
                                         ELSE index[p]]
    IN
    /\ JobAt("unwind")
    /\ \/ /\ job.mode = "continue_current"
          /\ Unstage
          /\ JobGo("over")
       \/ /\ job.mode # "continue_current"
          /\ directories = {}
          /\ Revert(introduced)
          /\ JobGo("abort")
       \/ /\ job.mode # "continue_current"
          /\ directories # {}
          /\ \E before \in SUBSET (introduced \ directories) : Revert(before)
          /\ JobGo("raised")
    /\ UNCHANGED <<head, exists, tip, log, past>>

\* Mutant of Abort: the switch back is part of the deletion.
AbortFresh ==
    /\ JobAt("abort")
    /\ JobGo("over")
    /\ IF job.mode = "fresh" /\ CanSwitch(Default)
       THEN SwitchTo(Default) /\ exists' = exists \ ({job.branch} \ {Default})
       ELSE UNCHANGED <<head, tree, index, exists>>
    /\ UNCHANGED <<tip, log, past>>

\* _abort_branch: back to the default branch, and the branch of a fresh job is
\* deleted; a switch that git refuses is not forced.
Abort ==
    /\ JobAt("abort")
    /\ JobGo("over")
    /\ IF CanSwitch(Default)
       THEN /\ SwitchTo(Default)
            /\ exists' = IF job.mode = "fresh" THEN exists \ ({job.branch} \ {Default})
                         ELSE exists
       ELSE UNCHANGED <<head, tree, index, exists>>
    /\ UNCHANGED <<tip, log, past>>

\* An exception ends the job where it is: _fail writes the record.
Raise ==
    /\ JobAt("raised")
    /\ job' = [job EXCEPT !.step = "over", !.end = "raised"]
    /\ UNCHANGED <<repo, past>>

-------------------------------------------------------------------------------
(* The owner's editor takes no lock.                                       *)

OwnerEdits(p) ==
    /\ edits < MaxEdits
    /\ edits' = edits + 1
    /\ tree' = [tree EXCEPT ![p] = @ \cup {"owner"}]
    /\ UNCHANGED <<head, exists, tip, log, index, job, commits, jobs>>

OwnerStages(p) ==
    /\ p \in Stageable
    /\ index[p] # tree[p]
    /\ index' = [index EXCEPT ![p] = tree[p]]
    /\ ownersIndex' = ownersIndex \cup {p}
    /\ UNCHANGED <<head, exists, tip, log, tree, job, past>>

\* Whatever else is staged, unstaged or committed is not the owner's any more.
StillOwners ==
    {p \in ownersIndex : index'[p] = index[p] /\ index'[p] # tip'[head'][p]}

JobNext ==
    \/ \E b \in {NoBranch} \cup Proposals : BeginJob(b)
    \/ GetOnBranch
    \/ \E p \in Paths : AgentEdits(p) \/ AgentCommits(p) \/ OwnerEdits(p)
    \/ \E b \in Wanders : AgentSwitches(b)
    \/ AgentBranchesOff \/ AgentExits
    \/ Reanchor \/ PickDelta \/ Stage \/ Commit \/ Publish
    \/ UnwindJob \/ Abort \/ Raise

CheckoutNext ==
    \/ JobNext /\ ownersIndex' = StillOwners
    \/ TakeBaseline
    \/ \E p \in Paths : OwnerStages(p)

CheckoutSpec == CheckoutInit /\ [][CheckoutNext]_checkoutVars

-------------------------------------------------------------------------------
(* Properties.                                                             *)

CheckoutTypeOK ==
    /\ head \in exists
    /\ exists \in SUBSET Branches
    /\ tip \in [Branches -> Trees]
    /\ log \in [Branches -> SUBSET (1..commits)]
    /\ index \in Trees
    /\ tree \in Trees
    /\ job \in [step : JobSteps,
               mode : {"fresh", "resume", "continue_current"},
               resume : Proposals \cup {NoBranch},
               branch : Branches \cup {NoBranch},
               baseline : SUBSET [path : Paths, directory : BOOLEAN],
               owned : SUBSET Paths,
               picked : SUBSET [path : Paths, directory : BOOLEAN],
               end : Ends]
    /\ ownersIndex \subseteq Paths
    /\ commits \in 0..MaxCommits
    /\ edits \in 0..MaxEdits
    /\ jobs \in 0..MaxJobs

\* "every baselined path [is] untouched": a file with an uncommitted edit of the
\* owner when a job took its baseline keeps that edit through every step of the
\* job, wherever the agent goes and however the job ends.
BaselineSpared ==
    [][\A p \in job.owned :
          (~JobAt("over") /\ Uncommitted(p)) => ("owner" \in tree'[p])]_checkoutVars

\* A file of an untracked directory, which the baseline has as one row, that was
\* staged since and so was picked by a row of its own.
LeftItsDirectory(p) ==
    /\ [path |-> p, directory |-> TRUE] \in job.baseline
    /\ [path |-> p, directory |-> FALSE] \in job.picked

\* "the owner's in-progress edits must never be swept into a job commit": true of
\* what the runner stages, not of what it commits, which is the whole index.  What
\* the runner's commit takes of a file with an uncommitted edit of the owner's at
\* the baseline is what was staged already then or what the owner has staged
\* himself since, never his unstaged edit and never the file as the agent left it;
\* the one other case is a file that has left the row of its directory.
OwnedIsNotSwept ==
    [][JobAt("commit") =>
        \A p \in job.owned :
            tip'[head][p] # tip[head][p] => p \in ownersIndex \/ LeftItsDirectory(p)]_checkoutVars

\* _abort_branch: after a failure that run_job foresees, "the operator's checkout
\* is not left stranded on a half-built proposal", unless the owner's work is in
\* the way or there is no default branch to go back to.
HandledNotStranded ==
    (JobAt("over") /\ job.end \in {"failed", "cancelled"}
         /\ job.mode # "continue_current" /\ Dirty = {} /\ Default \in exists)
        => (head = Default)

\* A job leaves the checkout where the owner can go on.
CheckoutSafety == CheckoutTypeOK /\ HandledNotStranded
===============================================================================
