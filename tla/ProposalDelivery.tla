---------------------------- MODULE ProposalDelivery ----------------------------
(***************************************************************************)
(* How a prepared proposal leaves the checkout and comes back: it is       *)
(* pushed, opened as a pull request, promoted (made ready, merged) and     *)
(* adopted by the local default branch (src/wiki_core/web/                 *)
(* normal_proposal.py).                                                    *)
(*                                                                         *)
(* The executors hold CHECKOUT_LOCK, so one works at a time; each command  *)
(* to the provider is an effect admitted by the session manager, of which  *)
(* AdminAuthority is the promise.  A command that was sent takes effect at *)
(* some later moment or never, and the executor judges by what it reads    *)
(* back.  Others push, review, close and merge at the provider meanwhile,  *)
(* and the owner works in a shell, which knows no lock.                    *)
(*                                                                         *)
(* A head of the proposal is the number of its commits, a default branch   *)
(* the sequence of what was merged into it.                                *)
(***************************************************************************)
EXTENDS AdminAuthority, SequencesExt

CONSTANTS
    Operator,     \* the thread that holds CHECKOUT_LOCK
    MaxHeads,     \* bound on the commits of the proposal
    MaxPulls,     \* bound on its pull requests
    MaxShocks     \* bound on what others, and restarts, do

ASSUME DeliveryAssumption ==
    /\ Threads = {Operator}
    /\ MaxHeads \in Nat \ {0} /\ MaxPulls \in Nat /\ MaxShocks \in Nat

VARIABLES
    local,    \* the checkout: current branch, proposal, default branch, edits
    hub,      \* the provider: proposal branch, default branch, pull request
    sent,     \* commands that may still take effect
    reviews,  \* heads with an approving review of the first default branch
    op,       \* the executor at work
    shocks    \* how much others did so far

vars == <<authorityVars, local, hub, sent, reviews, op, shocks>>

Absent == 0
Foreign == MaxHeads + 1
Heads == 1 .. MaxHeads

NoPull == [num |-> 0, state |-> "none", draft |-> FALSE, refused |-> FALSE,
           ours |-> FALSE, head |-> Absent]
Checkout == [branch |-> "work", work |-> 1, main |-> <<>>, dirty |-> FALSE]
Over == [kind |-> "none", step |-> "idle", head |-> Absent, num |-> 0,
         base |-> <<>>, from |-> Checkout]

Init ==
    /\ AuthorityInit
    /\ local = Checkout
    /\ hub = [work |-> Absent, main |-> <<>>, pull |-> NoPull]
    /\ sent = {} /\ reviews = {} /\ op = Over /\ shocks = 0

At(step) == op.step = step
Step(step) == op' = [op EXCEPT !.step = step]
OnProposal(head) == local.branch = "work" /\ local.work = head

\* execute_current: admitted under the session that is current, and refused
\* once an outcome is in doubt.
Admit == ~poisoned /\ Begin(Operator)

-------------------------------------------------------------------------------
(* What a command does when it reaches the provider.                       *)

\* The pull request follows its branch while it is open.
Pulled(pull, head) == [pull EXCEPT !.head = IF pull.state = "open" THEN head ELSE @]

\* Without its branch it is closed.
Orphaned(pull) == [pull EXCEPT !.state = IF @ = "open" THEN "closed" ELSE @]

\* A push without force.
Push(c) ==
    /\ hub.work <= c.head
    /\ hub' = [hub EXCEPT !.work = c.head, !.pull = Pulled(@, c.head)]

Create(c) ==
    /\ hub.pull.state \in {"none", "closed"} /\ hub.work # Absent
    /\ hub.pull.num < MaxPulls
    /\ hub' = [hub EXCEPT !.pull = [num |-> @.num + 1, state |-> "open", draft |-> TRUE,
                                    refused |-> FALSE, ours |-> TRUE, head |-> hub.work]]

Edit(c) ==
    /\ hub.pull.state = "open"
    /\ hub' = [hub EXCEPT !.pull.ours = TRUE]

Ready(c) ==
    /\ hub.pull.state = "open" /\ hub.pull.num = c.num
    /\ hub' = [hub EXCEPT !.pull.draft = FALSE]

Merged(by) ==
    [hub EXCEPT !.pull.state = "merged",
                !.main = Append(@, [of |-> hub.pull.head, by |-> by, id |-> shocks])]

\* Mutant of Merge: the head is not named in the command.
MergeAnyHead(c) ==
    /\ hub.pull.state = "open" /\ hub.pull.num = c.num /\ ~hub.pull.draft
    /\ hub' = Merged("operator")

\* --squash --match-head-commit
Merge(c) ==
    /\ hub.pull.state = "open" /\ hub.pull.num = c.num /\ ~hub.pull.draft
    /\ hub.pull.head = c.head
    /\ hub' = Merged("operator")

Effect(c) ==
    \/ c.kind = "push" /\ Push(c)
    \/ c.kind = "create" /\ Create(c)
    \/ c.kind = "edit" /\ Edit(c)
    \/ c.kind = "ready" /\ Ready(c)
    \/ c.kind = "merge" /\ Merge(c)

\* A command arrives; one that never does stays among the sent.
Land(c) ==
    /\ Effect(c)
    /\ sent' = sent \ {c}
    /\ UNCHANGED <<authorityVars, local, reviews, op, shocks>>

\* dispatch: the answer is not believed, so it is not modelled.
Send(kind) ==
    /\ sent' = sent \cup {[kind |-> kind, head |-> op.head, num |-> op.num,
                           known |-> FALSE, here |-> TRUE]}
    /\ op' = [op EXCEPT !.kind = kind, !.step = "read"]
    /\ UNCHANGED <<authorityVars, local, hub, reviews, shocks>>

Still == UNCHANGED <<local, hub, sent, reviews, shocks>>

\* The effect is settled with nothing sent, or with what was sent verified.
Settle(next) ==
    /\ End(Operator)
    /\ op' = IF next = "idle" THEN Over ELSE [op EXCEPT !.step = next]

-------------------------------------------------------------------------------
(* publish_proposal: push, open or update the pull request.                *)

BeginPublish(kind) ==
    /\ At("idle")
    /\ OnProposal(local.work)
    /\ Admit
    /\ op' = [Over EXCEPT !.kind = kind, !.step = "look", !.head = local.work]
    /\ Still

Look ==
    /\ At("look") /\ OnProposal(op.head)
    /\ \/ /\ op.kind = "push" /\ hub.work # op.head
          /\ Send("push")
       \/ /\ op.kind # "push" /\ hub.work = op.head
          /\ Step("prior")
          /\ UNCHANGED <<authorityVars, local, hub, sent, reviews, shocks>>

\* The pull request that is open already, if any.
Prior ==
    /\ At("prior")
    /\ \/ /\ op.kind = "edit" /\ hub.pull.state = "open" /\ hub.work = op.head
          /\ Send("edit")
       \/ /\ op.kind = "create" /\ hub.pull.state # "open"
          /\ Send("create")

\* Observed as done already, a checkout or a branch that moved, a provider that
\* does not answer: nothing is sent.
GiveUp ==
    /\ At("look") \/ At("prior") \/ At("send") \/ At("gates")
    /\ Settle("idle")
    /\ Still

Verified ==
    CASE op.kind = "push" -> hub.work = op.head
      [] op.kind \in {"create", "edit"} ->
             hub.work = op.head /\ hub.pull.state = "open" /\ hub.pull.ours
      [] op.kind = "ready" ->
             /\ hub.pull.num = op.num /\ hub.pull.head = op.head
             /\ hub.pull.state = "open" /\ ~hub.pull.draft /\ hub.main = op.base
      [] op.kind = "merge" ->
             /\ hub.pull.num = op.num /\ hub.pull.head = op.head
             /\ hub.pull.state = "merged"

\* What was read back is known.
ReadBack ==
    /\ At("read") /\ Verified
    /\ sent' = {[c EXCEPT !.known = @ \/ c.kind = op.kind] : c \in sent}
    /\ Settle(IF op.kind = "ready" THEN "merge" ELSE "idle")
    /\ UNCHANGED <<local, hub, reviews, shocks>>

\* Mutant of Unverified: what was not read back counts as not done.
UnverifiedIsUndone ==
    /\ At("read")
    /\ Step("settle")
    /\ UNCHANGED authorityVars
    /\ Still

\* outcome_uncertain: not there yet, somebody else's by now, or unreadable.
Unverified ==
    /\ At("read")
    /\ Poison(Operator)
    /\ Step("settle")
    /\ Still

SettleLast == At("settle") /\ Settle("idle") /\ Still

-------------------------------------------------------------------------------
(* promote_proposal: gates, ready, merge.                                  *)

\* promotion_review and promotion_policy: the review names this head and the
\* default branch it was made against, which is still the local one.
Reviewed(head) == head \in reviews /\ local.main = <<>>

BeginPromote ==
    /\ At("idle")
    /\ OnProposal(local.work) /\ Reviewed(local.work)
    /\ op' = [Over EXCEPT !.kind = "promote", !.step = "see", !.head = local.work,
                          !.num = hub.pull.num, !.base = local.main]
    /\ UNCHANGED authorityVars
    /\ Still

\* identity, _integration_pr_wait, promotion_review and the checkout again.
ReadyForEffect(draft) ==
    /\ hub.pull.num = op.num /\ hub.pull.state = "open" /\ hub.pull.head = op.head
    /\ hub.main = op.base
    /\ ~hub.pull.refused
    /\ hub.pull.draft => draft
    /\ Reviewed(op.head) /\ OnProposal(op.head)

\* The gates are an effect of their own.
See ==
    /\ At("see")
    /\ ReadyForEffect(TRUE)
    /\ Admit
    /\ Step("gates")
    /\ Still

GatesPass == At("gates") /\ Settle("again") /\ Still

SeeAgain ==
    /\ At("again")
    /\ ReadyForEffect(TRUE)
    /\ Step(IF hub.pull.draft THEN "ready" ELSE "merge")
    /\ UNCHANGED authorityVars
    /\ Still

BeginStage ==
    /\ At("ready") \/ At("merge")
    /\ Admit
    /\ op' = [op EXCEPT !.kind = op.step, !.step = "send"]
    /\ Still

SendStage ==
    /\ At("send")
    /\ ReadyForEffect(op.kind = "ready")
    /\ Send(op.kind)

\* Observed as merged, refused by a check or by the session manager.
Refuse ==
    /\ op.step \in {"see", "again", "ready", "merge", "fetch", "switch", "forward", "verify"}
    /\ op' = Over
    /\ UNCHANGED authorityVars
    /\ Still

-------------------------------------------------------------------------------
(* adopt_proposal: the local default branch follows the approved one.      *)

\* adoption_target: a merged pull request, and the default branch it is in.
BeginAdopt ==
    /\ At("idle")
    /\ ~local.dirty
    /\ hub.pull.state = "merged"
    /\ op' = [kind |-> "adopt", step |-> "fetch", head |-> hub.pull.head,
              num |-> hub.pull.num, base |-> hub.main, from |-> local]
    /\ UNCHANGED authorityVars
    /\ Still

SameHead ==
    /\ local.branch = op.from.branch
    /\ local.branch = "work" => local.work = op.from.work
    /\ local.branch = "main" => local.main = op.from.main

\* The checkout the next command expects: branch, HEAD, default branch, no edit.
AsPlanned ==
    /\ ~local.dirty /\ local.main = op.from.main
    /\ IF At("forward") THEN local.branch = "main" ELSE SameHead

\* adopt_proposal.effect: admitted and compared, then run.
Runs == [fetch |-> "do fetch", switch |-> "do switch", forward |-> "do forward"]

Enter ==
    /\ op.step \in DOMAIN Runs
    /\ Admit
    /\ Step(IF AsPlanned THEN Runs[op.step] ELSE "settle")
    /\ Still

\* Mutant of Followable: the merge is not looked for in the approved branch.
FollowableBlindly == IsPrefix(local.main, op.base)

\* merge-base --is-ancestor, twice.
Followable ==
    /\ IsPrefix(local.main, op.base)
    /\ \E i \in DOMAIN op.base : op.base[i].of = op.head

\* The default branch that was fetched is the one that was planned.
Fetch ==
    /\ At("do fetch")
    /\ Settle(IF hub.main = op.base /\ SameHead /\ ~local.dirty /\ Followable
              THEN "switch" ELSE "idle")
    /\ Still

\* git switch keeps uncommitted edits, or refuses.
Switch ==
    /\ At("do switch")
    /\ \/ /\ local' = [local EXCEPT !.branch = "main"]
          /\ Settle("forward")
       \/ /\ UNCHANGED local
          /\ Settle("idle")
    /\ UNCHANGED <<hub, sent, reviews, shocks>>

\* Mutant of FastForward: the branch is set to the target.
ResetHard == local' = [local EXCEPT !.main = op.base]

\* git merge --ff-only on the current branch.  The owner's shell may have gone back
\* to the proposal: the squash merge has none of its commits, so git refuses there.
FastForward ==
    /\ local.branch = "main" /\ IsPrefix(local.main, op.base)
    /\ local' = [local EXCEPT !.main = op.base]

Forward ==
    /\ At("do forward")
    /\ \/ FastForward /\ Settle("verify")
       \/ UNCHANGED local /\ Settle("idle")
    /\ UNCHANGED <<hub, sent, reviews, shocks>>

Verify ==
    /\ At("verify")
    /\ local.branch = "main" /\ local.main = op.base /\ ~local.dirty
    /\ op' = Over
    /\ UNCHANGED <<authorityVars, local, hub, sent, reviews, shocks>>

-------------------------------------------------------------------------------
(* Reviewers, the owner's shell, other people, the process.                *)

Shock == shocks < MaxShocks /\ shocks' = shocks + 1

Review ==
    /\ reviews' = reviews \cup {local.work}
    /\ UNCHANGED <<authorityVars, local, hub, sent, op, shocks>>

ShellDo(new) ==
    /\ local' = new
    /\ UNCHANGED <<authorityVars, hub, sent, reviews, op>>

\* Commits on the proposal; and once it is merged, the rest: earlier it could
\* only make an executor give up, which it may do at any moment.
Shell ==
    \/ /\ local.branch = "work" /\ local.work < MaxHeads
       /\ ShellDo([local EXCEPT !.work = @ + 1, !.dirty = FALSE]) /\ UNCHANGED shocks
    \/ /\ hub.pull.state = "merged"
       /\ Shock
       /\ \/ /\ local.branch = "main"
             /\ ShellDo([local EXCEPT !.dirty = FALSE,
                      !.main = Append(@, [of |-> Absent, by |-> "owner", id |-> shocks])])
          \/ \E b \in {"work", "main"} \ {local.branch} :
                ShellDo([local EXCEPT !.branch = b])
          \/ ShellDo([local EXCEPT !.dirty = ~@])

HubDo(new) ==
    /\ Shock
    /\ hub' = new
    /\ UNCHANGED <<authorityVars, local, sent, reviews, op>>

Others ==
    \* push on top of the proposal; delete its branch or set it back
    \/ hub.work # Absent /\ HubDo([hub EXCEPT !.work = Foreign, !.pull = Pulled(@, Foreign)])
    \/ \E h \in 0 .. hub.work - 1 :
          HubDo([hub EXCEPT !.work = h,
                            !.pull = IF h = Absent THEN Orphaned(@) ELSE Pulled(@, h)])
    \/ /\ hub.pull.state = "open"
       /\ \/ HubDo([hub EXCEPT !.pull.refused = ~@])
          \/ HubDo([hub EXCEPT !.pull.draft = ~@])
          \/ HubDo([hub EXCEPT !.pull.ours = FALSE])
          \/ HubDo([hub EXCEPT !.pull.state = "closed"])
          \/ ~hub.pull.draft /\ HubDo(Merged("person"))
    \/ /\ hub.pull.state = "closed" /\ hub.work # Absent
       /\ HubDo([hub EXCEPT !.pull.state = "open", !.pull.head = hub.work])
    \* merge something else; rewrite the default branch
    \/ HubDo([hub EXCEPT !.main = Append(@, [of |-> Absent, by |-> "person", id |-> shocks])])
    \/ hub.main # <<>> /\ HubDo([hub EXCEPT !.main = Front(@)])

SessionChanges ==
    /\ UNCHANGED confirmed
    /\ Open \/ Close
    /\ UNCHANGED <<local, hub, sent, reviews, op, shocks>>

ProcessRestarts ==
    /\ Shock
    /\ Restart
    /\ op' = Over
    /\ sent' = {[c EXCEPT !.here = FALSE] : c \in sent}
    /\ UNCHANGED <<local, hub, reviews>>

Executor ==
    \/ \E kind \in {"push", "create", "edit"} : BeginPublish(kind)
    \/ Look \/ Prior \/ GiveUp \/ ReadBack \/ Unverified \/ SettleLast
    \/ BeginPromote \/ See \/ GatesPass \/ SeeAgain \/ BeginStage \/ SendStage \/ Refuse
    \/ BeginAdopt \/ Enter \/ Fetch \/ Switch \/ Forward \/ Verify

Next ==
    \/ Executor
    \/ \E c \in sent : Land(c)
    \/ Review \/ Shell \/ Others \/ SessionChanges \/ ProcessRestarts

Spec == Init /\ [][Next]_vars

-------------------------------------------------------------------------------
(* Properties.                                                             *)

Kinds == {"none", "push", "create", "edit", "promote", "ready", "merge", "adopt"}

\* An executor is in an effect exactly between its admission and settlement.
TypeOK ==
    /\ local.work \in Heads /\ local.branch \in {"work", "main"}
    /\ hub.work \in 0 .. Foreign
    /\ hub.pull.state = "open" => hub.pull.head = hub.work
    /\ op.kind \in Kinds
    /\ (acting[Operator] # NoSession) =
          (op.step \in {"look", "prior", "read", "settle", "gates", "send",
                        "do fetch", "do switch", "do forward"})
    /\ reviews \subseteq Heads /\ shocks \in 0 .. MaxShocks

\* "Integrity/policy condition": what the operator merges is a head whose review
\* approved it, whoever pushes or opens anything between the last observation
\* and the merge, however late the merge arrives.
MergedIsReviewed ==
    \A i \in DOMAIN hub.main :
        hub.main[i].by = "operator" => hub.main[i].of \in reviews

Safety == TypeOK /\ MergedIsReviewed

\* "Observation below must reconcile its effect, not retry": while a command of
\* this process may take effect and was not read back, no other is sent, in
\* this session or in a later one.
NothingBesideDoubt ==
    [][~At("read") /\ op'.step = "read" =>
          ~\E c \in sent : c.here /\ ~c.known]_vars

\* "Return to approved content after merge": no commit of the owner is dropped from
\* the local default branch, whatever was fetched and whatever his shell does in
\* between, and an adoption that says so contains the merge of the proposal.
NothingDropped ==
    [][/\ IsPrefix(local.main, local'.main)
       /\ Verify => \E i \in DOMAIN local.main : local.main[i].of = op.head]_vars
===============================================================================
