------------------------------- MODULE AdminPlan -------------------------------
(***************************************************************************)
(* wiki_core/web/admin/plans.py and the two handlers of web/server.py that *)
(* reach the checkout: /api/admin/commands/{plan,execute}, and the content *)
(* posts that go through _authorized_effect.                               *)
(*                                                                         *)
(* The module builds on AdminAuthority: its Begin and End are what         *)
(* execute_current does, and its Open and Close run at any moment.  One    *)
(* request thread runs one request.  The Worker is the thread of the job   *)
(* runner, here only as a writer that takes the checkout lock; the editor  *)
(* of the owner takes no lock.  Plans are numbered in the order in which   *)
(* they enter the store, so "oldest first" is "smallest number first".     *)
(***************************************************************************)
EXTENDS AdminAuthority, FiniteSets

CONSTANTS
    Files,         \* files of the working tree
    ConfigFiles,   \* those of config_fingerprint, hashed by content
    MaxStored,     \* MAX_PLANS
    MaxPlans,      \* bound on the plans one behaviour makes
    MaxHead,       \* bound on the commits and branch switches
    MaxEdits,      \* bound on the edits of one file
    Worker,        \* the thread of the job runner
    Nobody         \* the holder of a free CHECKOUT_LOCK

ASSUME PlanAssumption ==
    /\ ConfigFiles \subseteq Files
    /\ MaxStored \in Nat \ {0}
    /\ MaxPlans \in Nat
    /\ MaxHead \in Nat
    /\ MaxEdits \in Nat
    /\ Worker \notin Threads
    /\ Nobody \notin Threads \cup {Worker}

VARIABLES
    made,       \* history: plans put in the store so far
    plans,      \* what each plan was made of, and its status
    stored,     \* AdminPlanStore._plans: the plans still in the store
    aged,       \* stored plans older than PLAN_TTL_S, not pruned yet
    checkout,   \* the holder of CHECKOUT_LOCK
    world,      \* the checkout: branch and HEAD in one number, edits per file
    thread,     \* where each request is
    runs        \* history: how often the executor of each plan ran

planVars == <<made, plans, stored, aged>>
siteVars == <<checkout, world>>
vars == <<authorityVars, planVars, siteVars, thread, runs>>

Plans == 1..MaxPlans
Worlds == [head : 0..MaxHead, edits : [Files -> 0..MaxEdits]]
CleanWorld == [head |-> 0, edits |-> [f \in Files |-> 0]]
NoPlan == [sid |-> NoSession, found |-> CleanWorld, status |-> "none"]

Steps == {"idle", "request", "lock", "check", "consume", "admit",
          "run", "release", "queue", "inside", "write"}
Idle == [step |-> "idle", sid |-> NoSession, plan |-> 0]

At(t, step) == thread[t].step = step
Go(t, state) == thread' = [thread EXCEPT ![t] = state]
Step(t, step) == Go(t, [thread[t] EXCEPT !.step = step])

PlanOf(t) == plans[thread[t].plan]

\* Steps taken with CHECKOUT_LOCK held.
Holding(t) ==
    thread[t].step \in {"check", "consume", "admit", "run", "release",
                        "inside", "write"}
\* Steps taken inside an effect.
InEffect(t) == thread[t].step \in {"run", "write"}

\* HEAD and branch, the set of dirty paths with no regard to what they hold,
\* and the content of the configuration.
Fingerprint(w) ==
    [head |-> w.head,
     dirty |-> {f \in Files : w.edits[f] > 0},
     config |-> [f \in ConfigFiles |-> w.edits[f]]]

Init ==
    /\ AuthorityInit
    /\ made = 0
    /\ plans = [p \in Plans |-> NoPlan]
    /\ stored = {}
    /\ aged = {}
    /\ checkout = Nobody
    /\ world = CleanWorld
    /\ thread = [t \in Threads |-> Idle]
    /\ runs = [p \in Plans |-> 0]

-------------------------------------------------------------------------------
(* The plan store.                                                         *)

\* _prune_locked: the aged plans go, then the oldest while there are too many.
Pruned(s) ==
    LET young == s \ aged
        newer(p) == {q \in young : q > p}
    IN  {p \in young : Cardinality(newer(p)) < MaxStored}

Keep(s) == stored' = s /\ aged' = aged \cap s

PlanAges ==
    \E p \in stored \ aged :
        /\ \A q \in stored \ aged : p <= q
        /\ aged' = aged \cup {p}
        /\ UNCHANGED <<authorityVars, made, plans, stored, siteVars, thread,
                       runs>>

-------------------------------------------------------------------------------
(* /api/admin/commands/plan                                                *)

\* Mutant of Validate: the result of the validation is not looked at.
ValidateUnchecked(t) ==
    /\ At(t, "idle")
    /\ Go(t, [Idle EXCEPT !.step = "request", !.sid = authority])
    /\ UNCHANGED <<authorityVars, planVars, siteVars, runs>>

\* Both handlers validate first and work with the description they got.
Validate(t) ==
    /\ At(t, "idle")
    /\ authority # NoSession
    /\ Go(t, [Idle EXCEPT !.step = "request", !.sid = authority])
    /\ UNCHANGED <<authorityVars, planVars, siteVars, runs>>

\* build_admin_plan and put.  The planner takes no lock.  Its preconditions are
\* read by several git commands, in one step here.  What it shows of the checkout
\* is read before them and not kept here: the executors that use a diff compare
\* it again.
Put(t) ==
    /\ At(t, "request")
    /\ made < MaxPlans
    /\ made' = made + 1
    /\ plans' = [plans EXCEPT ![made'] =
                    [sid |-> thread[t].sid, found |-> world,
                     status |-> "planned"]]
    /\ Keep(Pruned(stored \cup {made'}))
    /\ Go(t, Idle)
    /\ UNCHANGED <<authorityVars, siteVars, runs>>

\* A planner that refuses: a capability, a parameter, a head that moved.
Unplanned(t) ==
    /\ At(t, "request")
    /\ Go(t, Idle)
    /\ UNCHANGED <<authorityVars, planVars, siteVars, runs>>

-------------------------------------------------------------------------------
(* /api/admin/commands/execute                                             *)

\* The copy of the record is what the rest of the request looks at; only its
\* status can change under it.  A plan of another session or already executed,
\* a wrong sha, capability or confirmation ends the request here.
Peek(t, p) ==
    /\ At(t, "request")
    /\ Keep(Pruned(stored))
    /\ \/ /\ p \in stored'
          /\ plans[p].sid = thread[t].sid
          /\ plans[p].status = "planned"
          /\ Go(t, [thread[t] EXCEPT !.step = "lock", !.plan = p])
       \/ Go(t, Idle)
    /\ UNCHANGED <<authorityVars, made, plans, siteVars, runs>>

\* CHECKOUT_LOCK.acquire(blocking=False): "checkout busy" changes nothing.
Acquire(t) ==
    /\ At(t, "lock")
    /\ \/ checkout = Nobody /\ checkout' = t /\ Step(t, "check")
       \/ checkout # Nobody /\ Go(t, Idle) /\ UNCHANGED checkout
    /\ UNCHANGED <<authorityVars, planVars, world, runs>>

Reviewed(p) == Fingerprint(plans[p].found) = Fingerprint(world)

\* The preconditions, read by several git commands, all with the lock held.
Check(t) ==
    /\ At(t, "check")
    /\ \/ /\ Reviewed(thread[t].plan)
          /\ Step(t, "consume")
          /\ UNCHANGED <<stored, aged>>
       \/ /\ ~Reviewed(thread[t].plan)
          /\ Keep(stored \ {thread[t].plan})
          /\ Step(t, "release")
    /\ UNCHANGED <<authorityVars, made, plans, siteVars, runs>>

\* Mutant of Consume: the status is trusted as it was peeked.
ConsumeAsPeeked(t) ==
    /\ At(t, "consume")
    /\ plans' = [plans EXCEPT ![thread[t].plan].status = "executed"]
    /\ Step(t, "admit")
    /\ UNCHANGED <<authorityVars, made, stored, aged, siteVars, runs>>

\* One caller wins; a caller that does not find the plan is told it lost.
Consume(t) ==
    LET p == thread[t].plan IN
    /\ At(t, "consume")
    /\ \/ /\ p \in stored
          /\ plans[p].status = "planned"
          /\ plans' = [plans EXCEPT ![p].status = "executed"]
          /\ Step(t, "admit")
       \/ /\ p \notin stored \/ plans[p].status # "planned"
          /\ Step(t, "release")
          /\ UNCHANGED plans
    /\ UNCHANGED <<authorityVars, made, stored, aged, siteVars, runs>>

\* execute_current admits the session the caller names, if it is current.
\* Mutant of Admitted: the effect runs without being admitted.
AdmittedUnregistered(t, sid) == sid # NoSession /\ UNCHANGED authorityVars

Admitted(t, sid) == authority = sid /\ Begin(t)

\* The session ended or changed; the plan stays spent.
Refused(t, sid) ==
    /\ authority # sid
    /\ Step(t, "release")
    /\ UNCHANGED authorityVars

Admit(t) ==
    LET p == thread[t].plan IN
    /\ At(t, "admit")
    /\ \/ /\ Admitted(t, plans[p].sid)
          /\ runs' = [runs EXCEPT ![p] = @ + 1]
          /\ Step(t, "run")
       \/ Refused(t, plans[p].sid) /\ UNCHANGED runs
    /\ UNCHANGED <<planVars, siteVars>>

\* An executor commits, switches the branch or writes a file.
WriteWorld ==
    \/ /\ world.head < MaxHead
       /\ world' = [world EXCEPT !.head = @ + 1]
    \/ \E f \in Files :
          /\ world.edits[f] < MaxEdits
          /\ world' = [world EXCEPT !.edits[f] = @ + 1]

Execute(t) ==
    /\ InEffect(t)
    /\ WriteWorld
    /\ UNCHANGED <<authorityVars, planVars, checkout, thread, runs>>

\* The outcome of the effect is uncertain; it ends with the same return.
Doubt(t) ==
    /\ InEffect(t)
    /\ Poison(t)
    /\ UNCHANGED <<planVars, siteVars, thread, runs>>

\* The effect returns or raises; execute_current settles it.
Settle(t) ==
    /\ InEffect(t)
    /\ End(t)
    /\ Step(t, "release")
    /\ UNCHANGED <<planVars, siteVars, runs>>

Release(t) ==
    /\ At(t, "release")
    /\ checkout' = Nobody
    /\ Go(t, Idle)
    /\ UNCHANGED <<authorityVars, planVars, world, runs>>

-------------------------------------------------------------------------------
(* _authorized_effect: the content posts wait for the lock.                *)

Enqueue(t) ==
    /\ At(t, "idle")
    /\ Go(t, [Idle EXCEPT !.step = "queue"])
    /\ UNCHANGED <<authorityVars, planVars, siteVars, runs>>

\* The session is validated with the lock held.
Enter(t) ==
    /\ At(t, "queue")
    /\ checkout = Nobody
    /\ checkout' = t
    /\ Go(t, [thread[t] EXCEPT !.step = IF authority = NoSession THEN "release"
                                        ELSE "inside",
                               !.sid = authority])
    /\ UNCHANGED <<authorityVars, planVars, world, runs>>

AdmitPost(t) ==
    /\ At(t, "inside")
    /\ \/ Admitted(t, thread[t].sid) /\ Step(t, "write")
       \/ Refused(t, thread[t].sid)
    /\ UNCHANGED <<planVars, siteVars, runs>>

-------------------------------------------------------------------------------
(* The other writers, the owner's session, the end of the process.         *)

WorkerEnters ==
    /\ checkout = Nobody
    /\ checkout' = Worker
    /\ UNCHANGED <<authorityVars, planVars, world, thread, runs>>

WorkerWrites ==
    /\ checkout = Worker
    /\ WriteWorld
    /\ UNCHANGED <<authorityVars, planVars, checkout, thread, runs>>

WorkerLeaves ==
    /\ checkout = Worker
    /\ checkout' = Nobody
    /\ UNCHANGED <<authorityVars, planVars, world, thread, runs>>

\* The owner saves a file in an editor.
OwnerEdits(f) ==
    /\ world.edits[f] < MaxEdits
    /\ world' = [world EXCEPT !.edits[f] = @ + 1]
    /\ UNCHANGED <<authorityVars, planVars, checkout, thread, runs>>

SessionChanges ==
    /\ Open \/ Close \/ \E s \in Sessions : Confirm(s)
    /\ UNCHANGED <<planVars, siteVars, thread, runs>>

\* The store, the lock and the requests die with the process.
ProcessRestarts ==
    /\ Restart
    /\ stored' = {}
    /\ aged' = {}
    /\ checkout' = Nobody
    /\ thread' = [t \in Threads |-> Idle]
    /\ UNCHANGED <<made, plans, world, runs>>

Request(t) ==
    \/ Validate(t) \/ Put(t) \/ Unplanned(t)
    \/ \E p \in Plans : Peek(t, p)
    \/ Acquire(t) \/ Check(t) \/ Consume(t) \/ Admit(t)
    \/ Enqueue(t) \/ Enter(t) \/ AdmitPost(t)
    \/ Execute(t) \/ Doubt(t) \/ Settle(t) \/ Release(t)

Environment ==
    \/ PlanAges
    \/ WorkerEnters \/ WorkerWrites \/ WorkerLeaves
    \/ \E f \in Files : OwnerEdits(f)
    \/ SessionChanges
    \/ ProcessRestarts

Next == Environment \/ \E t \in Threads : Request(t)

Spec == Init /\ [][Next]_vars

-------------------------------------------------------------------------------
(* Properties.                                                             *)

TypeOK ==
    /\ authority \in 0..MaxSessions
    /\ acting \in [Threads -> 0..MaxSessions]
    /\ poisoned \in BOOLEAN
    /\ confirmed \in SUBSET Sessions
    /\ opened \in 0..MaxSessions
    /\ made \in 0..MaxPlans
    /\ plans \in [Plans -> [sid : 0..MaxSessions, found : Worlds,
                            status : {"none", "planned", "executed"}]]
    /\ stored \in SUBSET (1..made)
    /\ aged \in SUBSET stored
    /\ checkout \in Threads \cup {Worker, Nobody}
    /\ world \in Worlds
    /\ thread \in [Threads -> [step : Steps, sid : 0..MaxSessions,
                               plan : 0..MaxPlans]]
    /\ \A t \in Threads :
          /\ thread[t].step \in {"request", "inside"} =>
                 thread[t].sid \in Sessions
          /\ thread[t].step \in {"lock", "check", "consume", "admit", "run"} =>
                 thread[t].plan \in 1..made
    /\ runs \in [Plans -> Nat]

\* "exactly ONE caller can ever win": the executor of a plan never runs twice,
\* however many requests peeked the plan before one consumed it.
RunsOnce == \A p \in Plans : runs[p] <= 1

\* "One checkout, one writer": between the checks of a request and its last
\* write, no other request and no job is between theirs.
OneWriter == \A t \in Threads : Holding(t) => checkout = t

\* A plan runs for the session that reviewed it, not for the one that is
\* current when the executor starts.
RunsForItsReviewer ==
    \A t \in Threads : At(t, "run") => acting[t] = PlanOf(t).sid

\* A plan starts on the branch and commit it was reviewed on: whoever moved
\* HEAD since the review made the plan stale, whoever will waits.
StartsOnReviewedHead ==
    \A t \in Threads :
        thread[t].step \in {"consume", "admit"} =>
            world.head = PlanOf(t).found.head

\* The checkout is written only in the name of a session whose revocation was
\* not confirmed to the owner.
RevokedNeverWrites ==
    \A t \in Threads : InEffect(t) => acting[t] \in Sessions \ confirmed

\* No path through a request, a refusal or a failure leaves the checkout locked.
CheckoutIsReleased == \A t \in Threads : checkout = t => Holding(t)

\* A plan runs once, for its reviewer, on what was reviewed, alone, and the
\* checkout is given back.
Safety ==
    /\ TypeOK
    /\ RunsOnce
    /\ RunsForItsReviewer
    /\ StartsOnReviewedHead
    /\ OneWriter
    /\ CheckoutIsReleased
===============================================================================
