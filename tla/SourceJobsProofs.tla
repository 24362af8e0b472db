--------------------------- MODULE SourceJobsProofs ---------------------------
(***************************************************************************)
(* For any number of jobs, versions, restarts and losses of the ledger:    *)
(* adapters of a source never overlap, no condition is tried or collected  *)
(* twice, and what is delivered has its receipt.                           *)
(*                                                                         *)
(* An adapter that outlived its operator has a record with a call and no   *)
(* receipt.  If the ledger still names its job, the attempt is uncertain   *)
(* and bars the next one; if it does not, the record does.                 *)
(***************************************************************************)
EXTENDS SourceJobs, FiniteSetTheorems, TLAPS

PlanSet == [head : Nat, inputs : Nat, conditions : SUBSET Conditions, attempts : Attempts]
Waiting == {"taken", "claimed"}
Running == {"running", "applied", "receipted"}
Working == {"grounded", "previewing"} \cup Running
Known == authority.live \cup authority.revoked

TreeOK ==
    /\ tree \in [head : Nat, inputs : Nat, files : Nat]
    /\ versions \in Nat

RecordOK(j) ==
    /\ DOMAIN records[j] = {"status", "calls", "token"}
    /\ records[j].calls \in 0 .. 2
    /\ records[j].calls = 2 => records[j].token
    /\ records[j].status = "delivered" => j \in receipts

RecordsOK ==
    /\ Jobs \subseteq PlanSet
    /\ \A j \in Jobs : j.conditions # {} /\ RecordOK(j)
    /\ \A j \in receipts : j \in Jobs /\ records[j].calls = 2

AttemptOK(a) ==
    /\ DOMAIN a = {"job", "key", "conditions", "status"}
    /\ a.job \in Jobs /\ a.key = Key(a.job)
    /\ a.status \in {"started", "fetched", "blocked"}

\* What is or may have been collected is collected once.
Apart(l) ==
    \A a, b \in l.attempts :
        a.status # "blocked" /\ b.status # "blocked" =>
            a = b \/ a.conditions \cap b.conditions = {}

LedgerOK ==
    /\ DOMAIN ledger = {"asked", "conditions", "attempts"}
    /\ \A a \in ledger.attempts : AttemptOK(a)
    /\ Apart(ledger)

Untried(j) ==
    /\ j \in Jobs /\ records[j].calls = 0
    /\ j \notin Named(ledger)

\* A job waits once, untried, with its authority in RAM.
QueueOK ==
    /\ DOMAIN authority = {"live", "revoked"}
    /\ authority.live \cap authority.revoked = {}
    /\ Known \subseteq Jobs
    /\ queue \in Seq(PlanSet)
    /\ \A i, k \in 1 .. Len(queue) : queue[i] = queue[k] => i = k
    /\ \A i \in 1 .. Len(queue) :
          Untried(queue[i]) /\ queue[i] \in Known /\ queue[i] # job

WorkerOK ==
    /\ stage \in {"idle"} \cup Waiting \cup Working
    /\ stage = "idle" <=> job = None
    /\ stage # "idle" => job \in Jobs /\ job \in Known
    /\ stage \in Waiting => Untried(job)
    /\ stage = "grounded" => records[job].calls = 0
    /\ stage = "previewing" => records[job].calls = 1
    /\ stage \in Running => records[job].calls = 2
    /\ stage = "receipted" => job \in receipts
    /\ stage \in Working =>
          /\ \A a \in ledger.attempts : a.job = job => a.status = "started"
          /\ \A k \in Jobs \ {job} : records[k].calls > 0 => Key(k) # Key(job)

\* An adapter runs for the worker's job, or bars the worker.
AdaptersOK ==
    /\ \A j \in adapters :
          /\ j \in Jobs /\ records[j].calls > 0 /\ j \notin receipts
          /\ \A a \in ledger.attempts : a.job = j => a.status = "started"
    /\ \A j, k \in adapters : j = k
    /\ stage \in Working => adapters \subseteq {job}
    /\ stage \in {"applied", "receipted"} => adapters = {}

IInv ==
    TreeOK /\ RecordsOK /\ LedgerOK /\ QueueOK /\ WorkerOK /\ AdaptersOK /\ TriedOnce

USE SourceJobsAssumption

LEMMA InitIInv == Init => IInv
  BY DEF Init, IInv, TreeOK, RecordsOK, LedgerOK, QueueOK, WorkerOK, AdaptersOK, TriedOnce,
         Jobs, Known, NoLedger, Apart, Waiting, Working, Running

\* Records that keep their calls and tokens.
CallsKept ==
    /\ Jobs' = Jobs
    /\ \A k \in Jobs : records'[k].calls = records[k].calls

LEMMA Settled ==
    ASSUME RecordsOK, NEW j \in Jobs, NEW status, Settle(j, status),
           receipts' = receipts, status = "delivered" => j \in receipts
    PROVE  RecordsOK' /\ CallsKept
<1>1. Jobs' = Jobs
  BY DEF Settle, Jobs
<1>2. ASSUME NEW k \in Jobs
      PROVE  /\ RecordOK(k)'
             /\ records'[k].calls = records[k].calls
  <2>1. RecordOK(k)
    BY DEF RecordsOK
  <2>2. CASE k = j
    <3>1. records'[j] = [records[j] EXCEPT !.status = status]
      BY DEF Settle, Jobs
    <3> QED BY <2>1, <2>2, <3>1 DEF RecordOK
  <2>3. CASE k # j
    <3>1. records'[k] = records[k]
      BY <2>3 DEF Settle, Jobs
    <3> QED BY <2>1, <3>1 DEF RecordOK
  <2> QED BY <2>2, <2>3
<1> QED BY <1>1, <1>2 DEF RecordsOK, CallsKept

\* Nothing new is claimed in the ledger.
NothingNamed == Named(ledger)' \subseteq Named(ledger)

\* The worker ends its job: what it leaves behind bars the next one.
LEMMA Ended ==
    ASSUME IInv, stage # "idle", NEW status, Over(status), TreeOK',
           receipts' = receipts, status = "delivered" => job \in receipts,
           LedgerOK', NothingNamed, adapters' \subseteq adapters,
           \A a \in ledger'.attempts : a.job \in adapters' => a.status = "started"
    PROVE  IInv'
<1>1. job \in Jobs /\ job' = None /\ stage' = "idle" /\ queue' = queue
  BY DEF IInv, WorkerOK, Over
<1>2. RecordsOK' /\ CallsKept
  BY <1>1, Settled DEF IInv, Over
<1>3. QueueOK'
  <2>1. authority' = [live |-> authority.live \ {job}, revoked |-> authority.revoked \ {job}]
    BY DEF Over, Pop
  <2>2. ASSUME NEW i \in 1 .. Len(queue)
        PROVE  queue[i] \in PlanSet /\ Untried(queue[i])' /\ queue[i] \in Known' /\ queue[i] # None
    <3>1. queue[i] \in PlanSet /\ Untried(queue[i]) /\ queue[i] \in Known /\ queue[i] # job
      BY DEF IInv, QueueOK
    <3>2. Untried(queue[i])'
      BY <1>1, <1>2, <3>1 DEF Untried, CallsKept, NothingNamed
    <3> QED BY <2>1, <3>1, <3>2 DEF PlanSet, Known
  <2>3. Known' \subseteq Known /\ Known' \subseteq Jobs'
    BY <1>2, <2>1 DEF IInv, QueueOK, Known, CallsKept
  <2> QED BY <1>1, <2>1, <2>2, <2>3 DEF IInv, QueueOK
<1>4. WorkerOK'
  BY <1>1 DEF WorkerOK, Waiting, Working, Running
<1>5. AdaptersOK'
  BY <1>1, <1>2 DEF IInv, AdaptersOK, CallsKept, Working, Running
<1>6. TriedOnce'
  BY <1>2 DEF IInv, TriedOnce, CallsKept, Key
<1> QED BY <1>2, <1>3, <1>4, <1>5, <1>6 DEF IInv

\* Attempts that only change their status keep their jobs; what is concluded
\* as blocked, or stays open, was collected by nobody else.
LEMMA RecoveredOK ==
    ASSUME LedgerOK, NEW l, l = Recovered(ledger)
    PROVE  /\ DOMAIN l = {"asked", "conditions", "attempts"}
           /\ l.asked = ledger.asked /\ l.conditions = ledger.conditions
           /\ \A a \in l.attempts : AttemptOK(a) /\ a.status # "started"
           /\ \A a \in ledger.attempts :
                 \E b \in l.attempts : /\ b.job = a.job /\ b.key = a.key
                                       /\ b.conditions = a.conditions
                                       /\ (b.status = "blocked") = (a.status = "blocked")
           /\ Named(l) \subseteq Named(ledger)
           /\ Apart(l)
<1> DEFINE after(a) == IF Uncertain(a) THEN [a EXCEPT !.status = "fetched"] ELSE a
<1>1. /\ DOMAIN l = {"asked", "conditions", "attempts"}
      /\ l.asked = ledger.asked /\ l.conditions = ledger.conditions
      /\ l.attempts = {after(a) : a \in ledger.attempts}
  BY DEF LedgerOK, Recovered
<1>2. ASSUME NEW a \in ledger.attempts
      PROVE  /\ AttemptOK(after(a)) /\ after(a).status # "started"
             /\ after(a).job = a.job /\ after(a).key = a.key
             /\ after(a).conditions = a.conditions
             /\ (after(a).status = "blocked") = (a.status = "blocked")
  <2>1. AttemptOK(a)
    BY DEF LedgerOK
  <2> QED BY <2>1 DEF AttemptOK, Uncertain
<1> HIDE DEF after
<1>3. Named(l) \subseteq Named(ledger)
  BY <1>1, <1>2 DEF Named
<1>4. Apart(l)
  BY <1>1, <1>2 DEF LedgerOK, Apart
<1> QED BY <1>1, <1>2, <1>3, <1>4

LEMMA Concluded ==
    ASSUME IInv, stage \in Working, NEW status \in {"fetched", "blocked"}, Conclude(status)
    PROVE  /\ DOMAIN ledger' = {"asked", "conditions", "attempts"}
           /\ \A a \in ledger'.attempts : AttemptOK(a)
           /\ Apart(ledger')
           /\ NothingNamed
           /\ \A a \in ledger'.attempts : a.job # job => a \in ledger.attempts
<1> DEFINE after(a) == IF a.job = job THEN [a EXCEPT !.status = status] ELSE a
<1>1. /\ DOMAIN ledger' = {"asked", "conditions", "attempts"}
      /\ ledger'.attempts = {after(a) : a \in ledger.attempts}
  BY DEF IInv, LedgerOK, Conclude
<1>2. ASSUME NEW a \in ledger.attempts
      PROVE  /\ AttemptOK(after(a)) /\ after(a).job = a.job
             /\ after(a).conditions = a.conditions
             /\ after(a).status # "blocked" => a.status # "blocked"
             /\ a.job # job => after(a) = a
  <2>1. AttemptOK(a) /\ (a.job = job => a.status = "started")
    BY DEF IInv, LedgerOK, WorkerOK
  <2> QED BY <2>1 DEF AttemptOK
<1> HIDE DEF after
<1>3. NothingNamed
  BY <1>1, <1>2 DEF NothingNamed, Named
<1>4. Apart(ledger')
  BY <1>1, <1>2 DEF IInv, LedgerOK, Apart
<1> QED BY <1>1, <1>2, <1>3, <1>4

\* The authority, the head of the ledger's request, the queue: what neither
\* names a job nor moves one keeps the rest.
LEMMA Aside ==
    ASSUME IInv, UNCHANGED <<records, receipts, queue, job, stage, adapters>>,
           ledger' = ledger \/ ledger' = NoLedger
                            \/ \E conditions \in SUBSET Conditions : Enqueue(conditions),
           TreeOK',
           authority' = authority \/
               authority' = [live |-> {}, revoked |-> authority.revoked \cup authority.live]
    PROVE  IInv'
<1>1. /\ ledger'.attempts \subseteq ledger.attempts
      /\ DOMAIN ledger' = {"asked", "conditions", "attempts"}
  <2>1. DOMAIN ledger = {"asked", "conditions", "attempts"}
    BY DEF IInv, LedgerOK
  <2>2. CASE ledger' = NoLedger
    BY <2>2 DEF NoLedger
  <2>3. CASE \E conditions \in SUBSET Conditions : Enqueue(conditions)
    BY <2>1, <2>3 DEF Enqueue
  <2>4. CASE ledger' = ledger
    BY <2>1, <2>4
  <2> QED BY <2>2, <2>3, <2>4
<1>2. LedgerOK'
  BY <1>1 DEF IInv, LedgerOK, AttemptOK, Apart, Key, Jobs
<1>3. Known' = Known /\ DOMAIN authority' = {"live", "revoked"}
      /\ (authority.live \cap authority.revoked = {})'
  BY DEF IInv, QueueOK, Known
<1>4. QueueOK'
  BY <1>1, <1>3 DEF IInv, QueueOK, Untried, Jobs, Named
<1>5. WorkerOK'
  BY <1>1, <1>3 DEF IInv, WorkerOK, Untried, Jobs, Named, Key
<1>6. RecordsOK' /\ AdaptersOK' /\ TriedOnce'
  BY <1>1 DEF IInv, RecordsOK, RecordOK, AdaptersOK, TriedOnce, Jobs, Key
<1> QED BY <1>2, <1>4, <1>5, <1>6 DEF IInv

\* A record is settled by somebody else than the worker.
LEMMA Elsewhere ==
    ASSUME IInv, NEW j \in Jobs, NEW status, Settle(j, status),
           status = "delivered" => j \in receipts,
           UNCHANGED <<tree, versions, receipts, queue, job, stage, authority, adapters>>,
           ledger' = ledger \/ \E conditions \in SUBSET Conditions : Enqueue(conditions)
    PROVE  IInv'
<1>1. RecordsOK' /\ CallsKept
  BY Settled DEF IInv
<1>2. /\ ledger'.attempts = ledger.attempts
      /\ DOMAIN ledger' = {"asked", "conditions", "attempts"}
  BY DEF IInv, LedgerOK, Enqueue
<1>3. LedgerOK'
  BY <1>1, <1>2 DEF IInv, LedgerOK, AttemptOK, Apart, Key, CallsKept
<1>4. QueueOK'
  BY <1>1, <1>2 DEF IInv, QueueOK, Untried, CallsKept, Named, Known
<1>5. WorkerOK'
  BY <1>1, <1>2 DEF IInv, WorkerOK, Untried, CallsKept, Named, Known, Key, Waiting, Working,
                    Running
<1>6. AdaptersOK' /\ TriedOnce' /\ TreeOK'
  BY <1>1, <1>2 DEF IInv, AdaptersOK, TriedOnce, TreeOK, CallsKept, Key
<1> QED BY <1>1, <1>3, <1>4, <1>5, <1>6 DEF IInv

LEMMA PlanTyped ==
    ASSUME IInv, NEW j \in Plans
    PROVE  j \in PlanSet /\ j.conditions # {} /\ j.conditions \in SUBSET Conditions
<1>1. tree.head \in Nat /\ tree.inputs \in Nat
  BY DEF IInv, TreeOK
<1>2. j \in [head : {tree.head}, inputs : {tree.inputs},
             conditions : (SUBSET Conditions) \ {{}}, attempts : Attempts]
  BY DEF Plans
<1>3. j.conditions \in (SUBSET Conditions) \ {{}}
  BY <1>2
<1>4. j \in PlanSet
  BY <1>1, <1>2 DEF PlanSet
<1> QED BY <1>3, <1>4

LEMMA SubmitKeeps ==
    ASSUME IInv, NEW j \in Plans, Submit(j)
    PROVE  IInv'
<1>1. j \in PlanSet /\ j.conditions # {} /\ j \notin Jobs
  BY PlanTyped DEF Submit
<1>2. /\ Jobs' = Jobs \cup {j}
      /\ records'[j] = [status |-> "queued", calls |-> 0, token |-> FALSE]
      /\ \A k \in Jobs : records'[k] = records[k]
  BY <1>1 DEF Submit, Jobs
<1>3. /\ ledger'.attempts = ledger.attempts
      /\ DOMAIN ledger' = {"asked", "conditions", "attempts"}
  BY DEF IInv, LedgerOK, Submit, Enqueue
<1>4. RecordsOK'
  <2>1. RecordOK(j)'
    BY <1>2 DEF RecordOK
  <2>2. \A k \in Jobs : RecordOK(k)'
    BY <1>2 DEF IInv, RecordsOK, RecordOK, Submit
  <2>3. receipts' = receipts /\ \A k \in receipts : k \in Jobs /\ records'[k].calls = 2
    BY <1>2 DEF IInv, RecordsOK, Submit
  <2> QED BY <1>1, <1>2, <2>1, <2>2, <2>3 DEF IInv, RecordsOK
<1>5. LedgerOK'
  BY <1>2, <1>3 DEF IInv, LedgerOK, AttemptOK, Apart, Key
<1>6. j \notin Named(ledger) /\ Named(ledger)' = Named(ledger) /\ j # job
  BY <1>1, <1>3 DEF IInv, LedgerOK, AttemptOK, Named, WorkerOK, PlanSet
<1>7. Untried(j)' /\ \A k \in Jobs : Untried(k) => Untried(k)'
  BY <1>2, <1>6 DEF Untried
<1>8. QueueOK'
  <2>1. /\ DOMAIN authority' = {"live", "revoked"}
        /\ authority'.live = authority.live \cup {j}
        /\ authority'.revoked = authority.revoked
    BY DEF Submit, IInv, QueueOK
  <2>2. Known' = Known \cup {j} /\ Known' \subseteq Jobs'
        /\ (authority.live \cap authority.revoked = {})'
    BY <1>1, <1>2, <2>1 DEF IInv, QueueOK, Known
  <2>3. /\ queue' \in Seq(PlanSet) /\ Len(queue') = Len(queue) + 1
        /\ queue'[Len(queue) + 1] = j
        /\ \A i \in 1 .. Len(queue) : queue'[i] = queue[i]
    BY <1>1 DEF IInv, QueueOK, Submit
  <2>4. ASSUME NEW i \in 1 .. Len(queue')
        PROVE  /\ Untried(queue[i])' /\ queue'[i] \in Known' /\ queue'[i] # job
               /\ i # Len(queue) + 1 => i \in 1 .. Len(queue) /\ queue'[i] # j
    <3>1. CASE i = Len(queue) + 1
      BY <1>6, <1>7, <2>2, <2>3, <3>1
    <3>2. CASE i \in 1 .. Len(queue)
      <4>1. Untried(queue[i]) /\ queue[i] \in Known /\ queue[i] # job /\ queue[i] # j
        BY <1>1, <3>2 DEF IInv, QueueOK, Untried
      <4>2. Untried(queue[i])'
        BY <1>7, <2>3, <3>2, <4>1 DEF Untried
      <4> QED BY <2>2, <2>3, <3>2, <4>1, <4>2
    <3> QED BY <2>3, <3>1, <3>2 DEF IInv, QueueOK
  <2>5. \A i, k \in 1 .. Len(queue') : queue'[i] = queue'[k] => i = k
    BY <2>3, <2>4 DEF IInv, QueueOK
  <2> QED BY <2>1, <2>2, <2>3, <2>4, <2>5 DEF QueueOK, Submit
<1>9. WorkerOK'
  BY <1>2, <1>3, <1>6, <1>7 DEF IInv, WorkerOK, Submit, Known, Waiting, Working, Running, QueueOK
<1>10. AdaptersOK'
  BY <1>2, <1>3 DEF IInv, AdaptersOK, Submit
<1>11. TriedOnce'
  BY <1>2 DEF IInv, TriedOnce, Key
<1>12. TreeOK'
  BY DEF IInv, TreeOK, Submit
<1> QED BY <1>4, <1>5, <1>8, <1>9, <1>10, <1>11, <1>12 DEF IInv

\* What reconciliation calls delivered has its receipt.
LEMMA ReconciledOK ==
    ASSUME NEW j, Reconciled(j) = "delivered"
    PROVE  j \in receipts
  BY DEF Reconciled, Retained

LEMMA OutsideKeeps ==
    ASSUME IInv,
           \/ \E j \in Plans : Resubmit(j)
           \/ \E conditions \in SUBSET Conditions : Project(conditions)
           \/ \E j \in Jobs : Cancel(j)
           \/ Revoke \/ Edit \/ Git \/ LoseLedger
    PROVE  IInv'
<1>1. ASSUME NEW j \in Plans, Resubmit(j)
      PROVE  IInv'
  <2>1. j.conditions \in SUBSET Conditions
    BY PlanTyped
  <2>2. CASE Settle(j, Reconciled(j))
    BY <1>1, <2>1, <2>2, Elsewhere, ReconciledOK DEF Resubmit, ram
  <2>3. CASE UNCHANGED records
    BY <1>1, <2>1, <2>3, Aside DEF Resubmit, ram, IInv, TreeOK
  <2> QED BY <1>1, <2>2, <2>3 DEF Resubmit
<1>2. ASSUME NEW conditions \in SUBSET Conditions, Project(conditions)
      PROVE  IInv'
  BY <1>2, Aside DEF Project, ram, IInv, TreeOK
<1>3. ASSUME NEW j \in Jobs, Cancel(j)
      PROVE  IInv'
  <2>1. CASE Settle(j, "cancelled")
    BY <1>3, <2>1, Elsewhere DEF Cancel
  <2>2. CASE UNCHANGED records
    BY <1>3, <2>2, Aside DEF Cancel, IInv, TreeOK
  <2> QED BY <1>3, <2>1, <2>2 DEF Cancel
<1>4. CASE Revoke
  BY <1>4, Aside DEF Revoke, files, IInv, TreeOK
<1>5. CASE Edit \/ Git
  <2>1. TreeOK'
    <3>1. tree \in [head : Nat, inputs : Nat, files : Nat] /\ versions \in Nat
      BY DEF IInv, TreeOK
    <3>2. CASE Edit
      BY <3>1, <3>2 DEF Edit, TreeOK
    <3>3. CASE Git
      <4>1. versions' = versions
        BY <3>3 DEF Git
      <4>2. \/ tree' = [tree EXCEPT !.head = @ + 1, !.inputs = tree.files]
            \/ tree' = [tree EXCEPT !.files = tree.inputs]
        BY <3>3 DEF Git
      <4>3. CASE tree' = [tree EXCEPT !.head = @ + 1, !.inputs = tree.files]
        <5>1. tree = [head |-> tree.head, inputs |-> tree.inputs, files |-> tree.files]
              /\ tree.head \in Nat /\ tree.files \in Nat
          BY <3>1
        <5>2. tree' = [head |-> tree.head + 1, inputs |-> tree.files, files |-> tree.files]
          BY <4>3, <5>1
        <5> QED BY <3>1, <4>1, <5>1, <5>2 DEF TreeOK
      <4>4. CASE tree' = [tree EXCEPT !.files = tree.inputs]
        <5>1. tree' \in [head : Nat, inputs : Nat, files : Nat]
          BY <3>1, <4>4
        <5> QED BY <3>1, <4>1, <5>1 DEF TreeOK
      <4> QED BY <4>2, <4>3, <4>4
    <3> QED BY <1>5, <3>2, <3>3
  <2> QED BY <1>5, <2>1, Aside DEF Edit, Git, ram
<1>6. CASE LoseLedger
  BY <1>6, Aside DEF LoseLedger, ram, IInv, TreeOK
<1> QED BY <1>1, <1>2, <1>3, <1>4, <1>5, <1>6

LEMMA OrphanKeeps == IInv /\ OrphanEnds => IInv'
  BY DEF IInv, OrphanEnds, TreeOK, RecordsOK, RecordOK, LedgerOK, AttemptOK, Apart, QueueOK,
         Untried, Known, Named, WorkerOK, AdaptersOK, TriedOnce, Jobs, Key, files, ram

LEMMA RestartKeeps == IInv /\ Restart => IInv'
<1> SUFFICES ASSUME IInv, Restart PROVE IInv'
  OBVIOUS
<1>1. Jobs' = Jobs
  BY DEF Restart, Jobs
<1>2. ASSUME NEW j \in Jobs
      PROVE  RecordOK(j)' /\ records'[j].calls = records[j].calls
  <2>1. RecordOK(j)
    BY DEF IInv, RecordsOK
  <2>2. \/ records'[j] = records[j]
        \/ records'[j] = [records[j] EXCEPT !.status = Reconciled(j)]
    BY DEF Restart
  <2> QED BY <2>1, <2>2, ReconciledOK DEF RecordOK, Restart
<1>3. RecordsOK' /\ CallsKept
  BY <1>1, <1>2 DEF IInv, RecordsOK, CallsKept, Restart
<1>4. LedgerOK'
  BY <1>1 DEF IInv, LedgerOK, AttemptOK, Apart, Key, Restart
<1>5. QueueOK'
  BY DEF QueueOK, Known, Restart
<1>6. WorkerOK'
  BY DEF WorkerOK, Waiting, Working, Running, Restart
<1>7. AdaptersOK' /\ TriedOnce' /\ TreeOK'
  BY <1>3 DEF IInv, AdaptersOK, TriedOnce, TreeOK, CallsKept, Key, Restart, Working, Running
<1> QED BY <1>3, <1>4, <1>5, <1>6, <1>7 DEF IInv

LEMMA TakeKeeps == IInv /\ Take => IInv'
<1> SUFFICES ASSUME IInv, Take PROVE IInv'
  OBVIOUS
<1>1. /\ queue \in Seq(PlanSet) /\ queue # <<>>
      /\ job' = queue[1] /\ queue' = Tail(queue) /\ job' \in PlanSet
  BY DEF IInv, QueueOK, Take
<1>2. /\ queue' \in Seq(PlanSet)
      /\ \A i \in 1 .. Len(queue') : /\ queue'[i] = queue[i + 1]
                                     /\ i + 1 \in 1 .. Len(queue)
  BY <1>1
<1>3. 1 \in 1 .. Len(queue) /\ Len(queue) \in Nat /\ Len(queue') \in Nat
  BY <1>1, <1>2
<1>4. QueueOK'
  <2>1. ASSUME NEW i \in 1 .. Len(queue'), NEW k \in 1 .. Len(queue'),
               queue'[i] = queue'[k]
        PROVE  i = k
    <3>1. i + 1 \in 1 .. Len(queue) /\ k + 1 \in 1 .. Len(queue)
          /\ queue[i + 1] = queue[k + 1]
      BY <1>2, <2>1
    <3>2. i + 1 = k + 1
      BY <3>1 DEF IInv, QueueOK
    <3> QED BY <1>3, <3>2
  <2>2. ASSUME NEW i \in 1 .. Len(queue')
        PROVE  queue'[i] # job' /\ Untried(queue[i])' /\ queue'[i] \in Known
    <3>1. /\ Untried(queue[i + 1]) /\ queue[i + 1] \in Known
          /\ queue[i + 1] # queue[1]
      BY <1>2, <1>3 DEF IInv, QueueOK
    <3> QED BY <1>1, <1>2, <3>1 DEF Untried, Take, files, Jobs, Named
  <2> QED BY <1>2, <2>1, <2>2 DEF IInv, QueueOK, Take, files, Known, Jobs
<1>5. job' \in Known /\ Untried(job)' /\ job' # None
  BY <1>1, <1>3 DEF IInv, QueueOK, Take, files, Untried, Jobs, Named, PlanSet
<1>6. WorkerOK'
  BY <1>5 DEF WorkerOK, Untried, Waiting, Working, Running, Take, Known
<1>7. AdaptersOK'
  BY DEF IInv, AdaptersOK, Working, Running, Take, files, Jobs
<1>8. TreeOK' /\ RecordsOK' /\ LedgerOK' /\ TriedOnce'
  BY DEF IInv, TreeOK, RecordsOK, RecordOK, LedgerOK, AttemptOK, Apart, TriedOnce, Take,
         files, Jobs, Key
<1> QED BY <1>4, <1>6, <1>7, <1>8 DEF IInv

LEMMA ClaimKeeps == IInv /\ Claim => IInv'
<1> SUFFICES ASSUME IInv, Claim PROVE IInv'
  OBVIOUS
<1>1. CASE stage' = "claimed" /\ UNCHANGED <<records, authority, job>>
  <2>1. stage = "taken" /\ UNCHANGED <<tree, ledger, receipts, queue, adapters, versions>>
    BY DEF Claim
  <2> QED BY <1>1, <2>1 DEF IInv, TreeOK, RecordsOK, RecordOK, LedgerOK, AttemptOK, Apart,
                           QueueOK, Untried, Known, Named, WorkerOK, AdaptersOK, TriedOnce,
                           Jobs, Key, Waiting, Working, Running
<1>2. CASE Settle(job, "cancelled") /\ Pop(job) /\ job' = None /\ stage' = "idle"
  <2>1. Over("cancelled") /\ stage # "idle"
    BY <1>2 DEF Claim, Over
  <2>2. TreeOK' /\ LedgerOK' /\ NothingNamed
    <3>1. Jobs' = Jobs
      BY <1>2 DEF Settle, Jobs
    <3> QED BY <3>1 DEF Claim, IInv, TreeOK, LedgerOK, AttemptOK, Apart, Key, NothingNamed,
                       Named
  <2> QED BY <2>1, <2>2, Ended DEF Claim, IInv, AdaptersOK
<1> QED BY <1>1, <1>2 DEF Claim

\* An adapter left behind bars the claim: by its attempt or by its record.
LEMMA NoOrphans ==
    ASSUME IInv, stage = "claimed", Claimable
    PROVE  adapters = {}
<1> SUFFICES ASSUME NEW j \in adapters PROVE FALSE
  OBVIOUS
<1>1. /\ j \in Jobs /\ records[j].calls > 0 /\ j \notin receipts
      /\ \A a \in ledger.attempts : a.job = j => a.status = "started"
  BY DEF IInv, AdaptersOK
<1>2. j # job
  BY <1>1 DEF IInv, WorkerOK, Untried, Waiting
<1>3. CASE j \in Named(ledger)
  BY <1>1, <1>3 DEF Named, Claimable, Certain, Uncertain, Retained
<1>4. CASE j \notin Named(ledger)
  BY <1>1, <1>2, <1>4 DEF Claimable, Uncustodied, Retained
<1> QED BY <1>3, <1>4

\* So does whatever was tried under the same condition.
LEMMA NeverTried ==
    ASSUME IInv, stage = "claimed", Claimable, Wanted(Recovered(ledger)),
           NEW k \in Jobs \ {job}, records[k].calls > 0
    PROVE  Key(k) # Key(job)
<1> SUFFICES ASSUME Key(k) = Key(job) PROVE FALSE
  OBVIOUS
<1>1. CASE k \in Named(ledger)
  <2>1. PICK a \in ledger.attempts : a.job = k
    BY <1>1 DEF Named
  <2>2. a.key = Key(job)
    BY <2>1 DEF IInv, LedgerOK, AttemptOK
  <2>3. PICK b \in Recovered(ledger).attempts : b.key = a.key
    BY RecoveredOK DEF IInv
  <2>4. b.status \in {"fetched", "blocked"}
    BY RecoveredOK DEF IInv, AttemptOK
  <2>5. b.status # "fetched"
    BY <2>2, <2>3 DEF Wanted
  <2>6. b.status # "blocked"
    BY <2>2, <2>3 DEF Wanted, Allowed
  <2> QED BY <2>4, <2>5, <2>6
<1>2. CASE k \notin Named(ledger)
  <2>1. k.conditions \cap job.conditions = {}
    BY <1>2 DEF Claimable, Uncustodied
  <2>2. k.conditions = job.conditions /\ k.conditions # {}
    BY DEF Key, IInv, RecordsOK
  <2> QED BY <2>1, <2>2
<1> QED BY <1>1, <1>2

LEMMA StartKeeps ==
    ASSUME IInv, stage = "claimed", Start,
           UNCHANGED <<tree, receipts, adapters, versions>>
    PROVE  IInv'
<1> DEFINE l == Recovered(ledger)
<1>1. /\ Untried(job) /\ job \in Jobs /\ Claimable /\ Wanted(l)
      /\ UNCHANGED <<queue, job, authority>> /\ stage' = "grounded"
      /\ adapters = {}
  BY NoOrphans DEF IInv, WorkerOK, Waiting, Start
<1>2. RecordsOK' /\ CallsKept
  BY <1>1, Settled DEF IInv, Start
<1>3. /\ DOMAIN ledger' = {"asked", "conditions", "attempts"}
      /\ ledger'.attempts = l.attempts \cup {Attempt(ledger)}
  BY RecoveredOK DEF IInv, Start
<1>4. /\ Named(l) \subseteq Named(ledger) /\ Apart(l)
      /\ \A a \in l.attempts : AttemptOK(a) /\ a.status # "started"
  BY RecoveredOK DEF IInv
<1>5. AttemptOK(Attempt(ledger)) /\ Attempt(ledger).job = job
      /\ Attempt(ledger).status = "started" /\ Attempt(ledger).conditions = ledger.conditions
  BY <1>1 DEF Attempt, AttemptOK
<1>6. l.asked = ledger.asked /\ l.conditions = ledger.conditions
  BY RecoveredOK DEF IInv
<1>7. \A a \in l.attempts : a.status # "blocked" =>
          a.conditions \cap ledger.conditions = {}
  BY <1>1, <1>4, <1>6 DEF Wanted, AttemptOK
<1> HIDE DEF l
<1>8. LedgerOK'
  <2>1. \A a \in ledger'.attempts : AttemptOK(a)
    BY <1>3, <1>4, <1>5
  <2>2. Apart(ledger')
    BY <1>3, <1>4, <1>5, <1>7 DEF Apart
  <2> QED BY <1>2, <1>3, <2>1, <2>2 DEF LedgerOK, AttemptOK, Apart, CallsKept, Key
<1>9. Named(ledger') \subseteq Named(ledger) \cup {job}
      /\ \A a \in ledger'.attempts : a.job = job => a.status = "started"
  BY <1>1, <1>3, <1>4, <1>5 DEF Named, Untried
<1>10. QueueOK'
  BY <1>1, <1>2, <1>9, ZenonT(60) DEF IInv, QueueOK, Untried, Known, CallsKept, Named
<1>11. WorkerOK'
  <2>1. \A k \in Jobs \ {job} : records[k].calls > 0 => Key(k) # Key(job)
    BY <1>1, NeverTried DEF l
  <2> QED BY <1>1, <1>2, <1>9, <2>1 DEF IInv, WorkerOK, Untried, Known, CallsKept, Key,
                                    Waiting, Working, Running
<1>12. AdaptersOK' /\ TriedOnce' /\ TreeOK'
  BY <1>1, <1>2 DEF IInv, AdaptersOK, TriedOnce, TreeOK, CallsKept, Key
<1> QED BY <1>2, <1>8, <1>10, <1>11, <1>12 DEF IInv

LEMMA GroundKeeps == IInv /\ Ground => IInv'
<1> SUFFICES ASSUME IInv, Ground PROVE IInv'
  OBVIOUS
<1>1. /\ stage = "claimed" /\ stage # "idle" /\ TreeOK'
      /\ UNCHANGED <<tree, receipts, adapters, versions>>
  BY DEF Ground, IInv, TreeOK
<1>2. CASE Refuse
  <2>1. LedgerOK' /\ NothingNamed
    BY <1>2 DEF Refuse, Over, Settle, IInv, LedgerOK, AttemptOK, Apart, Jobs, Key,
                NothingNamed, Named
  <2> QED BY <1>1, <1>2, <2>1, Ended DEF Refuse, IInv, AdaptersOK
<1>3. CASE Repeat
  <2>1. ledger' = Recovered(ledger) /\ Jobs' = Jobs /\ Over("failed") /\ Claimable
    BY <1>3 DEF Repeat, Over, Settle, Jobs
  <2>2. LedgerOK'
    BY <2>1, RecoveredOK DEF IInv, LedgerOK, AttemptOK, Apart, Key
  <2>3. NothingNamed
    BY <2>1, RecoveredOK DEF IInv, NothingNamed, Named
  <2>4. adapters' = {}
    BY <1>1, <2>1, NoOrphans
  <2> QED BY <1>1, <2>1, <2>2, <2>3, <2>4, Ended
<1>4. CASE Start
  BY <1>1, <1>4, StartKeeps
<1> QED BY <1>2, <1>3, <1>4 DEF Ground

\* A failure of the job, with its adapter.
LEMMA FailKeeps ==
    ASSUME IInv, stage \in Working, Blocked, adapters' = adapters \ {job} \/ adapters' = {},
           UNCHANGED <<tree, versions, receipts>>
    PROVE  IInv'
<1>1. PICK status \in {"cancelled", "failed"} : Over(status)
  BY DEF Blocked
<1>2. Jobs' = Jobs
  BY <1>1 DEF Over, Settle, Jobs
<1>3. /\ DOMAIN ledger' = {"asked", "conditions", "attempts"}
      /\ \A a \in ledger'.attempts : AttemptOK(a)
      /\ Apart(ledger')
      /\ NothingNamed
  <2>1. CASE Conclude("blocked")
    BY <2>1, Concluded
  <2>2. CASE UNCHANGED ledger
    BY <2>2 DEF IInv, LedgerOK, NothingNamed, Named
  <2> QED BY <2>1, <2>2 DEF Blocked
<1>4. LedgerOK'
  BY <1>2, <1>3 DEF LedgerOK, AttemptOK, Apart, Key
<1>5. adapters' = {} /\ stage # "idle" /\ TreeOK'
  BY DEF IInv, AdaptersOK, TreeOK, Working, Running
<1> QED BY <1>1, <1>3, <1>4, <1>5, Ended

\* A call goes to the adapter of a job without a receipt.
LEMMA CallKeeps ==
    ASSUME IInv, UNCHANGED <<tree, versions, receipts>>,
           \/ stage = "grounded" /\ Call("previewing")
           \/ stage = "previewing" /\ Call("running")
    PROVE  IInv'
<1>1. /\ job \in Jobs /\ job \notin receipts /\ stage \in Working
      /\ RecordOK(job) /\ adapters \subseteq {job}
      /\ \A a \in ledger.attempts : a.job = job => a.status = "started"
      /\ \A k \in Jobs \ {job} : records[k].calls > 0 => Key(k) # Key(job)
  BY DEF IInv, WorkerOK, RecordsOK, AdaptersOK, Working, Running
<1>2. /\ Jobs' = Jobs /\ \A k \in Jobs \ {job} : records'[k] = records[k]
      /\ UNCHANGED <<ledger, queue, job, authority>>
      /\ adapters' = adapters \cup {job}
  BY DEF Call, Jobs
<1>3. /\ RecordOK(job)'
      /\ stage = "grounded" => records'[job].calls = 1 /\ stage' = "previewing"
      /\ stage = "previewing" => records'[job].calls = 2 /\ stage' = "running"
  <2>1. records'[job] = [records[job] EXCEPT !.calls = @ + 1, !.token = (stage = "previewing")]
    BY <1>1 DEF Call, Jobs
  <2>2. /\ DOMAIN records'[job] = {"status", "calls", "token"}
        /\ records'[job].calls = records[job].calls + 1
        /\ records'[job].status = records[job].status
        /\ records'[job].token = (stage = "previewing")
    BY <1>1, <2>1 DEF RecordOK
  <2>3. /\ stage = "grounded" => records[job].calls = 0 /\ stage' = "previewing"
        /\ stage = "previewing" => records[job].calls = 1 /\ stage' = "running"
    BY DEF IInv, WorkerOK, Call
  <2>4. stage = "grounded" => records'[job].calls = 1
    BY <2>2, <2>3
  <2>5. stage = "previewing" => records'[job].calls = 2
    BY <2>2, <2>3
  <2>6. stage = "grounded" \/ stage = "previewing"
    OBVIOUS
  <2>7. stage = "previewing" => records'[job].token
    BY <2>2
  <2> QED BY <1>1, <1>2, <2>2, <2>3, <2>4, <2>5, <2>6, <2>7 DEF RecordOK
<1>4. RecordsOK'
  BY <1>1, <1>2, <1>3 DEF IInv, RecordsOK, RecordOK
<1>5. LedgerOK' /\ TreeOK'
  BY <1>2 DEF IInv, LedgerOK, AttemptOK, Apart, Key, TreeOK
<1>6. QueueOK'
  BY <1>2 DEF IInv, QueueOK, Untried, Known, Named
<1>7. WorkerOK'
  BY <1>1, <1>2, <1>3 DEF IInv, WorkerOK, Known, Key, Waiting, Working, Running
<1>8. AdaptersOK'
  BY <1>1, <1>2, <1>3 DEF IInv, AdaptersOK, Working, Running
<1>9. TriedOnce'
  BY <1>1, <1>2 DEF IInv, TriedOnce, Key
<1> QED BY <1>4, <1>5, <1>6, <1>7, <1>8, <1>9 DEF IInv

LEMMA EffectsKeep == IInv /\ (BeginPreview \/ BeginRun \/ Apply \/ WriteReceipt) => IInv'
<1> SUFFICES ASSUME IInv, BeginPreview \/ BeginRun \/ Apply \/ WriteReceipt PROVE IInv'
  OBVIOUS
<1>1. CASE BeginPreview
  BY <1>1, CallKeeps, FailKeeps DEF BeginPreview, Fail, Working
<1>2. CASE BeginRun
  BY <1>2, CallKeeps, FailKeeps DEF BeginRun, Fail, Working
<1>3. CASE Apply
  <2>1. CASE Fail /\ UNCHANGED <<tree, versions>>
    BY <1>3, <2>1, FailKeeps DEF Apply, Fail, Working, Running
  <2>2. CASE /\ UNCHANGED <<tree, versions>>
                \/ (versions' = versions + 1 /\ tree' = [tree EXCEPT !.files = versions'])
             /\ adapters' = adapters \ {job} /\ stage' = "applied"
             /\ UNCHANGED <<ledger, records, queue, job, authority, receipts>>
    <3>1. TreeOK'
      BY <2>2 DEF IInv, TreeOK
    <3>2. adapters' = {} /\ stage = "running"
      BY <1>3, <2>2 DEF Apply, IInv, AdaptersOK, Working, Running
    <3>3. QueueOK' /\ WorkerOK' /\ AdaptersOK'
      BY <2>2, <3>2 DEF IInv, QueueOK, Untried, Known, Named, WorkerOK, AdaptersOK, Jobs, Key,
                        Waiting, Working, Running
    <3> QED BY <2>2, <3>1, <3>3 DEF IInv, RecordsOK, RecordOK, LedgerOK, AttemptOK, Apart,
                                   TriedOnce, Jobs, Key
  <2> QED BY <1>3, <2>1, <2>2 DEF Apply
<1>4. CASE WriteReceipt
  <2>1. /\ job \in Jobs /\ records[job].calls = 2 /\ adapters = {}
        /\ stage = "applied" /\ stage' = "receipted" /\ receipts' = receipts \cup {job}
        /\ UNCHANGED <<tree, ledger, records, queue, job, authority, adapters, versions>>
    BY <1>4 DEF WriteReceipt, IInv, WorkerOK, AdaptersOK, Running
  <2>2. RecordsOK'
    BY <2>1 DEF IInv, RecordsOK, RecordOK, Jobs
  <2>3. QueueOK' /\ WorkerOK' /\ AdaptersOK'
    BY <2>1 DEF IInv, QueueOK, Untried, Known, Named, WorkerOK, AdaptersOK, Jobs, Key,
                Waiting, Working, Running
  <2> QED BY <2>1, <2>2, <2>3 DEF IInv, TreeOK, LedgerOK, AttemptOK, Apart, TriedOnce, Jobs,
                                  Key
<1> QED BY <1>1, <1>2, <1>3, <1>4

LEMMA FinishKeeps == IInv /\ Finish => IInv'
<1> SUFFICES ASSUME IInv, Finish PROVE IInv'
  OBVIOUS
<1>1. /\ stage = "receipted" /\ stage \in Working /\ stage # "idle" /\ adapters = {}
      /\ job \in receipts /\ UNCHANGED <<tree, receipts, adapters, versions>>
  BY DEF Finish, IInv, WorkerOK, AdaptersOK, Working, Running
<1>2. CASE Conclude("fetched") /\ Over("delivered")
  <2>1. Jobs' = Jobs
    BY <1>2 DEF Over, Settle, Jobs
  <2>2. LedgerOK' /\ NothingNamed
    BY <1>1, <1>2, <2>1, Concluded DEF LedgerOK, AttemptOK, Apart, Key
  <2> QED BY <1>1, <1>2, <2>2, Ended DEF IInv, TreeOK
<1>3. CASE Blocked
  BY <1>1, <1>3, FailKeeps
<1> QED BY <1>2, <1>3 DEF Finish

LEMMA NextIInv == IInv /\ [Next]_vars => IInv'
<1> SUFFICES ASSUME IInv, [Next]_vars PROVE IInv'
  OBVIOUS
<1>1. CASE UNCHANGED vars
  BY <1>1, Aside DEF vars, files, ram, IInv, TreeOK
<1>2. CASE Next
  BY <1>2, SubmitKeeps, OutsideKeeps, OrphanKeeps, RestartKeeps, TakeKeeps, ClaimKeeps,
     GroundKeeps, EffectsKeep, FinishKeeps DEF Next, Worker
<1> QED BY <1>1, <1>2

LEMMA Invariance == Spec => []IInv
  BY InitIInv, NextIInv, PTL DEF Spec

\* However many operators died over their adapters, and whatever became of the
\* ledger, two adapters of the source never run at once.
THEOREM SourceSafety == Spec => []Safety
<1>1. ASSUME IInv
      PROVE  OneAdapter
  <2>1. CASE adapters = {}
    BY <2>1, FS_EmptySet DEF OneAdapter
  <2>2. CASE adapters # {}
    <3>1. PICK j \in adapters : adapters = {j}
      BY <1>1, <2>2 DEF IInv, AdaptersOK
    <3>2. Cardinality({j}) = 1
      BY FS_Singleton
    <3> QED BY <3>1, <3>2 DEF OneAdapter
  <2> QED BY <2>1, <2>2
<1>2. ASSUME IInv
      PROVE  TypeOK
  BY <1>2 DEF IInv, RecordsOK, RecordOK, LedgerOK, AttemptOK, QueueOK, WorkerOK, AdaptersOK,
              Known, Named, TypeOK
<1>3. IInv => Safety
  BY <1>1, <1>2 DEF Safety
<1> QED BY <1>3, Invariance, PTL

\* No two jobs call the adapter under one condition, though budgets differ or
\* the ledger forgets the first.
THEOREM TriesOnce == Spec => []TriedOnce
<1>1. IInv => TriedOnce
  BY DEF IInv
<1> QED BY <1>1, Invariance, PTL

\* Worker and reconciliation alike deliver only what has its receipt.
THEOREM DeliversReceipted == Spec => []DeliveredIsReceipted
<1>1. IInv => DeliveredIsReceipted
  BY DEF IInv, RecordsOK, RecordOK, DeliveredIsReceipted
<1> QED BY <1>1, Invariance, PTL

\* Whoever concludes the attempts, no condition is collected twice.
THEOREM CollectsOnce == Spec => []CollectedOnce
<1>1. IInv => CollectedOnce
  BY DEF IInv, LedgerOK, Apart, CollectedOnce
<1> QED BY <1>1, Invariance, PTL
===============================================================================
