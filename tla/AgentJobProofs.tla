---------------------------- MODULE AgentJobProofs ----------------------------
(***************************************************************************)
(* For every set of jobs and of requests: what the record of a job says is *)
(* what its agent and its changes do, and a delivery through the route, or *)
(* a cancellation before the launch, is the last word.                     *)
(*                                                                         *)
(* A job is in one place at a time: in a request that submits it, in the   *)
(* queue, or with the worker.  While the worker has claimed it nobody else *)
(* writes its record; a cancel that writes has set the flag before, so the *)
(* job will not be claimed.                                                *)
(*                                                                         *)
(* For every set of files and branches: what a job does to the checkout    *)
(* spares what the owner has in progress.  While a job runs, a file that   *)
(* was the owner's stays dirty and stays in the baseline; a job that has   *)
(* changed branches began with nothing of the owner's.                     *)
(***************************************************************************)
EXTENDS JobQueue, JobCheckout, TLAPS

\* The worker has claimed its job; it is inside the checkout; the agent has not
\* been started; the record says running.
Claiming == {"wait", "begin", "check", "prepare", "launch", "agent", "reap", "unwind",
             "finish", "leave", "raised", "fail"}
Inside == Claiming \ {"wait", "fail"}
Early == {"claim", "wait", "begin", "check", "prepare", "launch"}
Running == Claiming \ {"wait", "begin", "leave"}

WorkerOK ==
    /\ worker.step = "idle" => worker.job = NoJob
    /\ worker.step # "idle" => status[worker.job] # "none"
    /\ worker.step \in Claiming => claimed = worker.job
    /\ worker.step \in Inside => checkout = Worker
    /\ worker.step \in Early => worker.job \notin launched
    /\ worker.step \in Running => status[worker.job] = "running"
    /\ worker.step \in {"claim", "wait", "begin"} => status[worker.job] # "delivered"
    /\ worker.step \in {"leave", "settle"} => status[worker.job] \in Terminal

\* A job nobody has worked on yet.
Fresh(j) == j \notin launched /\ worker.job # j /\ status[j] \notin {"none", "delivered"}

QueueOK ==
    /\ \A i, k \in DOMAIN queue : queue[i] = queue[k] => i = k
    /\ \A i \in DOMAIN queue : Fresh(queue[i])
    /\ \A j \in launched : status[j] # "none"

\* A submission owns its job until the job is in the queue.
SubmitsOK ==
    /\ \A t \in Posts : post[t].step \in {"submit", "record"} =>
          /\ status[post[t].job] = "none"
          /\ \A u \in Posts \ {t} : post[u].job # post[t].job
    /\ \A t \in Posts : post[t].step = "put" =>
          /\ Fresh(post[t].job)
          /\ \A i \in DOMAIN queue : queue[i] # post[t].job
          /\ \A u \in Posts \ {t} : post[u].step = "put" => post[u].job # post[t].job

CancelsOK ==
    /\ \A t \in Posts : post[t].step \in {"cancel", "read", "flag", "write"} =>
          status[post[t].job] # "none"
    /\ \A t \in Posts : post[t].step = "write" =>
          post[t].job \in flagged /\ claimed # post[t].job
    /\ routed => \A t \in Posts : post[t].step \in {"flag", "write"} =>
          status[post[t].job] # "delivered"
    /\ routed => \A t \in Posts :
          post[t].step \notin {"idle", "submit", "cancel"} => checkout = t

IInv == TypeOK /\ WorkerOK /\ QueueOK /\ SubmitsOK /\ CancelsOK

USE QueueAssumption DEF Resting, history

LEMMA TypeInit == Init => TypeOK
<1> SUFFICES ASSUME Init PROVE TypeOK
  OBVIOUS
<1>1. worker \in [step : WorkerSteps, job : Jobs \cup {NoJob}] /\ worker.step = "idle"
  BY DEF Init, WorkerSteps
<1>2. /\ post \in [Posts -> [step : PostSteps, job : Jobs \cup {NoJob}]]
      /\ \A t \in Posts : post[t].step = "idle"
  BY DEF Init, PostSteps
<1>3. status \in [Jobs -> Statuses] /\ queue \in Seq(Jobs)
  BY DEF Init, Statuses
<1>4. restarts \in 0 .. MaxRestarts /\ lost \in SUBSET Jobs
  BY DEF Init
<1> QED BY <1>1, <1>2, <1>3, <1>4 DEF Init, TypeOK

PostType == [step : PostSteps, job : Jobs \cup {NoJob}]

\* A request that moves, and a record that is written, leave the others alone.
LEMMA PostMoved ==
    ASSUME TypeOK, NEW t \in Posts, NEW step \in PostSteps, PostGo(t, step)
    PROVE  /\ post' \in [Posts -> PostType]
           /\ post'[t].step = step
           /\ \A u \in Posts : post'[u].job = post[u].job
           /\ \A u \in Posts \ {t} : post'[u] = post[u]
  BY DEF PostGo, TypeOK, PostType

LEMMA Recorded ==
    ASSUME TypeOK, NEW j \in Jobs, NEW s \in Statuses, Record(j, s)
    PROVE  /\ status' \in [Jobs -> Statuses]
           /\ status'[j] = s
           /\ \A k \in Jobs \ {j} : status'[k] = status[k]
  BY DEF Record, TypeOK

LEMMA RequestTypes ==
    ASSUME TypeOK, NEW t \in Posts, NEW j \in Jobs,
           AskSubmit(t, j) \/ AskCancel(t, j) \/ Request(t)
    PROVE  TypeOK'
<1>1. CASE AskSubmit(t, j)
  BY <1>1 DEF AskSubmit, Ask, TypeOK, PostSteps, runner, process, lock
<1>2. CASE AskCancel(t, j)
  BY <1>2 DEF AskCancel, Ask, TypeOK, PostSteps, runner, process, lock
<1>3. CASE Enter(t)
  <2>1. checkout' \in Posts \cup {Worker, Nobody}
    BY <1>3 DEF Enter, TakeCheckout, TypeOK
  <2>2. /\ post' \in [Posts -> [step : PostSteps, job : Jobs \cup {NoJob}]]
        /\ \A u \in Posts : (post'[u].step # "idle") => (post'[u].job \in Jobs)
    BY <1>3 DEF Enter, PostAt, PostGo, TypeOK, PostSteps
  <2> QED BY <1>3, <2>1, <2>2 DEF Enter, TypeOK, runner, process
<1>4. CASE SubmitRecord(t)
  <2>1. status' \in [Jobs -> Statuses]
    BY <1>4 DEF SubmitRecord, Record, TypeOK, Statuses
  <2>2. /\ post' \in [Posts -> [step : PostSteps, job : Jobs \cup {NoJob}]]
        /\ \A u \in Posts : (post'[u].step # "idle") => (post'[u].job \in Jobs)
    BY <1>4, PostMoved DEF SubmitRecord, PostAt, TypeOK, PostSteps, PostType
  <2> QED BY <1>4, <2>1, <2>2 DEF SubmitRecord, TypeOK, runner, process, lock
<1>5. CASE SubmitPut(t)
  BY <1>5 DEF SubmitPut, PostAt, PostGo, TypeOK, PostSteps, process, lock
<1>6. CASE CancelRead(t)
  BY <1>6 DEF CancelRead, PostAt, PostGo, TypeOK, PostSteps, runner, process, lock
<1>7. CASE CancelFlag(t)
  BY <1>7 DEF CancelFlag, Terminate, PostAt, PostGo, TypeOK, PostSteps, lock
<1>8. CASE CancelWrite(t)
  BY <1>8 DEF CancelWrite, PostAt, PostGo, Record, TypeOK, PostSteps, Statuses, runner, process, lock
<1>9. CASE Leave(t)
  BY <1>9 DEF Leave, PostAt, TypeOK, PostSteps, runner, process
<1> QED BY <1>1, <1>2, <1>3, <1>4, <1>5, <1>6, <1>7, <1>8, <1>9 DEF Request

AgentActs == AgentEnds \/ AgentGarbles \/ AgentTimesOut \/ AgentStops

LEMMA WorkTypes ==
    ASSUME TypeOK, Work \/ AgentActs
    PROVE  TypeOK'
<1>1. CASE Take
  BY <1>1 DEF Take, At, TypeOK, WorkerSteps, process, lock
<1>2. CASE Claim
  BY <1>2, SMTT(30) DEF Claim, At, Go, Record, TypeOK, WorkerSteps, Statuses, process, lock
<1>3. CASE WorkerEnters
  BY <1>3 DEF WorkerEnters, At, Go, TypeOK, WorkerSteps, runner, process
<1>4. CASE Begin \/ CheckFlag \/ Prepare \/ Unwind \/ Finish
  BY <1>4 DEF Begin, CheckFlag, Prepare, Unwind, Finish, At, Go, Record, TypeOK, WorkerSteps,
              Statuses, runner, process, lock
<1>5. CASE Launch
  BY <1>5 DEF Launch, At, Go, TypeOK, WorkerSteps, runner, lock
<1>6. CASE Reap
  BY <1>6 DEF Reap, At, Go, TypeOK, WorkerSteps, runner, process, lock
<1>7. CASE WorkerLeaves
  BY <1>7 DEF WorkerLeaves, At, Go, TypeOK, WorkerSteps, runner, process
<1>8. CASE Fail
  BY <1>8 DEF Fail, At, Go, Record, TypeOK, WorkerSteps, Statuses, runner, process, lock
<1>9. CASE SettleJob
  BY <1>9 DEF SettleJob, At, TypeOK, WorkerSteps, process, lock
<1>10. CASE AgentActs
  BY <1>10, ZenonT(60) DEF AgentActs, AgentEnds, AgentGarbles, AgentTimesOut, AgentStops, AgentGone, At, Go,
               TypeOK, WorkerSteps, runner, lock
<1> QED
  BY <1>1, <1>2, <1>3, <1>4, <1>5, <1>6, <1>7, <1>8, <1>9, <1>10 DEF Work

-------------------------------------------------------------------------------
(* Requests keep the rest.                                                 *)

LEMMA SubmitSteps ==
    ASSUME IInv, NEW t \in Posts, NEW j \in Jobs,
           AskSubmit(t, j) \/ AskCancel(t, j) \/ Enter(t) \/ SubmitRecord(t) \/ Leave(t)
    PROVE  WorkerOK' /\ QueueOK' /\ SubmitsOK' /\ CancelsOK'
<1>1. CASE AskSubmit(t, j)
  <2>1. WorkerOK' /\ QueueOK'
    BY <1>1 DEF AskSubmit, IInv, WorkerOK, QueueOK, Fresh, runner, lock
  <2>2. SubmitsOK'
    BY <1>1 DEF AskSubmit, Ask, PostAt, IInv, TypeOK, SubmitsOK, Fresh, runner
  <2>3. CancelsOK'
    BY <1>1 DEF AskSubmit, Ask, PostAt, IInv, TypeOK, CancelsOK, runner, lock
  <2> QED BY <2>1, <2>2, <2>3
<1>2. CASE AskCancel(t, j)
  <2>1. WorkerOK' /\ QueueOK'
    BY <1>2 DEF AskCancel, IInv, WorkerOK, QueueOK, Fresh, runner, lock
  <2>2. SubmitsOK'
    BY <1>2 DEF AskCancel, Ask, PostAt, IInv, TypeOK, SubmitsOK, Fresh, runner
  <2>3. CancelsOK'
    BY <1>2 DEF AskCancel, Ask, PostAt, IInv, TypeOK, CancelsOK, runner, lock
  <2> QED BY <2>1, <2>2, <2>3
<1>3. CASE Enter(t)
  <2>1. QueueOK'
    BY <1>3 DEF Enter, IInv, QueueOK, Fresh, runner
  <2>2. SubmitsOK'
    <3>1. /\ \/ post[t].step = "submit" /\ post'[t].step = "record"
             \/ post[t].step = "cancel" /\ post'[t].step = "read"
          /\ \A u \in Posts : post'[u].job = post[u].job
          /\ \A u \in Posts \ {t} : post'[u] = post[u]
      BY <1>3, PostMoved DEF Enter, PostAt, IInv, PostSteps
    <3> QED BY <1>3, <3>1 DEF Enter, IInv, SubmitsOK, Fresh, runner
  <2>3. WorkerOK'
    BY <1>3 DEF Enter, TakeCheckout, IInv, TypeOK, WorkerOK, runner
  <2>4. CancelsOK'
    BY <1>3, SMTT(30) DEF Enter, TakeCheckout, PostAt, PostGo, IInv, TypeOK, CancelsOK, runner
  <2> QED BY <2>1, <2>2, <2>3, <2>4
<1>4. CASE SubmitRecord(t)
  <2> DEFINE k == post[t].job
  <2>0. /\ k \in Jobs /\ status[k] = "none" /\ \A u \in Posts \ {t} : post[u].job # k
        /\ post[t].step = "record"
    BY <1>4 DEF SubmitRecord, PostAt, IInv, TypeOK, SubmitsOK
  <2>1. /\ \A u \in Posts : post'[u].job = post[u].job
        /\ \A u \in Posts \ {t} : post'[u] = post[u]
        /\ \A i \in Jobs \ {k} : status'[i] = status[i]
        /\ \/ status'[k] = "queued" /\ post'[t].step = "put"
           \/ status'[k] = "none" /\ post'[t].step = "leave"
    BY <1>4, <2>0, PostMoved, Recorded DEF SubmitRecord, IInv, PostSteps, Statuses
  <2>2. worker.job # k /\ k \notin launched /\ \A i \in DOMAIN queue : queue[i] # k
    BY <2>0 DEF IInv, TypeOK, WorkerOK, QueueOK, Fresh
  <2>3. UNCHANGED <<runner, process, worker, lock, launched>>
    BY <1>4 DEF SubmitRecord
  <2> HIDE DEF k
  <2>4. WorkerOK'
    <3>1. worker.step # "idle" => status'[worker.job] = status[worker.job]
      BY <2>1, <2>2 DEF IInv, TypeOK
    <3> QED BY <2>3, <3>1 DEF IInv, WorkerOK, Early, Running, Claiming, runner, lock
  <2>5. QueueOK'
    BY <2>1, <2>2, <2>3 DEF IInv, TypeOK, QueueOK, Fresh, runner
  <2>6. SubmitsOK'
    <3> USE DEF k
    <3>1. \A u \in Posts \ {t} : post[u].job # k
      BY <2>0
    <3>2. \A u \in Posts : post[u].step \in {"submit", "record", "put"} => post[u].job \in Jobs
      BY DEF IInv, TypeOK
    <3> QED BY <2>0, <2>1, <2>2, <2>3, <3>1, <3>2 DEF IInv, SubmitsOK, Fresh, runner
  <2>7. CancelsOK'
    <3> USE DEF k
    <3>1. \A u \in Posts : post[u].step \in {"cancel", "read", "flag", "write"} =>
             post[u].job \in Jobs \ {k} /\ u # t
      BY <2>0 DEF IInv, TypeOK
    <3> QED BY <2>0, <2>1, <2>3, <3>1 DEF IInv, CancelsOK, runner, lock
  <2> QED BY <2>4, <2>5, <2>6, <2>7
<1>5. CASE Leave(t)
  <2>1. QueueOK'
    BY <1>5 DEF Leave, IInv, QueueOK, Fresh, runner
  <2>2. SubmitsOK'
    BY <1>5 DEF Leave, PostAt, IInv, TypeOK, SubmitsOK, Fresh, runner
  <2>3. WorkerOK'
    BY <1>5 DEF Leave, IInv, TypeOK, WorkerOK, runner
  <2>4. CancelsOK'
    BY <1>5 DEF Leave, PostAt, IInv, TypeOK, CancelsOK, runner
  <2> QED BY <2>1, <2>2, <2>3, <2>4
<1> QED BY <1>1, <1>2, <1>3, <1>4, <1>5

LEMMA CancelSteps ==
    ASSUME IInv, NEW t \in Posts,
           SubmitPut(t) \/ CancelRead(t) \/ CancelFlag(t) \/ CancelWrite(t)
    PROVE  WorkerOK' /\ QueueOK' /\ SubmitsOK' /\ CancelsOK'
<1> DEFINE k == post[t].job
<1>1. CASE SubmitPut(t)
  <2>1. /\ post[t].step = "put" /\ post'[t].step = "leave"
        /\ \A u \in Posts : post'[u].job = post[u].job
        /\ \A u \in Posts \ {t} : post'[u] = post[u]
    BY <1>1, PostMoved DEF SubmitPut, PostAt, IInv, PostSteps
  <2>2. k \in Jobs /\ Fresh(k) /\ \A i \in DOMAIN queue : queue[i] # k
    BY <2>1 DEF IInv, TypeOK, SubmitsOK
  <2>3. queue \in Seq(Jobs) /\ queue' = Append(queue, k)
        /\ UNCHANGED <<status, flagged, claimed, process, worker, lock, launched>>
    BY <1>1 DEF SubmitPut, IInv, TypeOK
  <2> HIDE DEF k
  <2>4. /\ \A i \in DOMAIN queue' : i \in DOMAIN queue \/ i = Len(queue) + 1
        /\ \A i \in DOMAIN queue : i # Len(queue) + 1 /\ queue'[i] = queue[i]
        /\ queue'[Len(queue) + 1] = k
    BY <2>2, <2>3
  <2>5. WorkerOK'
    BY <2>3 DEF IInv, WorkerOK, lock
  <2>6. \A j : Fresh(j) = Fresh(j)'
    BY <2>3 DEF Fresh
  <2>7. QueueOK'
    <3>1. \A i, l \in DOMAIN queue' : queue'[i] = queue'[l] => i = l
      BY <2>2, <2>4 DEF IInv, QueueOK
    <3>2. \A i \in DOMAIN queue' : Fresh(queue[i])'
      BY <2>2, <2>3, <2>4 DEF IInv, QueueOK, Fresh
    <3> QED BY <2>3, <3>1, <3>2 DEF IInv, QueueOK
  <2>8. SubmitsOK'
    <3>1. \A u \in Posts : post'[u].step = "put" =>
             u # t /\ post[u].step = "put" /\ post[u].job # k
      BY <2>1 DEF IInv, SubmitsOK, k
    <3>2. \A u \in Posts : post'[u].step = "put" =>
             Fresh(post[u].job)' /\ \A i \in DOMAIN queue' : queue'[i] # post'[u].job
      BY <2>1, <2>3, <2>4, <3>1 DEF IInv, SubmitsOK, Fresh
    <3> QED BY <2>1, <2>3, <3>1, <3>2 DEF IInv, SubmitsOK
  <2>9. CancelsOK'
    BY <2>1, <2>3 DEF IInv, CancelsOK, lock
  <2> QED BY <2>5, <2>7, <2>8, <2>9
<1>2. CASE CancelRead(t)
  <2>1. /\ post[t].step = "read"
        /\ \/ post'[t].step = "leave"
           \/ post'[t].step = "flag" /\ status[k] # "delivered"
        /\ \A u \in Posts : post'[u].job = post[u].job
        /\ \A u \in Posts \ {t} : post'[u] = post[u]
    BY <1>2, PostMoved DEF CancelRead, PostAt, IInv, PostSteps, Terminal
  <2>2. UNCHANGED <<status, runner, process, worker, lock, launched>>
    BY <1>2 DEF CancelRead
  <2>3. WorkerOK' /\ QueueOK'
    BY <2>2 DEF IInv, WorkerOK, QueueOK, Fresh, runner, lock
  <2>4. SubmitsOK' /\ CancelsOK'
    BY <2>1, <2>2 DEF IInv, SubmitsOK, CancelsOK, Fresh, runner, lock
  <2> QED BY <2>3, <2>4
<1>3. CASE CancelFlag(t)
  <2>1. /\ post[t].step = "flag"
        /\ post'[t].step = "leave" \/ (post'[t].step = "write" /\ claimed # k)
        /\ \A u \in Posts : post'[u].job = post[u].job
        /\ \A u \in Posts \ {t} : post'[u] = post[u]
    BY <1>3, PostMoved DEF CancelFlag, PostAt, IInv, PostSteps
  <2>2. UNCHANGED <<status, queue, claimed, worker, lock, launched>>
        /\ flagged' = flagged \cup {k}
    BY <1>3 DEF CancelFlag
  <2>3. WorkerOK' /\ QueueOK'
    BY <2>2 DEF IInv, WorkerOK, QueueOK, Fresh, lock
  <2>4. SubmitsOK' /\ CancelsOK'
    BY <2>1, <2>2 DEF IInv, SubmitsOK, CancelsOK, Fresh, lock
  <2> QED BY <2>3, <2>4
<1>4. CASE CancelWrite(t)
  <2>0. /\ post[t].step = "write" /\ k \in Jobs /\ claimed # k /\ k \in flagged
        /\ status[k] # "none"
    BY <1>4 DEF CancelWrite, PostAt, IInv, TypeOK, CancelsOK
  <2>1. /\ post'[t].step = "leave"
        /\ \A u \in Posts : post'[u].job = post[u].job
        /\ \A u \in Posts \ {t} : post'[u] = post[u]
        /\ status'[k] = "cancelled" /\ \A i \in Jobs \ {k} : status'[i] = status[i]
    BY <1>4, <2>0, PostMoved, Recorded DEF CancelWrite, IInv, PostSteps, Statuses
  <2>2. UNCHANGED <<runner, process, worker, lock, launched>>
    BY <1>4 DEF CancelWrite
  <2>3. \A i \in Jobs : Fresh(i) => Fresh(i)'
    BY <2>1, <2>2 DEF Fresh
  <2> HIDE DEF k
  <2>4. WorkerOK'
    <3>1. worker.step # "idle" => worker.job \in Jobs
      BY DEF IInv, TypeOK
    <3>2. worker.step \in Claiming => worker.job # k
      BY <2>0 DEF IInv, WorkerOK
    <3> QED BY <2>1, <2>2, <3>1, <3>2 DEF IInv, WorkerOK, Early, Running, Inside, Claiming,
                                          Terminal, runner, lock
  <2>5. QueueOK'
    <3>1. \A i \in DOMAIN queue : queue[i] \in Jobs
      BY DEF IInv, TypeOK
    <3>2. launched \subseteq Jobs
      BY DEF IInv, TypeOK
    <3> QED BY <2>1, <2>2, <2>3, <3>1, <3>2 DEF IInv, QueueOK, runner
  <2>6. SubmitsOK'
    <3>1. \A u \in Posts : post[u].step # "idle" => post[u].job \in Jobs
      BY DEF IInv, TypeOK
    <3>2. \A u \in Posts : post[u].step \in {"submit", "record"} => post[u].job # k
      BY <2>0 DEF IInv, SubmitsOK
    <3> QED BY <2>0, <2>1, <2>2, <2>3, <3>1, <3>2 DEF IInv, SubmitsOK, runner
  <2>7. CancelsOK'
    <3>1. \A u \in Posts : post[u].step # "idle" => post[u].job \in Jobs
      BY DEF IInv, TypeOK
    <3> QED BY <2>0, <2>1, <2>2, <3>1 DEF IInv, CancelsOK, runner, lock
  <2> QED BY <2>4, <2>5, <2>6, <2>7
<1> QED BY <1>1, <1>2, <1>3, <1>4

-------------------------------------------------------------------------------
(* The worker keeps the rest.                                              *)

\* A step of the worker on the job it has: it touches nothing of what waits in
\* the queue or with a request.
LEMMA OwnJobOnly ==
    ASSUME IInv, NEW k \in Jobs, k = worker.job, worker.step # "idle",
           UNCHANGED <<routed, queue, flagged, post>>,
           \A j \in Jobs \ {k} : status'[j] = status[j],
           status'[k] # "none",
           status'[k] = "delivered" => status[k] = "delivered" \/ checkout = Worker,
           worker'.job \in {k, NoJob}, launched' \subseteq launched \cup {k},
           claimed' \in {claimed, NoJob} \/ (claimed' = k /\ k \notin flagged),
           checkout' = checkout \/ checkout \in {Nobody, Worker}
    PROVE  QueueOK' /\ SubmitsOK' /\ CancelsOK'
<1>1. \A j \in Jobs : Fresh(j) => Fresh(j)'
  BY DEF Fresh
<1>2. /\ \A i \in DOMAIN queue : queue[i] \in Jobs
      /\ \A t \in Posts : post[t].step # "idle" => post[t].job \in Jobs
      /\ launched \subseteq Jobs /\ status[k] # "none"
  BY DEF IInv, TypeOK, WorkerOK
<1>3. QueueOK'
  <2>1. \A i \in DOMAIN queue : Fresh(queue[i])'
    BY <1>1, <1>2 DEF IInv, QueueOK
  <2>2. \A j \in launched' : status'[j] # "none"
    BY <1>2 DEF IInv, QueueOK
  <2> QED BY <2>1, <2>2 DEF IInv, QueueOK
<1>4. SubmitsOK'
  <2>1. \A t \in Posts : post[t].step = "put" => Fresh(post[t].job)'
    BY <1>1, <1>2 DEF IInv, SubmitsOK
  <2>2. \A t \in Posts : post[t].step \in {"submit", "record"} => status'[post[t].job] = "none"
    BY <1>2 DEF IInv, SubmitsOK
  <2> QED BY <2>1, <2>2 DEF IInv, SubmitsOK
<1>5. CancelsOK'
  <2>1. \A t \in Posts : post[t].step \in {"cancel", "read", "flag", "write"} =>
           status'[post[t].job] # "none"
    BY <1>2 DEF IInv, CancelsOK
  <2>2. \A t \in Posts : post[t].step = "write" =>
           post[t].job \in flagged /\ claimed' # post[t].job
    BY <1>2 DEF IInv, CancelsOK
  <2>3. ASSUME routed, NEW t \in Posts, post[t].step \notin {"idle", "submit", "cancel"}
        PROVE  checkout = t /\ checkout' = t /\ checkout # Worker
    BY <2>3 DEF IInv, CancelsOK
  <2>4. ASSUME routed, NEW t \in Posts, post[t].step \in {"flag", "write"}
        PROVE  status'[post[t].job] # "delivered"
    <3>1. status[post[t].job] # "delivered" /\ post[t].job \in Jobs
      BY <2>4, <1>2 DEF IInv, CancelsOK
    <3> QED BY <2>3, <2>4, <3>1
  <2> QED BY <2>1, <2>2, <2>3, <2>4 DEF CancelsOK
<1> QED BY <1>3, <1>4, <1>5

\* The worker's own step and job after Go.
LEMMA WorkerMoved ==
    ASSUME TypeOK, NEW step, Go(step)
    PROVE  worker'.step = step /\ worker'.job = worker.job
  BY DEF Go, TypeOK

LEMMA TakeStep == ASSUME IInv, Take PROVE WorkerOK' /\ QueueOK' /\ SubmitsOK' /\ CancelsOK'
<1> DEFINE k == Head(queue)
<1>1. /\ queue \in Seq(Jobs) /\ queue # <<>> /\ queue' = Tail(queue)
      /\ k = queue[1] /\ 1 \in DOMAIN queue /\ k \in Jobs
  BY DEF Take, IInv, TypeOK
<1>2. \A i \in DOMAIN queue' :
         i + 1 \in DOMAIN queue /\ i + 1 # 1 /\ queue'[i] = queue[i + 1]
  BY <1>1
<1>3. worker.step = "idle" /\ worker' = [step |-> "claim", job |-> k]
      /\ UNCHANGED <<status, flagged, claimed, process, post, lock, launched>>
  BY DEF Take, At
<1>4. Fresh(k) /\ \A i \in DOMAIN queue' : queue'[i] # k
  BY <1>1, <1>2 DEF IInv, QueueOK
<1> HIDE DEF k
<1> DEFINE Later(j) == /\ j \notin launched' /\ worker'.job # j
                        /\ status'[j] \notin {"none", "delivered"}
<1>5. \A j \in Jobs \ {k} : Fresh(j) => Later(j)
  BY <1>3 DEF Fresh
<1>6. WorkerOK'
  BY <1>3, <1>4 DEF WorkerOK, Fresh, Claiming, Inside, Running
<1>7. QueueOK'
  <2>1. \A i, l \in DOMAIN queue' : queue'[i] = queue'[l] => i = l
    <3> SUFFICES ASSUME NEW i \in DOMAIN queue', NEW l \in DOMAIN queue', queue'[i] = queue'[l]
                 PROVE  i = l
      OBVIOUS
    <3>1. i + 1 = l + 1
      BY <1>2 DEF IInv, QueueOK
    <3>2. i \in Nat /\ l \in Nat
      BY <1>1
    <3> QED BY <3>1, <3>2
  <2>2. \A i \in DOMAIN queue : queue[i] \in Jobs /\ (queue[i] # k => Later(queue[i]))
    BY <1>1, <1>5 DEF IInv, QueueOK
  <2>3. \A i \in DOMAIN queue' : Later(queue'[i])
    BY <1>2, <1>4, <2>2
  <2>4. \A j \in launched' : status'[j] # "none"
    BY <1>3 DEF IInv, QueueOK
  <2> QED BY <2>1, <2>3, <2>4 DEF QueueOK, Fresh
<1>8. SubmitsOK'
  <2>1. \A t \in Posts : post[t].step = "put" => post[t].job \in Jobs /\ post[t].job # k
    BY <1>1 DEF IInv, TypeOK, SubmitsOK
  <2>2. \A t \in Posts : post[t].step = "put" =>
           Later(post[t].job) /\ \A i \in DOMAIN queue' : queue'[i] # post[t].job
    BY <1>2, <1>5, <2>1 DEF IInv, SubmitsOK
  <2> QED BY <1>3, <2>2 DEF IInv, SubmitsOK, Fresh
<1>9. CancelsOK'
  BY <1>3 DEF IInv, CancelsOK, lock
<1> QED BY <1>6, <1>7, <1>8, <1>9

LEMMA WorkerSteady ==
    ASSUME IInv,
           \/ Claim \/ WorkerEnters \/ Begin \/ CheckFlag \/ Prepare \/ Launch \/ Reap
           \/ Unwind \/ Finish \/ WorkerLeaves \/ Fail \/ SettleJob \/ AgentActs
    PROVE  WorkerOK' /\ QueueOK' /\ SubmitsOK' /\ CancelsOK'
<1> DEFINE k == worker.job
           Others == \A j \in Jobs \ {k} : status'[j] = status[j]
           Same(step) == worker'.step = step /\ worker'.job = k
<1>0. worker.step # "idle" => k \in Jobs /\ status[k] # "none"
  BY DEF IInv, TypeOK, WorkerOK
<1>1. CASE Claim
  <2>1. /\ worker.step = "claim" /\ Others
        /\ UNCHANGED <<queue, flagged, process, post, lock, launched>>
        /\ \/ /\ k \in flagged /\ status'[k] = "cancelled" /\ Same("settle")
              /\ claimed' = claimed
           \/ /\ k \notin flagged /\ claimed' = k /\ Same("wait") /\ status' = status
    BY <1>0, <1>1, Recorded, WorkerMoved DEF Claim, Cancelled, At, IInv, Statuses
  <2>2. WorkerOK'
    BY <1>0, <2>1 DEF IInv, WorkerOK, Claiming, Inside, Early, Running, Terminal, lock
  <2> QED BY <1>0, <2>1, <2>2, OwnJobOnly DEF lock
<1>2. CASE WorkerEnters
  <2>1. /\ worker.step = "wait" /\ Same("begin") /\ checkout = Nobody /\ checkout' = Worker
        /\ UNCHANGED <<routed, status, runner, process, post, launched>>
    BY <1>2, WorkerMoved DEF WorkerEnters, At, IInv
  <2>2. WorkerOK'
    BY <2>1 DEF IInv, WorkerOK, Claiming, Inside, Early, Running, Terminal, runner
  <2> QED BY <1>0, <2>1, <2>2, OwnJobOnly DEF runner
<1>3. CASE Begin \/ CheckFlag \/ Prepare \/ Unwind \/ Finish
  <2>1. /\ UNCHANGED <<runner, process, post, lock, launched>>
        /\ worker.step \in Inside
        /\ \/ Same("leave") /\ Others /\ status'[k] \in Terminal
           \/ worker.step = "begin" /\ Same("check") /\ Others /\ status'[k] = "running"
           \/ worker.step = "check" /\ Same("prepare") /\ status' = status
           \/ worker.step = "prepare" /\ Same("launch") /\ status' = status
           \/ worker.step \in {"unwind", "finish"} /\ Same("raised") /\ status' = status
    BY <1>0, <1>3, Recorded, WorkerMoved
       DEF Begin, CheckFlag, Prepare, Unwind, Finish, At, IInv, Statuses, Inside, Claiming, Terminal
  <2>2. checkout = Worker /\ worker.step # "idle"
    BY <2>1 DEF IInv, WorkerOK, Inside, Claiming
  <2>3. WorkerOK'
    BY <1>0, <2>1, <2>2 DEF IInv, WorkerOK, Claiming, Inside, Early, Running, Terminal, runner, lock
  <2>4. Others /\ status'[k] # "none"
    BY <1>0, <2>1, <2>2 DEF Terminal
  <2> QED BY <1>0, <2>1, <2>2, <2>3, <2>4, OwnJobOnly DEF runner, lock
<1>4. CASE Launch
  <2>1. /\ worker.step = "launch" /\ UNCHANGED <<status, runner, signalled, post, lock>>
        /\ \/ Same("agent") /\ launched' = launched \cup {k}
           \/ Same("reap") /\ launched' = launched
           \/ Same("unwind") /\ launched' = launched
    BY <1>4, WorkerMoved DEF Launch, At, IInv
  <2>2. WorkerOK'
    BY <2>1 DEF IInv, WorkerOK, Claiming, Inside, Early, Running, Terminal, runner, lock
  <2> QED BY <1>0, <2>1, <2>2, OwnJobOnly DEF runner, lock
<1>5. CASE Reap \/ AgentActs
  <2>1. /\ UNCHANGED <<status, runner, post, lock, launched>>
        /\ worker.step \in {"reap", "agent"}
        /\ Same("unwind") \/ Same("finish") \/ Same("reap") \/ Same("raised")
    BY <1>5, WorkerMoved DEF Reap, AgentActs, AgentEnds, AgentGarbles, AgentTimesOut, AgentStops,
                             AgentGone, At, IInv
  <2>2. WorkerOK'
    BY <2>1 DEF IInv, WorkerOK, Claiming, Inside, Early, Running, Terminal, runner, lock
  <2> QED BY <1>0, <2>1, <2>2, OwnJobOnly DEF runner, lock
<1>6. CASE WorkerLeaves
  <2>1. /\ UNCHANGED <<routed, status, runner, process, post, launched>>
        /\ \/ worker.step = "leave" /\ Same("settle")
           \/ worker.step = "raised" /\ Same("fail")
    BY <1>6, WorkerMoved DEF WorkerLeaves, At, IInv
  <2>2. checkout = Worker
    BY <2>1 DEF IInv, WorkerOK, Inside, Claiming
  <2>3. WorkerOK'
    BY <2>1 DEF IInv, WorkerOK, Claiming, Inside, Early, Running, Terminal, runner
  <2> QED BY <1>0, <2>1, <2>2, <2>3, OwnJobOnly DEF runner
<1>7. CASE Fail
  <2>1. /\ worker.step = "fail" /\ Same("settle") /\ Others
        /\ UNCHANGED <<runner, process, post, lock, launched>>
        /\ status'[k] \in {"cancelled", "failed"}
    BY <1>0, <1>7, Recorded, WorkerMoved DEF Fail, At, IInv, Statuses
  <2>2. WorkerOK'
    BY <2>1 DEF IInv, WorkerOK, Claiming, Inside, Early, Running, Terminal, runner, lock
  <2> QED BY <1>0, <2>1, <2>2, OwnJobOnly DEF runner, lock
<1>8. CASE SettleJob
  <2>1. /\ worker.step = "settle" /\ worker' = [step |-> "idle", job |-> NoJob]
        /\ claimed' \in {claimed, NoJob}
        /\ UNCHANGED <<status, queue, flagged, process, post, lock, launched>>
    BY <1>8 DEF SettleJob, At
  <2>2. WorkerOK'
    BY <2>1 DEF WorkerOK, Claiming, Inside, Early, Running, Terminal
  <2> QED BY <1>0, <2>1, <2>2, OwnJobOnly DEF lock
<1> QED BY <1>1, <1>2, <1>3, <1>4, <1>5, <1>6, <1>7, <1>8

-------------------------------------------------------------------------------
(* The theorems.                                                           *)

LEMMA InitIInv == Init => IInv
<1> SUFFICES ASSUME Init PROVE IInv
  OBVIOUS
<1>1. WorkerOK
  BY DEF Init, WorkerOK, Claiming, Inside, Early, Running
<1>2. QueueOK /\ SubmitsOK /\ CancelsOK
  BY DEF Init, QueueOK, SubmitsOK, CancelsOK
<1> QED BY <1>1, <1>2, TypeInit DEF IInv

\* A restart empties everything but the records.
LEMMA RestartStep == ASSUME IInv, Restart PROVE IInv'
<1>1. /\ queue' = <<>> /\ flagged' = {} /\ claimed' = NoJob /\ agent' = NoJob /\ signalled' = FALSE
      /\ worker' = [step |-> "idle", job |-> NoJob]
      /\ post' = [t \in Posts |-> [step |-> "idle", job |-> NoJob]]
      /\ checkout' = Nobody /\ restarts' = restarts + 1 /\ restarts < MaxRestarts
      /\ lost' = lost \cup Unfinished
      /\ UNCHANGED <<routed, status, launched>>
  BY DEF Restart
<1>2. /\ worker' \in [step : WorkerSteps, job : Jobs \cup {NoJob}]
      /\ post' \in [Posts -> [step : PostSteps, job : Jobs \cup {NoJob}]]
      /\ queue' \in Seq(Jobs)
  BY <1>1 DEF WorkerSteps, PostSteps
<1>3. restarts' \in 0 .. MaxRestarts /\ lost' \in SUBSET Jobs
  BY <1>1 DEF IInv, TypeOK, Unfinished
<1>4. TypeOK'
  BY <1>1, <1>2, <1>3 DEF IInv, TypeOK
<1>5. WorkerOK'
  BY <1>1 DEF WorkerOK, Claiming, Inside, Early, Running
<1>6. QueueOK' /\ SubmitsOK' /\ CancelsOK'
  BY <1>1 DEF IInv, QueueOK, SubmitsOK, CancelsOK
<1> QED BY <1>4, <1>5, <1>6 DEF IInv

LEMMA NextIInv == IInv /\ [Next]_vars => IInv'
<1> SUFFICES ASSUME IInv, [Next]_vars PROVE IInv'
  OBVIOUS
<1>1. ASSUME NEW t \in Posts, NEW j \in Jobs, AskSubmit(t, j) \/ AskCancel(t, j)
      PROVE  IInv'
  BY <1>1, RequestTypes, SubmitSteps DEF IInv
<1>2. ASSUME NEW t \in Posts, Request(t) PROVE IInv'
  <2>1. PICK j \in Jobs : TRUE
    BY <1>2 DEF Request, Enter, SubmitRecord, SubmitPut, CancelRead, CancelFlag, CancelWrite,
                Leave, PostAt, IInv, TypeOK
  <2> QED BY <1>2, <2>1, RequestTypes, SubmitSteps, CancelSteps DEF IInv, Request
<1>3. CASE Work \/ AgentActs
  BY <1>3, WorkTypes, TakeStep, WorkerSteady DEF Work, IInv
<1>5. CASE Restart
  BY <1>5, RestartStep
<1>4. CASE UNCHANGED vars
  BY <1>4 DEF vars, runner, lock, process, IInv, TypeOK, WorkerOK, QueueOK, SubmitsOK, CancelsOK,
              Fresh
<1> QED BY <1>1, <1>2, <1>3, <1>4, <1>5 DEF Next, AgentActs

LEMMA AlwaysIInv == Spec => []IInv
  BY InitIInv, NextIInv, PTL DEF Spec

-------------------------------------------------------------------------------
(* Promises.                                                               *)

LEMMA StillKept ==
    ASSUME NEW j, Kept(j) \/ j \in lost, UNCHANGED <<queue, lost>>,
           worker'.job = worker.job \/ worker.job # j,
           \A t \in Posts : post[t].step = "put" => post'[t] = post[t]
    PROVE  Kept(j)' \/ j \in lost'
  BY DEF Kept, PostAt

LEMMA RequestKeeps ==
    ASSUME IInv, PromisesAreKept, NEW t \in Posts, Request(t)
    PROVE  PromisesAreKept'
<1> DEFINE k == post[t].job
<1>1. SUFFICES ASSUME NEW j \in Jobs, status'[j] \in {"queued", "running"}
               PROVE  Kept(j)' \/ j \in lost'
  BY DEF PromisesAreKept, Unfinished
<1>2. status[j] \in {"queued", "running"} => Kept(j) \/ j \in lost
  BY DEF PromisesAreKept, Unfinished
<1>3. CASE Enter(t) \/ CancelRead(t) \/ CancelFlag(t) \/ Leave(t)
  <2>1. UNCHANGED <<queue, lost, worker, status>> /\ post[t].step # "put"
    BY <1>3 DEF Enter, CancelRead, CancelFlag, Leave, PostAt, runner
  <2>2. \A u \in Posts \ {t} : post'[u] = post[u]
    BY <1>3, PostMoved DEF Enter, CancelRead, CancelFlag, Leave, PostGo, IInv, TypeOK
  <2> QED BY <1>1, <1>2, <2>1, <2>2, StillKept
<1>4. CASE SubmitRecord(t)
  <2>1. UNCHANGED <<queue, lost, worker>> /\ post[t].step = "record" /\ k \in Jobs
    BY <1>4 DEF SubmitRecord, PostAt, runner, IInv, TypeOK
  <2>2. /\ \A u \in Posts \ {t} : post'[u] = post[u]
        /\ post'[t].job = k
        /\ \/ Record(k, "queued") /\ post'[t].step = "put"
           \/ status' = status
    BY <1>4, PostMoved DEF SubmitRecord, IInv, PostSteps
  <2>3. CASE j = k /\ post'[t].step = "put"
    BY <2>2, <2>3 DEF Kept, PostAt
  <2>4. CASE status'[j] = status[j]
    BY <1>1, <1>2, <2>1, <2>2, <2>4, StillKept
  <2> QED BY <2>1, <2>2, <2>3, <2>4, Recorded DEF IInv, Statuses
<1>5. CASE SubmitPut(t)
  <2>1. UNCHANGED <<lost, worker, status>> /\ post[t].step = "put" /\ k \in Jobs
    BY <1>5 DEF SubmitPut, PostAt, IInv, TypeOK
  <2>2. \A u \in Posts \ {t} : post'[u] = post[u]
    BY <1>5 DEF SubmitPut, PostGo, IInv, TypeOK
  <2>3. queue \in Seq(Jobs) /\ queue' = Append(queue, k)
    BY <1>5 DEF SubmitPut, IInv, TypeOK
  <2> HIDE DEF k
  <2>4. /\ \A i \in DOMAIN queue : i \in DOMAIN queue' /\ queue'[i] = queue[i]
        /\ Len(queue) + 1 \in DOMAIN queue' /\ queue'[Len(queue) + 1] = k
    BY <2>1, <2>3
  <2>5. CASE j = k
    BY <2>4, <2>5 DEF Kept
  <2>6. CASE j # k
    <3>1. Kept(j) \/ j \in lost
      BY <1>1, <1>2, <2>1
    <3>2. \A u \in Posts : post[u].step = "put" /\ post[u].job = j => u # t
      BY <2>6 DEF k
    <3> QED BY <2>1, <2>2, <2>4, <3>1, <3>2 DEF Kept, PostAt
  <2> QED BY <2>5, <2>6
<1>6. CASE CancelWrite(t)
  <2>1. UNCHANGED <<queue, lost, worker>> /\ post[t].step # "put" /\ k \in Jobs
    BY <1>6 DEF CancelWrite, PostAt, runner, IInv, TypeOK
  <2>2. /\ \A u \in Posts \ {t} : post'[u] = post[u]
        /\ status'[k] = "cancelled" /\ \A i \in Jobs \ {k} : status'[i] = status[i]
    BY <1>6, <2>1, PostMoved, Recorded DEF CancelWrite, IInv, PostSteps, Statuses
  <2>3. status'[j] = status[j]
    BY <1>1, <2>2
  <2> QED BY <1>1, <1>2, <2>1, <2>2, <2>3, StillKept
<1> QED BY <1>3, <1>4, <1>5, <1>6 DEF Request

LEMMA WorkerKeeps ==
    ASSUME IInv, PromisesAreKept, Work \/ AgentActs
    PROVE  PromisesAreKept'
<1> DEFINE k == worker.job
<1>1. SUFFICES ASSUME NEW j \in Jobs, status'[j] \in {"queued", "running"}
               PROVE  Kept(j)' \/ j \in lost'
  BY DEF PromisesAreKept, Unfinished
<1>2. status[j] \in {"queued", "running"} => Kept(j) \/ j \in lost
  BY DEF PromisesAreKept, Unfinished
<1>3. CASE Take
  <2>1. /\ UNCHANGED <<lost, status, post>> /\ worker.job = NoJob /\ worker'.job = Head(queue)
        /\ queue # <<>> /\ queue' = Tail(queue) /\ queue \in Seq(Jobs)
    BY <1>3 DEF Take, At, IInv, WorkerOK, TypeOK
  <2>2. \A i \in DOMAIN queue :
           \/ queue[i] = worker'.job
           \/ i - 1 \in DOMAIN queue' /\ queue'[i - 1] = queue[i]
    <3> SUFFICES ASSUME NEW i \in DOMAIN queue, i # 1
                 PROVE  i - 1 \in DOMAIN queue' /\ queue'[i - 1] = queue[i]
      BY <2>1
    <3>1. i \in 2 .. Len(queue) /\ Len(queue) \in Nat
      BY <2>1
    <3> QED BY <2>1, <3>1
  <2>3. (\E i \in DOMAIN queue : queue[i] = j) \/ (\E t \in Posts : post[t].step = "put" /\ post[t].job = j)
        \/ j \in lost
    BY <1>1, <1>2, <2>1 DEF Kept, PostAt
  <2> QED BY <2>1, <2>2, <2>3 DEF Kept, PostAt
<1>4. CASE SettleJob
  <2>1. /\ UNCHANGED <<queue, lost, status, post>>
        /\ status[k] \in Terminal
    BY <1>4 DEF SettleJob, At, IInv, WorkerOK
  <2>2. k # j
    BY <1>1, <2>1 DEF Terminal
  <2> QED BY <1>1, <1>2, <2>1, <2>2, StillKept
<1>5. CASE (Work /\ ~Take /\ ~SettleJob) \/ AgentActs
  <2>1. UNCHANGED <<queue, lost, post>> /\ worker'.job = k
    BY <1>5, WorkerMoved DEF Work, Claim, WorkerEnters, Begin, CheckFlag, Prepare, Launch, Reap, Unwind,
       Finish, WorkerLeaves, Fail, AgentActs, AgentEnds, AgentGarbles, AgentTimesOut, AgentStops,
       AgentGone, IInv, runner
  <2>2. status' = status \/ \E s \in Statuses : Record(k, s)
    BY <1>5 DEF Work, Claim, WorkerEnters, Begin, CheckFlag, Prepare, Launch, Reap, Unwind,
       Finish, WorkerLeaves, Fail, AgentActs, AgentEnds, AgentGarbles, AgentTimesOut, AgentStops,
       AgentGone, Statuses
  <2>3. CASE j = k
    BY <2>1, <2>3 DEF Kept
  <2>4. CASE j # k
    <3>1. status'[j] = status[j]
      BY <2>2, <2>4 DEF Record, IInv, TypeOK
    <3> QED BY <1>1, <1>2, <2>1, <3>1, StillKept
  <2> QED BY <2>3, <2>4
<1> QED BY <1>3, <1>4, <1>5

LEMMA NextKeeps == IInv /\ PromisesAreKept /\ [Next]_vars => PromisesAreKept'
<1> SUFFICES ASSUME IInv, PromisesAreKept, [Next]_vars PROVE PromisesAreKept'
  OBVIOUS
<1>1. ASSUME NEW t \in Posts, NEW j \in Jobs, AskSubmit(t, j) \/ AskCancel(t, j)
      PROVE  PromisesAreKept'
  <2>1. UNCHANGED <<queue, lost, worker, status>> /\ post[t].step # "put"
    BY <1>1 DEF AskSubmit, AskCancel, PostAt, runner
  <2>2. \A u \in Posts \ {t} : post'[u] = post[u]
    BY <1>1 DEF AskSubmit, AskCancel, Ask, IInv, TypeOK
  <2> QED BY <2>1, <2>2, StillKept DEF PromisesAreKept, Unfinished
<1>2. CASE Restart
  BY <1>2 DEF Restart, PromisesAreKept, Unfinished
<1>3. CASE UNCHANGED vars
  BY <1>3 DEF vars, runner, PromisesAreKept, Unfinished, Kept, PostAt
<1> QED BY <1>1, <1>2, <1>3, RequestKeeps, WorkerKeeps DEF Next, AgentActs

\* "The job remains running until cleanup ends" (JobRunner._run_job): nobody
\* reads "cancelled" of a launched job while its agent lives or its changes are
\* there, whatever cancels arrive; and a record that promises work has somebody
\* who does it, or was lost by a restart.
THEOREM QueueSafety == Spec => []Safety
<1>2. Init => PromisesAreKept
  BY DEF Init, PromisesAreKept, Unfinished
<1>1. IInv => TypeOK /\ RunningUntilCleanedUp
  <2> SUFFICES ASSUME IInv, NEW j \in launched, status[j] = "cancelled", worker.job = j
               PROVE  worker.step \in {"leave", "settle"}
    BY DEF IInv, RunningUntilCleanedUp
  <2>1. worker.step \in WorkerSteps /\ j # NoJob
    BY DEF IInv, TypeOK
  <2>2. worker.step \notin {"idle"} \cup Early \cup Running
    BY <2>1 DEF IInv, WorkerOK
  <2> QED BY <2>1, <2>2 DEF WorkerSteps, Early, Running, Claiming
<1> QED BY <1>1, <1>2, AlwaysIInv, NextKeeps, PTL DEF Spec, Safety

\* What could write the record of a delivered job is not at work.
LEMMA DeliveredStays ==
    ASSUME IInv, [Next]_vars, NEW j \in Jobs, routed, status[j] = "delivered"
    PROVE  status'[j] = "delivered"
<1>1. ASSUME NEW s \in Statuses, Record(worker.job, s), worker.step \notin {"idle", "leave", "settle"},
             worker.step \notin {"claim", "wait", "begin"}
      PROVE  status'[j] = "delivered"
  <2>1. status[worker.job] = "running" /\ worker.job \in Jobs
    BY <1>1 DEF IInv, WorkerOK, TypeOK, WorkerSteps, Running, Claiming
  <2> QED BY <1>1, <2>1, Recorded DEF IInv
<1>2. ASSUME NEW s \in Statuses, Record(worker.job, s), worker.step \in {"claim", "wait", "begin"}
      PROVE  status'[j] = "delivered"
  <2>1. status[worker.job] # "delivered" /\ worker.job \in Jobs
    BY <1>2 DEF IInv, WorkerOK, TypeOK
  <2> QED BY <1>2, <2>1, Recorded DEF IInv
<1>3. CASE Work \/ AgentActs
  BY <1>1, <1>2, <1>3 DEF Work, Take, Claim, WorkerEnters, Begin, CheckFlag, Prepare, Launch, Reap,
       Unwind, Finish, WorkerLeaves, Fail, SettleJob, AgentActs, AgentEnds, AgentGarbles,
       AgentTimesOut, AgentStops, At, Statuses
<1>4. ASSUME NEW t \in Posts, Request(t) PROVE status'[j] = "delivered"
  <2>1. CASE SubmitRecord(t)
    <3>1. post[t].job \in Jobs /\ status[post[t].job] = "none"
      BY <2>1 DEF SubmitRecord, PostAt, IInv, TypeOK, SubmitsOK
    <3> QED BY <2>1, <3>1, Recorded DEF SubmitRecord, IInv, Statuses
  <2>2. CASE CancelWrite(t)
    <3>1. post[t].job \in Jobs /\ status[post[t].job] # "delivered"
      BY <2>2 DEF CancelWrite, PostAt, IInv, TypeOK, CancelsOK
    <3> QED BY <2>2, <3>1, Recorded DEF CancelWrite, IInv, Statuses
  <2> QED BY <1>4, <2>1, <2>2 DEF Request, Enter, SubmitPut, CancelRead, CancelFlag, Leave
<1>5. CASE UNCHANGED status
  BY <1>5
<1> QED BY <1>3, <1>4, <1>5 DEF Next, AgentActs, AskSubmit, AskCancel, Restart, vars

LEMMA LaunchIsWanted ==
    ASSUME [Next]_vars, NEW j, j \in launched' \ launched
    PROVE  j \notin flagged
<1>1. CASE Launch
  BY <1>1 DEF Launch, Cancelled
<1>2. Launch \/ launched' = launched
  BY DEF Next, AskSubmit, AskCancel, Request, Enter, SubmitRecord, SubmitPut, CancelRead,
         CancelFlag, CancelWrite, Leave, Work, Take, Claim, WorkerEnters, Begin, CheckFlag,
         Prepare, Reap, Unwind, Finish, WorkerLeaves, Fail, SettleJob, AgentEnds, AgentGarbles,
         AgentTimesOut, AgentStops, Restart, vars
<1> QED BY <1>1, <1>2

\* However late a cancel arrives (cancel reads the record first and writes it
\* last), a job delivered through the route stays delivered, and an agent never
\* starts for a job whose flag is set.
THEOREM LastWordStands == Spec => LastWord
<1>1. IInv /\ [Next]_vars =>
        [\A j \in Jobs : routed /\ status[j] = "delivered" => status'[j] = "delivered"]_vars
  BY DeliveredStays
<1>2. [Next]_vars =>
        [\A j \in Jobs : j \in launched' \ launched => j \notin flagged]_vars
  BY LaunchIsWanted
<1> QED BY <1>1, <1>2, AlwaysIInv, PTL
        DEF Spec, LastWord, DeliveredIsFinal, CancelledNeverLaunches

-------------------------------------------------------------------------------
(* JobCheckout: the checkout.                                              *)

\* What is committed is in what is staged, and that in the working tree.
Layered == \A p \in Paths : tip[head][p] \subseteq index[p] /\ index[p] \subseteq tree[p]

\* A file has its row in the baseline, or its directory had.
Known(p) ==
    \/ Row(p) \in job.baseline
    \/ ~Row(p).directory /\ [path |-> p, directory |-> TRUE] \in job.baseline

\* What was the owner's stays uncommitted and known until the job picks.  A job
\* that changed branches began without anything of the owner's.
OwnedStays ==
    /\ job.step \in {"branch", "agent", "anchor", "delta"} =>
          \A p \in job.owned : Uncommitted(p) /\ Known(p)
    /\ job.step \in {"begin", "branch", "agent", "anchor", "delta"} => job.picked = {}
    /\ job.step \notin {"over", "begin", "branch"} /\ job.mode # "continue_current" =>
          job.owned = {}

\* No file that was the owner's is picked, but by a row of its own that its
\* directory had at the baseline.
OwnedIsNotPicked ==
    \A r \in job.picked :
        r.path \in job.owned =>
            ~r.directory /\ [path |-> r.path, directory |-> TRUE] \in job.baseline

\* HandledNotStranded, with what keeps an aborted job from going back.
Held ==
    JobAt("over") /\ job.end \in {"failed", "cancelled"} /\ job.mode # "continue_current" =>
        head = Default \/ Default \notin exists \/ Dirty # {}

Rowset == [path : Paths, directory : BOOLEAN]
JobType ==
    [step : JobSteps, mode : {"fresh", "resume", "continue_current"},
     resume : Proposals \cup {NoBranch}, branch : Branches \cup {NoBranch},
     baseline : SUBSET Rowset, owned : SUBSET Paths, picked : SUBSET Rowset, end : Ends]

\* The repository alone.
RepoOK ==
    /\ head \in exists /\ exists \in SUBSET Branches
    /\ tip \in [Branches -> Trees]
    /\ index \in Trees /\ tree \in Trees
    /\ Layered

\* The histories.
PastOK ==
    /\ log \in [Branches -> SUBSET (1..commits)]
    /\ commits \in 0..MaxCommits /\ edits \in 0..MaxEdits /\ jobs \in 0..MaxJobs

\* The inductive invariant.
CheckoutInv ==
    RepoOK /\ PastOK /\ job \in JobType /\ OwnedStays /\ OwnedIsNotPicked /\ Held

\* From the baseline to the commit, what is staged of a file that was the owner's
\* is what he staged.
Unswept ==
    /\ ownersIndex \subseteq Paths
    /\ job.step \in {"branch", "agent", "anchor", "delta", "stage", "commit"} =>
          \A p \in job.owned :
              index[p] # tip[head][p] => p \in ownersIndex \/ LeftItsDirectory(p)

LEMMA CheckoutInvIsSafe ==
    CheckoutInv /\ Unswept => CheckoutSafety
<1> SUFFICES ASSUME CheckoutInv, Unswept PROVE CheckoutSafety
  OBVIOUS
<1>1. CheckoutTypeOK
  BY DEF CheckoutInv, Unswept, RepoOK, PastOK, JobType, Rowset, CheckoutTypeOK
<1>2. HandledNotStranded
  BY DEF CheckoutInv, Held, HandledNotStranded
<1> QED BY <1>1, <1>2 DEF CheckoutSafety

LEMMA DirtyIsTree ==
    ASSUME RepoOK, NEW p \in Paths
    PROVE  /\ p \in Dirty <=> tree[p] # tip[head][p]
           /\ tip[head] \in Trees /\ tip[head][p] \in Contents
           /\ index[p] \in Contents /\ tree[p] \in Contents
<1>1. tip[head] \in Trees
  BY DEF RepoOK
<1>2. tip[head][p] \subseteq index[p] /\ index[p] \subseteq tree[p]
  BY DEF RepoOK, Layered
<1> QED BY <1>1, <1>2 DEF Dirty, RepoOK, Trees

LEMMA RowsTyped ==
    Rows \subseteq Rowset
<1>1. \A p \in Paths : (p \in NewDirs /\ index[p] = {}) \in BOOLEAN
  OBVIOUS
<1>2. \A p \in Paths : Row(p) \in Rowset
  BY <1>1 DEF Row, Rowset
<1> QED BY <1>2 DEF Rows, Dirty

LEMMA SwitchKeeps ==
    ASSUME RepoOK, NEW b, CanSwitch(b), SwitchTo(b), tip' = tip,
           exists' \in SUBSET Branches, b \in exists'
    PROVE  /\ RepoOK'
           /\ \A p \in Dirty : tree'[p] = tree[p] /\ index'[p] = index[p]
                               /\ tip'[head'][p] = tip[head][p]
<1>1. b \in Branches /\ tip[b] \in Trees /\ head' = b
  BY DEF CanSwitch, SwitchTo, RepoOK
<1>2. index' \in Trees /\ tree' \in Trees
  BY <1>1 DEF SwitchTo, RepoOK, Trees
<1>3. \A p \in Dirty : tree'[p] = tree[p] /\ index'[p] = index[p]
                       /\ tip'[head'][p] = tip[head][p]
  BY <1>1 DEF SwitchTo, CanSwitch, Dirty
<1>4. \A p \in Paths \ Dirty : tree'[p] = tip[b][p] /\ index'[p] = tip[b][p]
  BY DEF SwitchTo
<1>5. Layered'
  BY <1>1, <1>3, <1>4 DEF RepoOK, Layered
<1> QED BY <1>1, <1>2, <1>3, <1>5 DEF RepoOK

LEMMA BranchOffKeeps ==
    ASSUME RepoOK, NEW b \in Branches, BranchOff(b)
    PROVE  /\ RepoOK' /\ tree' = tree /\ index' = index /\ tip'[head'] = tip[head]
<1>1. head' = b /\ exists' = exists \cup {b} /\ tip' = [tip EXCEPT ![b] = tip[head]]
      /\ tree' = tree /\ index' = index
  BY DEF BranchOff
<1>2. tip'[head'] = tip[head] /\ tip' \in [Branches -> Trees]
  BY <1>1 DEF RepoOK
<1>3. Layered'
  BY <1>1, <1>2 DEF RepoOK, Layered
<1> QED BY <1>1, <1>2, <1>3 DEF RepoOK

LEMMA CommitKeeps ==
    ASSUME RepoOK, NEW content \in Trees, CommitIndex(content),
           \A p \in Paths : content[p] \subseteq tree[p],
           UNCHANGED <<head, exists, tree>>
    PROVE  RepoOK' /\ tip'[head'] = content
<1>1. tip' = [tip EXCEPT ![head] = content] /\ index' = content
  BY DEF CommitIndex
<1>2. tip'[head'] = content /\ tip' \in [Branches -> Trees]
  BY <1>1 DEF RepoOK
<1>3. Layered'
  BY <1>1, <1>2 DEF Layered
<1> QED BY <1>1, <1>2, <1>3 DEF RepoOK

\* What keeps an owned file known: its edit stays uncommitted, and once it has
\* something staged it keeps something staged.
LEMMA OwnedKept ==
    ASSUME NEW p \in Paths, Uncommitted(p), Known(p),
           tree[p] \subseteq tree'[p], tip'[head'][p] = tip[head][p],
           index[p] # {} => index'[p] # {},
           job'.baseline = job.baseline
    PROVE  Uncommitted(p)' /\ Known(p)'
<1>1. Uncommitted(p)'
  BY DEF Uncommitted
<1>2. CASE p \in NewDirs /\ index[p] = {}
  <2>1. Row(p) = [path |-> p, directory |-> TRUE]
    BY <1>2 DEF Row
  <2>2. [path |-> p, directory |-> TRUE] \in job.baseline
    BY <2>1 DEF Known, Row
  <2>3. CASE index'[p] = {}
    BY <1>1, <2>1, <2>2, <2>3, <1>2 DEF Known, Row
  <2>4. CASE index'[p] # {}
    <3>1. ~Row(p)'.directory
      BY <2>4 DEF Row
    <3> QED BY <1>1, <3>1, <2>2 DEF Known
  <2> QED BY <2>3, <2>4
<1>3. CASE ~(p \in NewDirs /\ index[p] = {})
  <2>1. ~(p \in NewDirs /\ index'[p] = {})
    BY <1>3
  <2>2. Row(p) = [path |-> p, directory |-> FALSE] /\ Row(p)' = Row(p)
    BY <1>3, <2>1 DEF Row
  <2> QED BY <1>1, <2>2 DEF Known
<1> QED BY <1>1, <1>2, <1>3

\* A job with nothing of the owner's has nothing to keep.
LEMMA NothingOwned ==
    ASSUME RepoOK, Dirty = {}
    PROVE  \A p \in Paths : ~Uncommitted(p)
<1> SUFFICES ASSUME NEW p \in Paths, Uncommitted(p) PROVE FALSE
  OBVIOUS
<1>1. tree[p] # tip[head][p]
  BY DEF Uncommitted
<1> QED BY <1>1, DirtyIsTree

-------------------------------------------------------------------------------
(* The agent and the owner, who leave the job's record alone.              *)

\* A step that spares what is owned and uncommitted, while a job runs.
LEMMA SparedIsKept ==
    ASSUME CheckoutInv, UNCHANGED job,
           \A p \in Paths : Uncommitted(p) =>
              /\ tree[p] \subseteq tree'[p] /\ tip'[head'][p] = tip[head][p]
              /\ index[p] # {} => index'[p] # {}
    PROVE  OwnedStays' /\ OwnedIsNotPicked'
<1>1. job.owned \subseteq Paths
  BY DEF CheckoutInv, JobType
<1>2. ASSUME job.step \in {"branch", "agent", "anchor", "delta"}, NEW p \in job.owned
      PROVE  Uncommitted(p)' /\ Known(p)'
  <2>1. Uncommitted(p) /\ Known(p) /\ p \in Paths
    BY <1>1, <1>2 DEF CheckoutInv, OwnedStays
  <2> QED BY <2>1, OwnedKept
<1> QED BY <1>2 DEF CheckoutInv, OwnedStays, OwnedIsNotPicked

LEMMA AgentKeeps ==
    ASSUME CheckoutInv, JobAt("agent"), UNCHANGED job, RepoOK', PastOK',
           \A p \in Paths : Uncommitted(p) =>
              /\ tree[p] \subseteq tree'[p] /\ tip'[head'][p] = tip[head][p]
              /\ index[p] # {} => index'[p] # {}
    PROVE  CheckoutInv'
<1>1. OwnedStays' /\ OwnedIsNotPicked'
  BY SparedIsKept
<1>2. Held'
  BY DEF Held, JobAt
<1> QED BY <1>1, <1>2 DEF CheckoutInv

LEMMA UncommittedIsDirty ==
    \A p \in Paths : Uncommitted(p) => p \in Dirty
  BY DEF Uncommitted, Dirty

LEMMA AgentEditsKeeps ==
    ASSUME CheckoutInv, NEW q \in Paths, AgentEdits(q)
    PROVE  CheckoutInv'
<1>1. tree' = [tree EXCEPT ![q] = @ \cup {"agent"}]
      /\ UNCHANGED <<head, exists, tip, log, index, job, past>> /\ JobAt("agent")
  BY DEF AgentEdits
<1>2. tree' \in Trees /\ \A p \in Paths : tree[p] \subseteq tree'[p]
  BY <1>1 DEF CheckoutInv, RepoOK, Trees, Contents
<1>3. RepoOK' /\ PastOK'
  BY <1>1, <1>2 DEF CheckoutInv, RepoOK, PastOK, Layered, past
<1> QED BY <1>1, <1>2, <1>3, AgentKeeps

LEMMA AgentSwitchesKeeps ==
    ASSUME CheckoutInv, NEW b \in Wanders, AgentSwitches(b)
    PROVE  CheckoutInv'
<1>1. JobAt("agent") /\ CanSwitch(b) /\ SwitchTo(b)
      /\ UNCHANGED <<exists, tip, log, job, past>>
  BY DEF AgentSwitches
<1>2. RepoOK /\ b \in exists' /\ exists' \in SUBSET Branches
  BY <1>1 DEF CheckoutInv, RepoOK, CanSwitch
<1>3. RepoOK' /\ \A p \in Dirty : tree'[p] = tree[p] /\ index'[p] = index[p]
                                  /\ tip'[head'][p] = tip[head][p]
  BY <1>1, <1>2, SwitchKeeps
<1>4. PastOK'
  BY <1>1 DEF CheckoutInv, PastOK, past
<1> QED BY <1>1, <1>3, <1>4, UncommittedIsDirty, AgentKeeps

LEMMA BranchOffLog ==
    ASSUME RepoOK, PastOK, NEW b \in Branches, BranchOff(b), UNCHANGED past
    PROVE  PastOK'
<1>1. log' = [log EXCEPT ![b] = log[head]] /\ head \in Branches
  BY DEF BranchOff, RepoOK
<1> QED BY <1>1 DEF PastOK, past

LEMMA AgentBranchesOffKeeps ==
    ASSUME CheckoutInv, AgentBranchesOff
    PROVE  CheckoutInv'
<1>1. JobAt("agent") /\ Stray \in Branches /\ BranchOff(Stray)
      /\ UNCHANGED <<job, past>>
  BY DEF AgentBranchesOff, Branches, Proposals
<1>2. RepoOK' /\ tree' = tree /\ index' = index /\ tip'[head'] = tip[head]
  BY <1>1, BranchOffKeeps DEF CheckoutInv
<1>3. PastOK'
  BY <1>1, BranchOffLog DEF CheckoutInv
<1> QED BY <1>1, <1>2, <1>3, AgentKeeps

LEMMA CommitIndexLog ==
    ASSUME RepoOK, PastOK, NEW content, commits < MaxCommits, CommitIndex(content),
           UNCHANGED <<edits, jobs>>
    PROVE  PastOK'
<1>1. commits' = commits + 1 /\ log' = [log EXCEPT ![head] = @ \cup {commits'}]
  BY DEF CommitIndex
<1>2. commits' \in 0..MaxCommits /\ commits' \in 1..commits'
      /\ 1..commits \subseteq 1..commits'
  BY <1>1, CheckoutAssumption DEF PastOK, CheckoutAssumption
<1>3. log' \in [Branches -> SUBSET (1..commits')]
  <2>1. \A b \in Branches : log[b] \subseteq 1..commits'
    BY <1>2 DEF PastOK
  <2> QED BY <1>1, <1>2, <2>1 DEF PastOK
<1> QED BY <1>2, <1>3 DEF PastOK

\* The agent commits a file of its own: none that the owner has edited since.
LEMMA AgentCommitsKeeps ==
    ASSUME CheckoutInv, NEW q \in Paths, AgentCommits(q)
    PROVE  CheckoutInv'
<1> DEFINE content == [index EXCEPT ![q] = tree[q]]
<1>1. JobAt("agent") /\ commits < MaxCommits /\ index = tip[head]
      /\ tree[q] = tip[head][q] \cup {"agent"} /\ CommitIndex(content)
      /\ UNCHANGED <<head, exists, tree, job, edits, jobs>>
  BY DEF AgentCommits
<1>2. RepoOK /\ PastOK /\ index \in Trees /\ tree \in Trees /\ Layered
  BY DEF CheckoutInv, RepoOK
<1>3. content \in Trees /\ \A p \in Paths : content[p] \subseteq tree[p]
  BY <1>2 DEF Trees, Layered
<1>4. RepoOK' /\ tip'[head'] = content
  <2> HIDE DEF content
  <2> QED BY <1>1, <1>2, <1>3, CommitKeeps
<1>5. PastOK'
  <2> HIDE DEF content
  <2> QED BY <1>1, <1>2, CommitIndexLog
<1>6. index' = content
  BY <1>1 DEF CommitIndex
<1>7. ASSUME NEW p \in Paths, Uncommitted(p)
      PROVE  /\ tree[p] \subseteq tree'[p] /\ tip'[head'][p] = tip[head][p]
             /\ index[p] # {} => index'[p] # {}
  <2>1. p # q
    BY <1>1, <1>7 DEF Uncommitted
  <2>2. content[p] = index[p]
    BY <1>2, <2>1 DEF Trees
  <2> QED BY <1>1, <1>4, <1>6, <2>2
<1> QED BY <1>1, <1>4, <1>5, <1>7, AgentKeeps

\* The owner adds to the layers above what is committed.
LEMMA OwnerKeeps ==
    ASSUME CheckoutInv, UNCHANGED <<head, exists, tip, job>>, RepoOK', PastOK',
           \A p \in Paths : tree[p] \subseteq tree'[p],
           \A p \in Paths : index[p] # {} => index'[p] # {}
    PROVE  CheckoutInv'
<1>1. OwnedStays' /\ OwnedIsNotPicked'
  BY SparedIsKept
<1>2. ASSUME NEW p \in Dirty PROVE p \in Dirty'
  <2>1. p \in Paths /\ RepoOK
    BY DEF Dirty, CheckoutInv
  <2>2. tree[p] # tip[head][p] /\ tip[head][p] \subseteq tree[p]
    BY <2>1, DirtyIsTree DEF RepoOK, Layered
  <2>3. tree'[p] # tip'[head'][p]
    BY <2>1, <2>2
  <2> QED BY <2>1, <2>3 DEF Dirty
<1>3. Held'
  BY <1>2 DEF CheckoutInv, Held, JobAt
<1> QED BY <1>1, <1>3 DEF CheckoutInv

LEMMA OwnerEditsKeeps ==
    ASSUME CheckoutInv, NEW q \in Paths, OwnerEdits(q)
    PROVE  CheckoutInv'
<1>1. edits < MaxEdits /\ edits' = edits + 1
      /\ tree' = [tree EXCEPT ![q] = @ \cup {"owner"}]
      /\ UNCHANGED <<head, exists, tip, log, index, job, commits, jobs>>
  BY DEF OwnerEdits
<1>2. tree' \in Trees /\ \A p \in Paths : tree[p] \subseteq tree'[p]
  BY <1>1 DEF CheckoutInv, RepoOK, Trees, Contents
<1>3. RepoOK'
  BY <1>1, <1>2 DEF CheckoutInv, RepoOK, Layered
<1>4. PastOK'
  BY <1>1, CheckoutAssumption DEF CheckoutInv, PastOK, CheckoutAssumption
<1> QED BY <1>1, <1>2, <1>3, <1>4, OwnerKeeps

LEMMA OwnerStagesKeeps ==
    ASSUME CheckoutInv, NEW q \in Paths, OwnerStages(q)
    PROVE  CheckoutInv'
<1>1. index' = [index EXCEPT ![q] = tree[q]]
      /\ UNCHANGED <<head, exists, tip, log, tree, job, past>>
  BY DEF OwnerStages
<1>2. index' \in Trees /\ \A p \in Paths : index[p] \subseteq index'[p]
                         /\ index'[p] \subseteq tree[p]
  BY <1>1 DEF CheckoutInv, RepoOK, Layered, Trees
<1>3. RepoOK' /\ PastOK'
  BY <1>1, <1>2 DEF CheckoutInv, RepoOK, PastOK, Layered, past
<1> QED BY <1>1, <1>2, <1>3, OwnerKeeps

-------------------------------------------------------------------------------
(* The job's own steps.                                                    *)

LEMMA BeginJobKeeps ==
    ASSUME CheckoutInv, NEW b \in {NoBranch} \cup Proposals, BeginJob(b)
    PROVE  CheckoutInv'
<1>1. job' = [NoRun EXCEPT !.step = "begin", !.resume = b] /\ jobs < MaxJobs
      /\ jobs' = jobs + 1 /\ UNCHANGED <<repo, commits, edits>>
  BY DEF BeginJob
<1>2. job' \in JobType /\ job'.step = "begin" /\ job'.picked = {}
  BY <1>1 DEF NoRun, JobType, JobSteps, Ends, Rowset
<1>3. RepoOK'
  BY <1>1 DEF CheckoutInv, RepoOK, Layered, repo
<1>4. PastOK'
  BY <1>1, CheckoutAssumption DEF CheckoutInv, PastOK, CheckoutAssumption, repo
<1>5. OwnedStays' /\ OwnedIsNotPicked' /\ Held'
  BY <1>2 DEF OwnedStays, OwnedIsNotPicked, Held, JobAt
<1> QED BY <1>2, <1>3, <1>4, <1>5 DEF CheckoutInv

LEMMA TakeBaselineKeeps ==
    ASSUME CheckoutInv, TakeBaseline
    PROVE  CheckoutInv'
<1> DEFINE owned == {p \in Paths : Uncommitted(p)}
           mode == IF job.resume # NoBranch THEN "resume"
                   ELSE IF head \in Proposals THEN "continue_current" ELSE "fresh"
<1>1. job' = [job EXCEPT !.step = "branch", !.baseline = Rows, !.owned = owned,
                         !.mode = mode]
      /\ job.step = "begin" /\ UNCHANGED <<repo, past>>
  BY DEF TakeBaseline, JobAt
<1>2. job \in JobType /\ mode \in {"fresh", "resume", "continue_current"}
      /\ owned \in SUBSET Paths /\ Rows \in SUBSET Rowset
  BY RowsTyped DEF CheckoutInv
<1>3. job' \in JobType /\ job'.step = "branch" /\ job'.picked = job.picked
      /\ job'.baseline = Rows /\ job'.owned = owned
  <2> HIDE DEF owned, mode
  <2> QED BY <1>1, <1>2 DEF JobType, JobSteps
<1>4. RepoOK' /\ PastOK'
  BY <1>1 DEF CheckoutInv, RepoOK, PastOK, Layered, repo, past
<1>5. job'.picked = {}
  BY <1>1, <1>3 DEF CheckoutInv, OwnedStays
<1>6. ASSUME NEW p \in job'.owned PROVE Uncommitted(p)' /\ Known(p)'
  <2>1. p \in Paths /\ Uncommitted(p)
    BY <1>3
  <2>2. Row(p) \in Rows
    BY <2>1, UncommittedIsDirty DEF Rows
  <2>3. Row(p)' = Row(p) /\ Uncommitted(p)'
    BY <2>1, <1>1 DEF Row, Uncommitted, repo
  <2> QED BY <2>2, <2>3, <1>3 DEF Known
<1>7. OwnedStays'
  BY <1>3, <1>5, <1>6 DEF OwnedStays
<1>8. OwnedIsNotPicked' /\ Held'
  BY <1>3, <1>5 DEF OwnedIsNotPicked, Held, JobAt
<1> QED BY <1>3, <1>4, <1>7, <1>8 DEF CheckoutInv

\* A branch is changed only when nothing is dirty, and then nothing is owned.
LEMMA GetOnBranchKeeps ==
    ASSUME CheckoutInv, GetOnBranch
    PROVE  CheckoutInv'
<1>1. job \in JobType /\ job.step = "branch" /\ RepoOK /\ PastOK /\ head \in Branches
      /\ UNCHANGED past
  BY DEF CheckoutInv, GetOnBranch, JobAt, RepoOK
<1>2. job.picked = {} /\ \A p \in job.owned : Uncommitted(p) /\ Known(p)
  BY <1>1 DEF CheckoutInv, OwnedStays
<1>3. Dirty = {} => job.owned = {}
  <2>1. job.owned \subseteq Paths
    BY <1>1 DEF JobType
  <2> QED BY <1>1, <1>2, <2>1, NothingOwned
<1>4. ASSUME NEW b \in Branches, OnBranch(b)
      PROVE  job' \in JobType /\ job'.step = "agent" /\ job'.picked = {}
             /\ job'.owned = job.owned /\ job'.baseline = job.baseline
             /\ job'.mode = job.mode
  BY <1>1, <1>2, <1>4 DEF OnBranch, JobType, JobSteps
<1>5. ASSUME NEW b \in Branches, OnBranch(b), RepoOK', PastOK', Dirty = {}
      PROVE  CheckoutInv'
  <2>1. OwnedStays' /\ OwnedIsNotPicked' /\ Held'
    BY <1>3, <1>4, <1>5 DEF OwnedStays, OwnedIsNotPicked, Held, JobAt
  <2> QED BY <1>4, <1>5, <2>1 DEF CheckoutInv
<1>6. ASSUME Refused, UNCHANGED repo
      PROVE  CheckoutInv'
  <2>1. job' \in JobType /\ job'.step = "over" /\ job'.end = "refused"
        /\ job'.picked = {}
    BY <1>1, <1>2, <1>6 DEF Refused, JobType, JobSteps, Ends
  <2>2. RepoOK' /\ PastOK'
    BY <1>1, <1>6 DEF RepoOK, PastOK, Layered, repo, past
  <2>3. OwnedStays' /\ OwnedIsNotPicked' /\ Held'
    BY <2>1 DEF OwnedStays, OwnedIsNotPicked, Held, JobAt
  <2> QED BY <2>1, <2>2, <2>3 DEF CheckoutInv
<1>7. CASE /\ job.mode = "resume" /\ job.resume \in exists /\ Dirty = {}
           /\ SwitchTo(job.resume) /\ OnBranch(job.resume)
           /\ UNCHANGED <<exists, tip, log>>
  <2>1. CanSwitch(job.resume) /\ job.resume \in Branches
    BY <1>1, <1>7 DEF CanSwitch, RepoOK
  <2>2. RepoOK'
    BY <1>1, <1>7, <2>1, SwitchKeeps DEF RepoOK
  <2>3. PastOK'
    BY <1>1, <1>7 DEF PastOK, past
  <2> QED BY <1>5, <1>7, <2>1, <2>2, <2>3
<1>8. CASE /\ job.mode = "continue_current" /\ OnBranch(head) /\ UNCHANGED repo
  <2>1. RepoOK' /\ PastOK'
    BY <1>1, <1>8 DEF RepoOK, PastOK, Layered, repo, past
  <2>2. job' \in JobType /\ job'.step = "agent" /\ job'.picked = {}
        /\ job'.owned = job.owned /\ job'.baseline = job.baseline
        /\ job'.mode = "continue_current"
    BY <1>1, <1>4, <1>8
  <2>3. \A p \in job.owned : Uncommitted(p)' /\ Known(p)'
    BY <1>2, <1>8, <2>2 DEF Uncommitted, Known, Row, repo
  <2>4. OwnedStays' /\ OwnedIsNotPicked' /\ Held'
    BY <2>2, <2>3 DEF OwnedStays, OwnedIsNotPicked, Held, JobAt
  <2> QED BY <2>1, <2>2, <2>4 DEF CheckoutInv
<1>9. CASE /\ job.mode = "fresh" /\ Dirty = {} /\ BranchOff(Theme) /\ OnBranch(Theme)
  <2>1. Theme \in Branches
    BY DEF Branches, Proposals
  <2>2. RepoOK' /\ PastOK'
    BY <1>1, <1>9, <2>1, BranchOffKeeps, BranchOffLog
  <2> QED BY <1>5, <1>9, <2>1, <2>2
<1> QED BY <1>6, <1>7, <1>8, <1>9 DEF GetOnBranch

\* A step that moves the job on and leaves the repository and what is owned.
LEMMA AgentExitsKeeps ==
    ASSUME CheckoutInv, AgentExits
    PROVE  CheckoutInv'
<1>1. job \in JobType /\ job.step = "agent" /\ UNCHANGED <<repo, past>>
  BY DEF CheckoutInv, AgentExits, JobAt
<1>2. RepoOK' /\ PastOK'
  BY <1>1 DEF CheckoutInv, RepoOK, PastOK, Layered, repo, past
<1>3. job' \in JobType /\ job'.step \in {"anchor", "unwind", "raised"}
      /\ job'.picked = job.picked /\ job'.owned = job.owned
      /\ job'.baseline = job.baseline /\ job'.mode = job.mode
  BY <1>1, ZenonT(60) DEF AgentExits, JobGo, Unwinds, JobType, JobSteps, Ends
<1>4. \A p \in job.owned : Uncommitted(p)' /\ Known(p)'
  BY <1>1, <1>3 DEF CheckoutInv, OwnedStays, Uncommitted, Known, Row, repo
<1>5. job.picked = {} /\ (job.mode # "continue_current" => job.owned = {})
  BY <1>1 DEF CheckoutInv, OwnedStays
<1>6. OwnedStays' /\ OwnedIsNotPicked' /\ Held'
  BY <1>3, <1>4, <1>5 DEF OwnedStays, OwnedIsNotPicked, Held, JobAt
<1> QED BY <1>2, <1>3, <1>6 DEF CheckoutInv

LEMMA ReanchorKeeps ==
    ASSUME CheckoutInv, Reanchor
    PROVE  CheckoutInv'
<1>1. job \in JobType /\ job.step = "anchor" /\ RepoOK /\ PastOK /\ UNCHANGED past
      /\ head \in Branches
  BY DEF CheckoutInv, Reanchor, JobAt, RepoOK
<1>2. job.picked = {} /\ (job.mode # "continue_current" => job.owned = {})
      /\ \A p \in job.owned : Uncommitted(p) /\ Known(p)
  BY <1>1 DEF CheckoutInv, OwnedStays
<1>3. job' \in JobType /\ job'.step = "delta"
      /\ job'.picked = {} /\ job'.owned = job.owned
      /\ job'.baseline = job.baseline /\ job'.mode = job.mode
  BY <1>1, <1>2, ZenonT(60) DEF Reanchor, JobGo, JobType, JobSteps, Ends
<1>4. /\ RepoOK' /\ UNCHANGED <<log, past>>
      /\ \A p \in Dirty : tree'[p] = tree[p] /\ index'[p] = index[p]
                          /\ tip'[head'][p] = tip[head][p]
  <2>1. CASE UNCHANGED repo
    BY <1>1, <2>1 DEF RepoOK, Layered, repo
  <2>2. CASE /\ head # job.branch /\ CanSwitch(job.branch) /\ SwitchTo(job.branch)
             /\ exists' = exists \ {head} /\ UNCHANGED <<tip, log>>
    <3>1. job.branch \in exists' /\ exists' \in SUBSET Branches
      BY <2>2, <1>1 DEF CanSwitch, RepoOK
    <3> QED BY <1>1, <2>2, <3>1, SwitchKeeps
  <2>3. CASE UNCHANGED <<head, tree, index, exists, tip, log>>
    BY <1>1, <2>3 DEF RepoOK, Layered
  <2> QED BY <1>1, <2>1, <2>2, <2>3 DEF Reanchor
<1>5. PastOK'
  BY <1>1, <1>4 DEF PastOK, past
<1>6. ASSUME NEW p \in job'.owned PROVE Uncommitted(p)' /\ Known(p)'
  <2>1. p \in Paths /\ Uncommitted(p) /\ Known(p)
    BY <1>1, <1>2, <1>3 DEF JobType
  <2> QED BY <1>3, <1>4, <2>1, UncommittedIsDirty, OwnedKept
<1>7. OwnedStays' /\ OwnedIsNotPicked' /\ Held'
  BY <1>2, <1>3, <1>6 DEF OwnedStays, OwnedIsNotPicked, Held, JobAt
<1> QED BY <1>3, <1>4, <1>5, <1>7 DEF CheckoutInv

\* What is known is not new, but for a file that has left its directory's row.
LEMMA PickDeltaKeeps ==
    ASSUME CheckoutInv, PickDelta
    PROVE  CheckoutInv'
<1>1. job \in JobType /\ job.step = "delta" /\ UNCHANGED <<repo, past>>
  BY DEF CheckoutInv, PickDelta, JobAt
<1>2. RepoOK' /\ PastOK'
  BY <1>1 DEF CheckoutInv, RepoOK, PastOK, Layered, repo, past
<1>3. job.picked = {} /\ (job.mode # "continue_current" => job.owned = {})
      /\ \A p \in job.owned : Known(p)
  BY <1>1 DEF CheckoutInv, OwnedStays
<1>4. Delta(Rows) \in SUBSET Rowset
  BY RowsTyped DEF Delta
<1>5. job' \in JobType /\ job'.step \in {"unwind", "stage"}
      /\ job'.picked \subseteq Delta(Rows) /\ job'.owned = job.owned
      /\ job'.baseline = job.baseline /\ job'.mode = job.mode
  <2> DEFINE new == Delta(Rows)
  <2>1. \/ job' = [job EXCEPT !.step = "unwind", !.end = "failed"]
        \/ job' = [job EXCEPT !.step = "stage", !.picked = new]
    BY DEF PickDelta, Unwinds
  <2>2. new \in SUBSET Rowset
    BY <1>4
  <2> HIDE DEF new
  <2>3. job' \in JobType /\ job'.step \in {"unwind", "stage"}
        /\ job'.picked \in {{}, new} /\ job'.owned = job.owned
        /\ job'.baseline = job.baseline /\ job'.mode = job.mode
    BY <1>1, <1>3, <2>1, <2>2, ZenonT(60) DEF JobType, JobSteps, Ends
  <2> QED BY <2>3 DEF new
<1>6. ASSUME NEW r \in Delta(Rows), r.path \in job.owned
      PROVE  ~r.directory /\ [path |-> r.path, directory |-> TRUE] \in job.baseline
  <2>1. PICK p \in Dirty : r = Row(p)
    BY DEF Delta, Rows
  <2>2. r.path = p /\ r \notin job.baseline
    BY <2>1 DEF Row, Delta
  <2> QED BY <1>3, <1>6, <2>1, <2>2 DEF Known
<1>7. OwnedStays' /\ OwnedIsNotPicked' /\ Held'
  BY <1>3, <1>5, <1>6 DEF OwnedStays, OwnedIsNotPicked, Held, JobAt
<1> QED BY <1>2, <1>5, <1>7 DEF CheckoutInv

\* After the pick the job's record of what it picked stands.
LEMMA AfterThePick ==
    ASSUME CheckoutInv, RepoOK', PastOK', job' \in JobType,
           job.step \notin {"over", "begin", "branch"},
           job'.step \notin {"begin", "branch", "agent", "anchor", "delta"},
           job'.picked = job.picked, job'.owned = job.owned,
           job'.baseline = job.baseline, job'.mode = job.mode,
           Held'
    PROVE  CheckoutInv'
<1>1. OwnedStays' /\ OwnedIsNotPicked'
  BY DEF CheckoutInv, OwnedStays, OwnedIsNotPicked
<1> QED BY <1>1 DEF CheckoutInv

LEMMA StageKeeps ==
    ASSUME CheckoutInv, Stage
    PROVE  CheckoutInv'
<1>1. job \in JobType /\ job.step = "stage" /\ RepoOK /\ PastOK
      /\ UNCHANGED <<head, exists, tip, log, tree, past>>
  BY DEF CheckoutInv, Stage, JobAt
<1>2. job' \in JobType /\ job'.step \in {"commit", "unwind"}
      /\ job'.picked = job.picked /\ job'.owned = job.owned
      /\ job'.baseline = job.baseline /\ job'.mode = job.mode
  BY <1>1, ZenonT(60) DEF Stage, JobGo, Unwinds, JobType, JobSteps, Ends
<1>3. index' \in Trees
      /\ \A p \in Paths : tip[head][p] \subseteq index'[p] /\ index'[p] \subseteq tree[p]
  BY <1>1 DEF Stage, RepoOK, Layered, Trees
<1>4. RepoOK' /\ PastOK'
  BY <1>1, <1>3 DEF RepoOK, PastOK, Layered, past
<1>5. Held'
  BY <1>2 DEF Held, JobAt
<1> QED BY <1>1, <1>2, <1>4, <1>5, AfterThePick

LEMMA CommitKeepsInv ==
    ASSUME CheckoutInv, Commit
    PROVE  CheckoutInv'
<1>1. job \in JobType /\ job.step = "commit" /\ RepoOK /\ PastOK
      /\ UNCHANGED <<head, exists, tree, edits, jobs>>
  BY DEF CheckoutInv, Commit, JobAt
<1>2. job' \in JobType /\ job'.step \in {"publish", "unwind"}
      /\ job'.picked = job.picked /\ job'.owned = job.owned
      /\ job'.baseline = job.baseline /\ job'.mode = job.mode
  BY <1>1, ZenonT(60) DEF Commit, JobGo, Unwinds, JobType, JobSteps, Ends
<1>3. RepoOK' /\ PastOK'
  <2>1. CASE commits < MaxCommits /\ CommitIndex(index)
    <3>1. index \in Trees /\ \A p \in Paths : index[p] \subseteq tree[p]
      BY <1>1 DEF RepoOK, Layered
    <3> QED BY <1>1, <2>1, <3>1, CommitKeeps, CommitIndexLog
  <2>2. CASE UNCHANGED <<commits, tip, log, index>>
    BY <1>1, <2>2 DEF RepoOK, PastOK, Layered
  <2> QED BY <2>1, <2>2 DEF Commit
<1>4. Held'
  BY <1>2 DEF Held, JobAt
<1> QED BY <1>1, <1>2, <1>3, <1>4, AfterThePick

LEMMA PublishKeeps ==
    ASSUME CheckoutInv, Publish
    PROVE  CheckoutInv'
<1>1. job \in JobType /\ job.step = "publish" /\ UNCHANGED <<repo, past>>
  BY DEF CheckoutInv, Publish, JobAt
<1>2. job' \in JobType /\ job'.step = "over" /\ job'.end \in {"delivered", "unpublished"}
      /\ job'.picked = job.picked /\ job'.owned = job.owned
      /\ job'.baseline = job.baseline /\ job'.mode = job.mode
  BY <1>1 DEF Publish, JobType, JobSteps, Ends
<1>3. RepoOK' /\ PastOK'
  BY <1>1 DEF CheckoutInv, RepoOK, PastOK, Layered, repo, past
<1>4. Held'
  BY <1>2 DEF Held, JobAt
<1> QED BY <1>1, <1>2, <1>3, <1>4, AfterThePick

LEMMA UnwindJobKeeps ==
    ASSUME CheckoutInv, UnwindJob
    PROVE  CheckoutInv'
<1>1. job \in JobType /\ job.step = "unwind" /\ RepoOK /\ PastOK
      /\ UNCHANGED <<head, exists, tip, log, past>>
  BY DEF CheckoutInv, UnwindJob, JobAt
<1>2. job' \in JobType /\ job'.step \in {"over", "abort", "raised"}
      /\ (job'.step = "over" => job'.mode = "continue_current")
      /\ job'.picked = job.picked /\ job'.owned = job.owned
      /\ job'.baseline = job.baseline /\ job'.mode = job.mode
  BY <1>1 DEF UnwindJob, JobGo, JobType, JobSteps
<1>3. RepoOK'
  <2>1. tip[head] \in Trees /\ \A p \in Paths : tip[head][p] \subseteq tree[p]
    BY <1>1 DEF RepoOK, Layered
  <2>2. CASE Unstage
    BY <1>1, <2>1, <2>2 DEF RepoOK, Layered, Unstage
  <2>3. ASSUME NEW rows,
               tree' = [p \in Paths |-> IF p \in PathsOf(rows) THEN tip[head][p]
                                        ELSE tree[p]],
               index' = [p \in Paths |-> IF p \in PathsOf(rows) THEN tip[head][p]
                                         ELSE index[p]]
        PROVE  RepoOK'
    <3>1. tree' \in Trees /\ index' \in Trees
      BY <1>1, <2>1, <2>3 DEF RepoOK, Trees
    <3>2. Layered'
      BY <1>1, <2>3 DEF RepoOK, Layered
    <3> QED BY <1>1, <3>1, <3>2 DEF RepoOK
  <2> QED BY <2>2, <2>3 DEF UnwindJob
<1>4. PastOK'
  BY <1>1 DEF PastOK, past
<1>5. Held'
  BY <1>2 DEF Held, JobAt
<1> QED BY <1>1, <1>2, <1>3, <1>4, <1>5, AfterThePick

\* A switch back that git refuses means dirt in the way, or no default branch.
LEMMA AbortKeeps ==
    ASSUME CheckoutInv, Abort
    PROVE  CheckoutInv'
<1>1. job \in JobType /\ job.step = "abort" /\ RepoOK /\ PastOK
      /\ UNCHANGED <<tip, log, past>>
  BY DEF CheckoutInv, Abort, JobAt
<1>2. job' \in JobType /\ job'.step = "over"
      /\ job'.picked = job.picked /\ job'.owned = job.owned
      /\ job'.baseline = job.baseline /\ job'.mode = job.mode
  BY <1>1 DEF Abort, JobGo, JobType, JobSteps
<1>3. RepoOK' /\ Held'
  <2>1. CASE CanSwitch(Default)
    <3>1. SwitchTo(Default) /\ Default \in exists' /\ exists' \in SUBSET Branches
          /\ head' = Default
      BY <1>1, <2>1 DEF Abort, CanSwitch, SwitchTo, RepoOK
    <3>2. RepoOK'
      BY <1>1, <2>1, <3>1, SwitchKeeps
    <3> QED BY <3>1, <3>2 DEF Held
  <2>2. CASE ~CanSwitch(Default)
    <3>1. UNCHANGED <<head, tree, index, exists>>
      BY <2>2 DEF Abort
    <3>2. Default \notin exists \/ Dirty # {}
      BY <2>2 DEF CanSwitch
    <3>3. Dirty' = Dirty
      BY <1>1, <3>1 DEF Dirty
    <3> QED BY <1>1, <3>1, <3>2, <3>3 DEF RepoOK, Layered, Held
  <2> QED BY <2>1, <2>2
<1>4. PastOK'
  BY <1>1 DEF PastOK, past
<1> QED BY <1>1, <1>2, <1>3, <1>4, AfterThePick

LEMMA RaiseKeeps ==
    ASSUME CheckoutInv, Raise
    PROVE  CheckoutInv'
<1>1. job \in JobType /\ job.step = "raised" /\ UNCHANGED <<repo, past>>
  BY DEF CheckoutInv, Raise, JobAt
<1>2. job' \in JobType /\ job'.step = "over" /\ job'.end = "raised"
      /\ job'.picked = job.picked /\ job'.owned = job.owned
      /\ job'.baseline = job.baseline /\ job'.mode = job.mode
  BY <1>1 DEF Raise, JobType, JobSteps, Ends
<1>3. RepoOK' /\ PastOK'
  BY <1>1 DEF CheckoutInv, RepoOK, PastOK, Layered, repo, past
<1>4. Held'
  BY <1>2 DEF Held, JobAt
<1> QED BY <1>1, <1>2, <1>3, <1>4, AfterThePick

-------------------------------------------------------------------------------
(* The theorems.                                                           *)

LEMMA CheckoutStep ==
    CheckoutInv /\ [CheckoutNext]_checkoutVars => CheckoutInv'
<1> SUFFICES ASSUME CheckoutInv, [CheckoutNext]_checkoutVars PROVE CheckoutInv'
  OBVIOUS
<1>1. ASSUME UNCHANGED checkoutVars PROVE CheckoutInv'
  BY <1>1 DEF checkoutVars, repo, past, CheckoutInv, RepoOK, PastOK, Layered, OwnedStays,
              OwnedIsNotPicked, Held, Uncommitted, Known, Row, Dirty, JobAt
<1>2. ASSUME NEW b \in {NoBranch} \cup Proposals, BeginJob(b) PROVE CheckoutInv'
  BY <1>2, BeginJobKeeps
<1>3. ASSUME NEW p \in Paths,
             AgentEdits(p) \/ AgentCommits(p) \/ OwnerEdits(p) \/ OwnerStages(p)
      PROVE  CheckoutInv'
  BY <1>3, AgentEditsKeeps, AgentCommitsKeeps, OwnerEditsKeeps, OwnerStagesKeeps
<1>4. ASSUME NEW b \in Wanders, AgentSwitches(b) PROVE CheckoutInv'
  BY <1>4, AgentSwitchesKeeps
<1>5. ASSUME TakeBaseline \/ GetOnBranch \/ AgentBranchesOff \/ AgentExits \/ Reanchor
             \/ PickDelta \/ Stage \/ Commit \/ Publish \/ UnwindJob \/ Abort \/ Raise
      PROVE  CheckoutInv'
  BY <1>5, TakeBaselineKeeps, GetOnBranchKeeps, AgentBranchesOffKeeps, AgentExitsKeeps,
     ReanchorKeeps, PickDeltaKeeps, StageKeeps, CommitKeepsInv, PublishKeeps,
     UnwindJobKeeps, AbortKeeps, RaiseKeeps
<1> QED BY <1>1, <1>2, <1>3, <1>4, <1>5 DEF CheckoutNext, JobNext

\* What is staged afterwards and not committed was so before.
IndexStays ==
    \A p \in Paths :
        index'[p] # tip'[head'][p] => index'[p] = index[p] /\ index[p] # tip[head][p]

LEMMA SwitchIndexStays ==
    ASSUME NEW b, CanSwitch(b), SwitchTo(b), tip' = tip
    PROVE  IndexStays
<1> SUFFICES ASSUME NEW p \in Paths, index'[p] # tip'[head'][p]
             PROVE  index'[p] = index[p] /\ index[p] # tip[head][p]
  BY DEF IndexStays
<1>1. head' = b /\ index'[p] = IF p \in Dirty THEN index[p] ELSE tip[b][p]
  BY DEF SwitchTo
<1>2. p \in Dirty
  BY <1>1
<1>3. tip[head][p] = tip[b][p]
  BY <1>2 DEF CanSwitch
<1> QED BY <1>1, <1>2, <1>3

LEMMA BranchOffIndexStays ==
    ASSUME RepoOK, NEW b \in Branches, BranchOff(b)
    PROVE  IndexStays
  BY BranchOffKeeps DEF IndexStays

LEMMA SameIndexStays ==
    ASSUME UNCHANGED <<head, tip, index>>
    PROVE  IndexStays
  BY DEF IndexStays

\* A step before the staging stages nothing of the owner's.
LEMMA StaysUnswept ==
    ASSUME CheckoutInv, Unswept, IndexStays, ownersIndex' = StillOwners,
           job.step \in {"branch", "agent", "anchor", "delta"},
           job'.owned = job.owned
    PROVE  Unswept'
<1>1. job.picked = {} /\ job.owned \subseteq Paths
  BY DEF CheckoutInv, OwnedStays, JobType
<1>2. ownersIndex' \subseteq Paths
  BY DEF Unswept, StillOwners
<1>3. ASSUME NEW p \in job.owned, index'[p] # tip'[head'][p] PROVE p \in ownersIndex'
  <2>1. index'[p] = index[p] /\ index[p] # tip[head][p]
    BY <1>1, <1>3 DEF IndexStays
  <2>2. p \in ownersIndex
    BY <1>1, <2>1 DEF Unswept, LeftItsDirectory
  <2> QED BY <1>3, <2>1, <2>2 DEF StillOwners
<1> QED BY <1>2, <1>3 DEF Unswept

LEMMA TakeBaselineUnswept ==
    ASSUME CheckoutInv, TakeBaseline
    PROVE  Unswept'
<1>1. ownersIndex' = {p \in Paths : index[p] # tip[head][p]} /\ UNCHANGED <<head, tip, index>>
  BY DEF TakeBaseline, repo
<1>2. job'.owned = {p \in Paths : Uncommitted(p)}
  BY DEF CheckoutInv, JobType, TakeBaseline
<1> QED BY <1>1, <1>2 DEF Unswept

LEMMA OwnerStagesUnswept ==
    ASSUME CheckoutInv, Unswept, NEW q \in Paths, OwnerStages(q)
    PROVE  Unswept'
<1>1. index' = [index EXCEPT ![q] = tree[q]] /\ ownersIndex' = ownersIndex \cup {q}
      /\ UNCHANGED <<head, tip, job>>
  BY DEF OwnerStages
<1>2. ASSUME NEW p \in job.owned, p # q PROVE index'[p] = index[p]
  BY <1>1, <1>2 DEF CheckoutInv, RepoOK, Trees
<1> QED BY <1>1, <1>2 DEF Unswept, LeftItsDirectory

\* What the runner stages is what it picked.
LEMMA StageUnswept ==
    ASSUME CheckoutInv, Unswept, Stage, ownersIndex' = StillOwners
    PROVE  Unswept'
<1>1. job \in JobType /\ job.step = "stage" /\ UNCHANGED <<head, tip>>
  BY DEF CheckoutInv, Stage, JobAt
<1>2. job'.owned = job.owned /\ job'.picked = job.picked /\ job'.baseline = job.baseline
  BY <1>1 DEF Stage, JobGo, Unwinds, JobType
<1>3. ownersIndex' \subseteq Paths
  BY DEF Unswept, StillOwners
<1>4. ASSUME NEW p \in job.owned, index'[p] # tip'[head'][p]
      PROVE  p \in ownersIndex' \/ LeftItsDirectory(p)'
  <2>1. p \in Paths
    BY <1>1 DEF JobType
  <2>2. CASE index'[p] = index[p]
    <3>1. p \in ownersIndex \/ LeftItsDirectory(p)
      BY <1>1, <1>4, <2>2 DEF Unswept
    <3> QED BY <1>2, <1>4, <2>2, <3>1 DEF StillOwners, LeftItsDirectory
  <2>3. CASE index'[p] # index[p]
    <3>1. p \in PathsOf(job.picked)
      BY <2>1, <2>3 DEF Stage
    <3>2. PICK r \in job.picked : r.path = p
      BY <3>1 DEF PathsOf
    <3>3. ~r.directory /\ [path |-> p, directory |-> TRUE] \in job.baseline
      BY <1>4, <3>2 DEF CheckoutInv, OwnedIsNotPicked
    <3>4. r \in Rowset
      BY <1>1, <3>2 DEF JobType
    <3>5. r = [path |-> p, directory |-> FALSE]
      BY <3>2, <3>3, <3>4 DEF Rowset
    <3> QED BY <1>2, <3>2, <3>3, <3>5 DEF LeftItsDirectory
  <2> QED BY <2>2, <2>3
<1> QED BY <1>2, <1>3, <1>4 DEF Unswept

\* After the commit, and before the baseline, nothing is said.
LEMMA ElsewhereUnswept ==
    ASSUME Unswept, ownersIndex' = StillOwners,
           job'.step \notin {"branch", "agent", "anchor", "delta", "stage", "commit"}
    PROVE  Unswept'
  BY DEF Unswept, StillOwners

LEMMA GetOnBranchUnswept ==
    ASSUME CheckoutInv, Unswept, GetOnBranch, ownersIndex' = StillOwners
    PROVE  Unswept'
<1>1. job \in JobType /\ job.step = "branch" /\ RepoOK /\ head \in Branches
  BY DEF CheckoutInv, GetOnBranch, JobAt, RepoOK
<1>2. ASSUME NEW b, OnBranch(b), IndexStays PROVE Unswept'
  <2>1. job'.owned = job.owned
    BY <1>1, <1>2 DEF OnBranch, JobType
  <2> QED BY <1>1, <1>2, <2>1, StaysUnswept
<1>3. ASSUME Refused PROVE Unswept'
  <2>1. job'.step = "over"
    BY <1>1, <1>3 DEF Refused, JobType
  <2> QED BY <2>1, ElsewhereUnswept
<1>4. CASE /\ job.resume \in exists /\ Dirty = {} /\ SwitchTo(job.resume)
           /\ OnBranch(job.resume) /\ UNCHANGED <<exists, tip, log>>
  <2>1. CanSwitch(job.resume)
    BY <1>4 DEF CanSwitch
  <2> QED BY <1>2, <1>4, <2>1, SwitchIndexStays
<1>5. CASE OnBranch(head) /\ UNCHANGED repo
  BY <1>2, <1>5, SameIndexStays DEF repo
<1>6. CASE BranchOff(Theme) /\ OnBranch(Theme)
  <2>1. Theme \in Branches
    BY DEF Branches, Proposals
  <2> QED BY <1>1, <1>2, <1>6, <2>1, BranchOffIndexStays
<1> QED BY <1>3, <1>4, <1>5, <1>6 DEF GetOnBranch

LEMMA AgentUnswept ==
    ASSUME CheckoutInv, Unswept, ownersIndex' = StillOwners,
           \/ \E p \in Paths : AgentEdits(p) \/ AgentCommits(p)
           \/ \E b \in Wanders : AgentSwitches(b)
           \/ AgentBranchesOff
    PROVE  Unswept'
<1>1. job.step = "agent" /\ job'.owned = job.owned
  BY DEF AgentEdits, AgentCommits, AgentSwitches, AgentBranchesOff, JobAt
<1>2. IndexStays
  <2>1. ASSUME NEW p \in Paths, AgentEdits(p) PROVE IndexStays
    BY <2>1, SameIndexStays DEF AgentEdits
  <2>2. ASSUME NEW p \in Paths, AgentCommits(p) PROVE IndexStays
    <3> DEFINE content == [index EXCEPT ![p] = tree[p]]
    <3>1. head' = head /\ tip' = [tip EXCEPT ![head] = content] /\ index' = content
      BY <2>2 DEF AgentCommits, CommitIndex
    <3>2. head \in DOMAIN tip
      BY DEF CheckoutInv, RepoOK
    <3> HIDE DEF content
    <3>3. tip'[head'] = index'
      BY <3>1, <3>2
    <3> QED BY <3>3 DEF IndexStays
  <2>3. ASSUME NEW b \in Wanders, AgentSwitches(b) PROVE IndexStays
    BY <2>3, SwitchIndexStays DEF AgentSwitches
  <2>4. CASE AgentBranchesOff
    BY <2>4, BranchOffIndexStays DEF AgentBranchesOff, CheckoutInv, Branches, Proposals
  <2> QED BY <2>1, <2>2, <2>3, <2>4
<1> QED BY <1>1, <1>2, StaysUnswept

\* Of the steps that move the job on, only these lead towards the commit.
LEMMA TowardsUnswept ==
    ASSUME CheckoutInv, Unswept, ownersIndex' = StillOwners,
           AgentExits \/ Reanchor \/ PickDelta
    PROVE  Unswept'
<1>1. job \in JobType
  BY DEF CheckoutInv
<1>2. job.step \in {"agent", "anchor", "delta"} /\ job'.owned = job.owned
  BY <1>1 DEF AgentExits, Reanchor, PickDelta, JobAt, JobGo, Unwinds, JobType
<1>3. IndexStays
  <2>1. CASE UNCHANGED <<head, tip, index>>
    BY <2>1, SameIndexStays
  <2>2. CASE CanSwitch(job.branch) /\ SwitchTo(job.branch) /\ UNCHANGED <<tip, log>>
    BY <2>2, SwitchIndexStays
  <2> QED BY <2>1, <2>2 DEF AgentExits, Reanchor, PickDelta, repo
<1> QED BY <1>2, <1>3, StaysUnswept

LEMMA EndUnswept ==
    ASSUME CheckoutInv, Unswept, ownersIndex' = StillOwners,
           \/ \E b \in {NoBranch} \cup Proposals : BeginJob(b)
           \/ Commit \/ Publish \/ UnwindJob \/ Abort \/ Raise
    PROVE  Unswept'
<1>1. job \in JobType
  BY DEF CheckoutInv
<1>2. ASSUME NEW b \in {NoBranch} \cup Proposals, BeginJob(b) PROVE job'.step = "begin"
  <2>1. job' = [NoRun EXCEPT !.step = "begin", !.resume = b]
    BY <1>2 DEF BeginJob
  <2> QED BY <2>1 DEF NoRun
<1>3. Publish \/ Abort \/ Raise => job'.step = "over"
  BY <1>1 DEF Publish, Abort, Raise, JobGo, JobType
<1>4. Commit => job'.step \in {"publish", "unwind"}
  BY <1>1 DEF Commit, JobGo, Unwinds, JobType
<1>5. UnwindJob => job'.step \in {"over", "abort", "raised"}
  BY <1>1 DEF UnwindJob, JobGo, JobType
<1> QED BY <1>2, <1>3, <1>4, <1>5, ElsewhereUnswept

LEMMA OwnerEditsUnswept ==
    ASSUME CheckoutInv, Unswept, ownersIndex' = StillOwners, NEW q \in Paths, OwnerEdits(q)
    PROVE  Unswept'
<1>1. UNCHANGED <<head, tip, index, job>>
  BY DEF OwnerEdits
<1>2. \A p \in job.owned : p \in ownersIndex /\ index[p] # tip[head][p] => p \in ownersIndex'
  BY <1>1 DEF StillOwners
<1> QED BY <1>1, <1>2 DEF Unswept, StillOwners, LeftItsDirectory

LEMMA UnsweptStep ==
    CheckoutInv /\ Unswept /\ [CheckoutNext]_checkoutVars => Unswept'
<1> SUFFICES ASSUME CheckoutInv, Unswept, [CheckoutNext]_checkoutVars PROVE Unswept'
  OBVIOUS
<1>1. CASE UNCHANGED checkoutVars
  BY <1>1 DEF checkoutVars, repo, Unswept, LeftItsDirectory
<1>2. CASE JobNext /\ ownersIndex' = StillOwners
  BY <1>2, EndUnswept, GetOnBranchUnswept, AgentUnswept, OwnerEditsUnswept, TowardsUnswept,
     StageUnswept DEF JobNext
<1> QED BY <1>1, <1>2, TakeBaselineUnswept, OwnerStagesUnswept DEF CheckoutNext

LEMMA CheckoutStart ==
    CheckoutInit => CheckoutInv
<1> SUFFICES ASSUME CheckoutInit PROVE CheckoutInv
  OBVIOUS
<1>1. RepoOK
  BY DEF CheckoutInit, RepoOK, Layered, Trees, Contents, Empty, Branches, Proposals
<1>2. PastOK
  BY CheckoutAssumption DEF CheckoutInit, PastOK, CheckoutAssumption
<1>3. job \in JobType /\ job.step = "over" /\ job.picked = {} /\ job.end = "none"
  BY DEF CheckoutInit, NoRun, JobType, JobSteps, Ends
<1>4. OwnedStays /\ OwnedIsNotPicked /\ Held
  BY <1>3 DEF OwnedStays, OwnedIsNotPicked, Held
<1> QED BY <1>1, <1>2, <1>3, <1>4 DEF CheckoutInv

LEMMA UnsweptStart ==
    CheckoutInit => Unswept
  BY DEF CheckoutInit, Unswept, NoRun

LEMMA CheckoutInvariant ==
    CheckoutSpec => [](CheckoutInv /\ Unswept)
<1>1. CheckoutInit => CheckoutInv /\ Unswept
  BY CheckoutStart, UnsweptStart
<1>2. CheckoutInv /\ Unswept /\ [CheckoutNext]_checkoutVars => (CheckoutInv /\ Unswept)'
  BY CheckoutStep, UnsweptStep
<1> QED BY <1>1, <1>2, PTL DEF CheckoutSpec

\* A failure that run_job foresees leaves the checkout on the default branch unless
\* dirt is in the way or that branch is gone: for any files, branches and bounds.
THEOREM CheckoutIsSafe ==
    CheckoutSpec => []CheckoutSafety
  BY CheckoutInvariant, CheckoutInvIsSafe, PTL

LEMMA StepSpares ==
    ASSUME CheckoutInv, [CheckoutNext]_checkoutVars, NEW p \in job.owned,
           ~JobAt("over"), Uncommitted(p)
    PROVE  "owner" \in tree'[p]
<1>1. p \in Paths /\ p \in Dirty /\ RepoOK /\ job \in JobType /\ "owner" \in tree[p]
  <2>1. p \in Paths
    BY DEF CheckoutInv, JobType
  <2> QED BY <2>1, UncommittedIsDirty DEF CheckoutInv, Uncommitted
<1>2. ASSUME UNCHANGED tree PROVE "owner" \in tree'[p]
  BY <1>1, <1>2
<1>3. ASSUME NEW b, SwitchTo(b) PROVE "owner" \in tree'[p]
  BY <1>1, <1>3 DEF SwitchTo
<1>4. ASSUME NEW q \in Paths, NEW hand, tree' = [tree EXCEPT ![q] = @ \cup {hand}]
      PROVE  "owner" \in tree'[p]
  BY <1>1, <1>4 DEF RepoOK, Trees
<1>5. CASE UNCHANGED checkoutVars
  BY <1>2, <1>5 DEF checkoutVars, repo
<1>6. CASE CheckoutNext
  <2>1. ASSUME NEW b \in {NoBranch} \cup Proposals, BeginJob(b) PROVE UNCHANGED tree
    BY <2>1 DEF BeginJob, repo
  <2>2. ASSUME TakeBaseline \/ AgentBranchesOff \/ AgentExits \/ PickDelta \/ Stage
               \/ Commit \/ Publish \/ Raise
        PROVE  UNCHANGED tree
    BY <2>2 DEF TakeBaseline, AgentBranchesOff, BranchOff, AgentExits, PickDelta, Stage,
                Commit, Publish, Raise, repo
  <2>3. CASE GetOnBranch
    BY <1>2, <1>3, <2>3 DEF GetOnBranch, BranchOff, repo
  <2>4. ASSUME NEW q \in Paths,
               AgentEdits(q) \/ AgentCommits(q) \/ OwnerEdits(q) \/ OwnerStages(q)
        PROVE  "owner" \in tree'[p]
    BY <1>2, <1>4, <2>4 DEF AgentEdits, AgentCommits, OwnerEdits, OwnerStages
  <2>5. ASSUME NEW b \in Wanders, AgentSwitches(b) PROVE "owner" \in tree'[p]
    BY <1>3, <2>5 DEF AgentSwitches
  <2>6. CASE Reanchor
    BY <1>2, <1>3, <2>6 DEF Reanchor, repo
  <2>7. CASE UnwindJob
    <3>1. job.mode = "continue_current"
      BY <2>7 DEF CheckoutInv, OwnedStays, UnwindJob, JobAt
    <3> QED BY <1>2, <2>7, <3>1 DEF UnwindJob, Unstage
  <2>8. CASE Abort
    BY <1>2, <1>3, <2>8 DEF Abort
  <2> QED BY <1>2, <1>6, <2>1, <2>2, <2>3, <2>4, <2>5, <2>6, <2>7, <2>8
          DEF CheckoutNext, JobNext
<1> QED BY <1>5, <1>6

\* A file with an uncommitted edit of the owner when a job took its baseline keeps
\* that edit through every step of the job, wherever the agent goes.
THEOREM OwnersEditsSurvive ==
    CheckoutSpec => BaselineSpared
<1>1. CheckoutInv /\ [CheckoutNext]_checkoutVars =>
          [\A p \in job.owned :
              (~JobAt("over") /\ Uncommitted(p)) => ("owner" \in tree'[p])]_checkoutVars
  BY StepSpares
<1> QED BY <1>1, CheckoutInvariant, PTL DEF CheckoutSpec, BaselineSpared

\* What the runner's commit takes of a file that was the owner's when the job took
\* its baseline is what was staged then, or by the owner since, but for a file that
\* has left the row of its directory: for any files and branches, wherever the agent
\* goes and whatever the owner edits and stages meanwhile.
THEOREM OwnersWorkIsNotSwept ==
    CheckoutSpec => OwnedIsNotSwept
<1>1. ASSUME CheckoutInv, Unswept, CheckoutNext, JobAt("commit"), NEW p \in job.owned,
             tip'[head][p] # tip[head][p]
      PROVE  p \in ownersIndex \/ LeftItsDirectory(p)
  <2>1. tip' # tip
    BY <1>1
  <2>2. job.step = "commit" /\ head \in Branches
    BY <1>1 DEF JobAt, CheckoutInv, RepoOK
  <2>3. Commit
    BY <1>1, <2>1, <2>2 DEF CheckoutNext, JobNext, JobAt, BeginJob, TakeBaseline, GetOnBranch,
       AgentEdits, AgentCommits, AgentSwitches, AgentBranchesOff, AgentExits, Reanchor,
       PickDelta, Stage, Publish, UnwindJob, Abort, Raise, OwnerEdits, OwnerStages
  <2>4. tip' = [tip EXCEPT ![head] = index]
    BY <2>1, <2>3 DEF Commit, CommitIndex
  <2>5. tip'[head] = index
    BY <1>1, <2>2, <2>4 DEF CheckoutInv, RepoOK
  <2> QED BY <1>1, <2>2, <2>5 DEF Unswept
<1>2. CheckoutInv /\ Unswept /\ [CheckoutNext]_checkoutVars =>
          [JobAt("commit") =>
              \A p \in job.owned :
                  tip'[head][p] # tip[head][p] =>
                      p \in ownersIndex \/ LeftItsDirectory(p)]_checkoutVars
  BY <1>1
<1> QED BY <1>2, CheckoutInvariant, PTL DEF CheckoutSpec, OwnedIsNotSwept

===============================================================================
