----------------------------- MODULE OperatorServer -----------------------------
(***************************************************************************)
(* The local operator, wiki_core/web/server.py: one thread per request.    *)
(* A POST claims its attempt key, works behind the mutation barrier,       *)
(* invalidates the cached snapshot, ends the mutation, closes its receipt  *)
(* and only then writes its answer.  A GET builds or reuses the snapshot   *)
(* under the snapshot lock.  An editor outside the process writes too.     *)
(*                                                                         *)
(* The wiki is the number of writes made to it.  Its revision, and any one *)
(* file, is read at an instant; a build reads twice, so that it can see    *)
(* one file before a write and another after it.  A mutation writes at     *)
(* most twice.                                                             *)
(***************************************************************************)
EXTENDS FiniteSets, Naturals

CONSTANTS
    Threads,      \* request handlers
    Nobody,       \* the holder of a free snapshot lock
    Keys,         \* attempt keys
    Inputs,       \* path and body of a POST
    MaxReceipts,  \* MAX_ATTEMPT_RECEIPTS
    Attempts,     \* SNAPSHOT_STABLE_BUILD_ATTEMPTS
    MaxWorld      \* bound on the writes to the wiki

ASSUME ServerAssumption ==
    /\ Nobody \notin Threads
    /\ IsFiniteSet(Threads)
    /\ MaxReceipts \in Nat \ {0}
    /\ Attempts \in Nat \ {0}
    /\ MaxWorld \in Nat

VARIABLES
    receipts,  \* _attempt_receipts, by key
    stray,     \* a second answer of one POST has closed the claim of another
    post,      \* the POST of each thread
    active,    \* _active_mutations
    world,     \* the wiki
    known,     \* the latest write that an answer has reported
    cache,     \* _snapshot_cache, at most one entry
    covered,   \* readers that began before the last observation finished
    read,      \* the snapshot request of each thread
    look       \* who holds _snapshot_lock, with its locals

store == <<receipts, stray>>
snapshot == <<cache, covered, read, look>>
vars == <<store, post, active, world, known, snapshot>>

Worlds == 0 .. MaxWorld
Receipt == [input : Inputs, done : BOOLEAN, level : Worlds]
Entry == [rev : Worlds, lo : Worlds, hi : Worlds]
\* The steps between begin_mutation and end_mutation.
Owning == {"study", "work", "half", "commit", "end", "release"}
PostSteps == Owning \cup {"claim", "begin", "finish", "write", "late"}
LookSteps == {"observe", "low", "high", "after"}

Resting == [step |-> "idle"]
Silent == [step |-> "no"]
Free == [by |-> Nobody]

Init ==
    /\ receipts = [k \in {} |-> Nobody]
    /\ stray = FALSE
    /\ post = [t \in Threads |-> Resting]
    /\ active = 0
    /\ world = 0
    /\ known = 0
    /\ cache = {}
    /\ covered = {}
    /\ read = [t \in Threads |-> Silent]
    /\ look = Free

At(t, step) == post[t].step = step
Go(t, step) == post' = [post EXCEPT ![t].step = step]
Later(a, b) == IF a >= b THEN a ELSE b

-------------------------------------------------------------------------------
(* Attempt receipts.                                                       *)

Claimed == DOMAIN receipts
Done == {k \in Claimed : receipts[k].done}
InFlight(k) == k \in Claimed \ Done
Only(keys) == [k \in keys |-> receipts[k]]

\* Mutant of Room: a receipt goes, whoever works on it.
RoomOfAny(keys) == IF Cardinality(keys) < MaxReceipts THEN {keys}
                                                      ELSE {keys \ {k} : k \in keys}

\* Under capacity pressure a complete receipt goes, if there is one.  It is the
\* oldest; their order is left out, for each may also be gone by its age.
Room(keys) ==
    IF Cardinality(keys) < MaxReceipts \/ keys \cap Done = {}
    THEN {keys}
    ELSE {keys \ {k} : k \in keys \cap Done}

\* Mutant of Close: a second answer rewrites the receipt.
CloseAgain(k, level) ==
    receipts' = IF k \in Claimed
                THEN [receipts EXCEPT ![k].done = TRUE, ![k].level = level]
                ELSE receipts

\* finish_attempt: only a receipt in flight is closed.
Close(k, level) ==
    receipts' = IF InFlight(k)
                THEN [receipts EXCEPT ![k].done = TRUE, ![k].level = level]
                ELSE receipts

AskPost(t, k, i) ==
    /\ At(t, "idle")
    /\ read[t] = Silent
    /\ post' = [post EXCEPT ![t] =
                   [step |-> "claim", key |-> k, input |-> i, level |-> 0]]
    /\ UNCHANGED <<store, active, world, known, snapshot>>

\* A conflict, an attempt in flight or a replay.
Recall(t, keys) ==
    LET k == post[t].key IN
    /\ k \in keys
    /\ receipts' = Only(keys)
    /\ known' = IF receipts[k].input = post[t].input /\ k \in Done
                THEN Later(known, receipts[k].level) ELSE known
    /\ post' = [post EXCEPT ![t] = Resting]

\* A new attempt, unless every slot is in flight.
Admit(t, keys) ==
    LET k == post[t].key IN
    /\ k \notin keys
    /\ \E room \in Room(keys) :
          IF Cardinality(room) < MaxReceipts
          THEN /\ receipts' = [q \in room \cup {k} |->
                                 IF q = k THEN [input |-> post[t].input,
                                                done |-> FALSE, level |-> 0]
                                 ELSE receipts[q]]
               /\ Go(t, "begin")
          ELSE /\ receipts' = Only(room)
               /\ post' = [post EXCEPT ![t] = Resting]
    /\ UNCHANGED known

\* Complete receipts may have passed their time to live.
Claim(t) ==
    /\ At(t, "claim")
    /\ \E gone \in SUBSET Done : Recall(t, Claimed \ gone) \/ Admit(t, Claimed \ gone)
    /\ UNCHANGED <<stray, active, world, snapshot>>

-------------------------------------------------------------------------------
(* The work of a POST, behind the barrier.                                 *)

\* Requests that write nothing, or are refused before, take no barrier.
Begin(t) ==
    /\ At(t, "begin")
    /\ \/ /\ active' = active + 1
          /\ Go(t, "study") \/ Go(t, "work")
       \/ UNCHANGED active /\ Go(t, "finish")
    /\ UNCHANGED <<store, world, known, snapshot>>

WriteWorld(t) ==
    /\ At(t, "work") \/ At(t, "half")
    /\ read[t] = Silent
    /\ world < MaxWorld
    /\ world' = world + 1
    /\ post' = [post EXCEPT ![t].level = world + 1,
                            ![t].step = IF @ = "work" THEN "half" ELSE "commit"]
    /\ UNCHANGED <<store, active, known, snapshot>>

\* The work ends, or raises, after any part of it; an answer that cannot be
\* encoded raises as well.  The safe answer takes the path of every answer.
EndWork(t) ==
    /\ At(t, "work") \/ At(t, "half")
    /\ read[t] = Silent
    /\ Go(t, "commit")
    /\ UNCHANGED <<store, active, world, known, snapshot>>

\* The authority refuses the effect, or a refused plan did nothing.
Refuse(t) ==
    /\ At(t, "work")
    /\ read[t] = Silent
    /\ Go(t, "release")
    /\ UNCHANGED <<store, active, world, known, snapshot>>

\* Mutant of Invalidate: the commit boundary is left to the end of do_POST.
InvalidateNothing(t) ==
    /\ At(t, "commit")
    /\ Go(t, "end")
    /\ UNCHANGED <<store, active, world, known, snapshot>>

\* invalidate_snapshot_cache waits for the reader that builds.
Invalidate(t) ==
    /\ At(t, "commit")
    /\ look = Free
    /\ cache' = {}
    /\ Go(t, "end")
    /\ UNCHANGED <<store, active, world, known, covered, read, look>>

\* end_mutation; after a refusal the cache has been left alone.
EndMutation(t) ==
    /\ At(t, "end") \/ At(t, "release")
    /\ active' = IF active > 0 THEN active - 1 ELSE 0
    /\ Go(t, "finish")
    /\ UNCHANGED <<store, world, known, snapshot>>

Finish(t) ==
    /\ At(t, "finish")
    /\ Close(post[t].key, post[t].level)
    /\ Go(t, "write")
    /\ UNCHANGED <<stray, active, world, known, snapshot>>

\* The answer is written, or the socket fails.
WriteAnswer(t) ==
    /\ At(t, "write")
    /\ \/ /\ known' = Later(known, post[t].level)
          /\ post' = [post EXCEPT ![t] = Resting]
       \/ Go(t, "late") /\ UNCHANGED known
    /\ UNCHANGED <<store, active, world, snapshot>>

\* do_POST answers the failed socket once more, under the same key.
AnswerAgain(t) ==
    LET k == post[t].key IN
    /\ At(t, "late")
    /\ Close(k, 0)
    /\ stray' = (stray \/ InFlight(k))
    /\ post' = [post EXCEPT ![t] = Resting]
    /\ UNCHANGED <<active, world, known, snapshot>>

-------------------------------------------------------------------------------
(* Snapshots: GETs, and POSTs that read before they write.                 *)

BeginRead(t) ==
    /\ read[t] = Silent
    /\ read' = [read EXCEPT ![t] = [step |-> "wait", floor |-> known]]
    /\ covered' = covered \ {t}
    /\ UNCHANGED <<store, active, world, known, cache, look>>

AskRead(t) == At(t, "idle") /\ BeginRead(t) /\ UNCHANGED post

\* A brief or an ingestion plan is composed from the snapshot.
ReadFirst(t) == At(t, "study") /\ BeginRead(t) /\ Go(t, "work")

\* A payload, or nothing: one of the snapshot errors.
Answer(t, entries) ==
    read' = [read EXCEPT ![t] =
                [step |-> "done", floor |-> read[t].floor, got |-> entries]]

Elsewhere(t) == active > (IF post[t].step \in Owning THEN 1 ELSE 0)

\* With the lock of the snapshot: a mutation or a recent observation answers.
Enter(t) ==
    /\ read[t].step = "wait"
    /\ look = Free
    /\ IF Elsewhere(t) \/ (cache # {} /\ t \in covered)
       THEN Answer(t, cache) /\ UNCHANGED look
       ELSE /\ look' = [by |-> t, step |-> "observe", before |-> 0,
                        lo |-> 0, hi |-> 0, tries |-> 0]
            /\ read' = [read EXCEPT ![t].step = "look"]
    /\ UNCHANGED <<store, post, active, world, known, cache, covered>>

Reader == look.by
Looking(step) == look # Free /\ look.step = step

\* The observation finishes now: every reader that waits has begun before.
Observed == covered' = Threads

Give(entries) == Answer(Reader, entries) /\ look' = Free

\* After the last attempt the prior snapshot, if any, is the answer.
TryAgain ==
    IF look.tries + 1 < Attempts
    THEN /\ look' = [look EXCEPT !.tries = @ + 1, !.step = "observe"]
         /\ UNCHANGED <<covered, read>>
    ELSE Give(cache) /\ Observed

\* The revision is observed.  It may equal that of the cached entry, show a
\* writer or miss a file, or hold an unsafe input or a changed configuration.
\* An entry that is too old is not reused.
Observe ==
    /\ Looking("observe")
    /\ \/ /\ look.tries = 0
          /\ \E e \in cache : e.rev = world
          /\ Give(cache)
          /\ Observed
       \/ /\ look' = [look EXCEPT !.step = "low", !.before = world]
          /\ UNCHANGED <<covered, read>>
       \/ TryAgain
       \/ Give({}) /\ UNCHANGED covered
    /\ UNCHANGED <<store, post, active, world, known, cache>>

BuildLow ==
    /\ Looking("low")
    /\ look' = [look EXCEPT !.lo = world, !.step = "high"]
    /\ UNCHANGED <<store, post, active, world, known, cache, covered, read>>

BuildHigh ==
    /\ Looking("high")
    /\ look' = [look EXCEPT !.hi = world, !.step = "after"]
    /\ UNCHANGED <<store, post, active, world, known, cache, covered, read>>

\* A build that raises is repeated if the source moved or a writer shows.
BuildFails ==
    /\ Looking("high")
    /\ \/ TryAgain
       \/ Give({}) /\ UNCHANGED covered
    /\ UNCHANGED <<store, post, active, world, known, cache>>

Built == [rev |-> world, lo |-> look.lo, hi |-> look.hi]

\* Mutant of Stable: the build is not compared with what it began on.
StableEnough == TRUE

Stable == world = look.before

\* The revision is observed again; it may show a writer or an unsafe input.
After ==
    /\ Looking("after")
    /\ \/ Stable /\ cache' = {Built} /\ Give({Built}) /\ Observed
       \/ TryAgain /\ UNCHANGED cache
       \/ Give({}) /\ UNCHANGED <<cache, covered>>
    /\ UNCHANGED <<store, post, active, world, known>>

EndRead(t) ==
    /\ read[t].step = "done"
    /\ read' = [read EXCEPT ![t] = Silent]
    /\ UNCHANGED <<store, post, active, world, known, cache, covered, look>>

\* The cache is also invalidated by a job and by a page that has moved on.
OthersInvalidate ==
    /\ look = Free
    /\ cache' = {}
    /\ UNCHANGED <<store, post, active, world, known, covered, read, look>>

\* An editor, a job or git outside of any POST.
EditorWrites ==
    /\ world < MaxWorld
    /\ world' = world + 1
    /\ UNCHANGED <<store, post, active, known, snapshot>>

-------------------------------------------------------------------------------
Handle(t) ==
    \/ Claim(t) \/ Begin(t) \/ EndWork(t) \/ Invalidate(t) \/ EndMutation(t)
    \/ Finish(t) \/ WriteAnswer(t) \/ AnswerAgain(t) \/ ReadFirst(t)

Look == Observe \/ BuildLow \/ BuildHigh \/ BuildFails \/ After

Next ==
    \/ \E t \in Threads, k \in Keys, i \in Inputs : AskPost(t, k, i)
    \/ \E t \in Threads :
          \/ Handle(t) \/ WriteWorld(t) \/ Refuse(t)
          \/ AskRead(t) \/ Enter(t) \/ EndRead(t)
    \/ Look
    \/ OthersInvalidate \/ EditorWrites

Spec == Init /\ [][Next]_vars

-------------------------------------------------------------------------------
(* Properties.                                                             *)

Owners == {t \in Threads : post[t].step \in Owning}
Running(t, k) == ~At(t, "idle") /\ ~At(t, "claim") /\ ~At(t, "write")
                 /\ ~At(t, "late") /\ post[t].key = k

TypeOK ==
    /\ Claimed \subseteq Keys /\ \A k \in Claimed : receipts[k] \in Receipt
    /\ Cardinality(Claimed) <= MaxReceipts
    /\ stray \in BOOLEAN
    /\ \A t \in Threads :
          \/ post[t] = Resting
          \/ post[t] \in [step : PostSteps, key : Keys, input : Inputs,
                          level : Worlds]
    /\ active \in 0 .. Cardinality(Threads)
    /\ world \in Worlds
    /\ known \in 0 .. world
    /\ cache \in SUBSET Entry
    /\ Cardinality(cache) <= 1
    /\ covered \in SUBSET Threads
    /\ \A t \in Threads :
          \/ read[t] = Silent
          \/ read[t] \in [step : {"wait", "look"}, floor : Worlds]
          \/ read[t] \in [step : {"done"}, floor : Worlds, got : SUBSET Entry]
    /\ \/ look = Free
       \/ look \in [by : Threads, step : LookSteps, before : Worlds,
                    lo : Worlds, hi : Worlds, tries : 0 .. (Attempts - 1)]

\* "retrying the same request replays the stored result instead of running the
\* mutation twice": while one thread works under a key no other thread does,
\* and the receipt of the key says so, whatever the number of receipts and
\* their age.  (An answer that closed the claim of another ends this promise.)
OneRunPerKey ==
    stray \/ \A t \in Threads, k \in Keys :
                Running(t, k) =>
                    /\ InFlight(k)
                    /\ \A u \in Threads \ {t} : ~Running(u, k)

\* "without rewriting a sent receipt": a replay answers what the first answer
\* said, even when writing that answer failed and do_POST answers again.
ReceiptIsFinal ==
    [][\A k \in Done \cap Done' : receipts'[k] = receipts[k]]_vars

\* The barrier counts the threads between begin_mutation and end_mutation:
\* too low shows work in progress, too high keeps every reader on old news.
BarrierIsExact == active = Cardinality(Owners)

\* A client that has been told of a write, by the answer or by a replay, sees
\* it in the next snapshot, through cache, coalescing and other mutations.
ReadYourWrites ==
    \A t \in Threads :
        (read[t].step = "done") => (\A e \in read[t].got : e.lo >= read[t].floor)

\* No snapshot mixes two states of the wiki, however long its build takes.
SnapshotIsWhole ==
    \A t \in Threads :
        (read[t].step = "done") =>
            (\A e \in read[t].got : (e.lo = e.rev) /\ (e.hi = e.rev))

\* "Close every claimed attempt": behind a key in flight there is a thread that
\* has yet to close it, so no client is told "already in progress" for ever.
AttemptsClose ==
    \A k \in Keys : InFlight(k) => \E t \in Threads : Running(t, k)

\* An attempt runs once and is closed, and the barrier counts those that write.
Safety == TypeOK /\ OneRunPerKey /\ AttemptsClose /\ BarrierIsExact
===============================================================================
