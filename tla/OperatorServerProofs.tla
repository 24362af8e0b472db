------------------------- MODULE OperatorServerProofs -------------------------
(***************************************************************************)
(* For any number of handlers, attempts, receipts and writes: a key runs   *)
(* once, the barrier is exact, a client reads what it was told of, and no  *)
(* snapshot mixes two states of the wiki.                                  *)
(*                                                                         *)
(* A key in flight is not forgotten, so its thread stays alone.  The cache *)
(* is emptied between the last write of a POST and everything that tells   *)
(* of it, so whatever is cached later is as new as anything told: the wiki *)
(* only moves forward, and a build that ends on the revision it began with *)
(* read one state in between.                                              *)
(***************************************************************************)
EXTENDS OperatorServer, FiniteSetTheorems, TLAPS

USE ServerAssumption

Post == [step : PostSteps, key : Keys, input : Inputs, level : Worlds]

\* Nothing was written yet; what was written may have been told.
Before == {"claim", "begin", "study", "work", "release"}
Told == {"end", "release", "finish", "write", "late"}
\* The thread has claimed its key and not closed it.
Claiming == Owning \cup {"begin", "finish"}

ReceiptsOK ==
    /\ Claimed \subseteq Keys /\ IsFiniteSet(Claimed) /\ Cardinality(Claimed) <= MaxReceipts
    /\ \A k \in Claimed : receipts[k] \in Receipt /\ receipts[k].level <= world

PostOK(t) ==
    \/ post[t] = Resting
    \/ /\ post[t] \in Post /\ post[t].level <= world
       /\ post[t].step \in Before => post[t].level = 0

PostsOK == DOMAIN post = Threads /\ \A t \in Threads : PostOK(t)

WorldOK == world \in Worlds /\ known \in 0 .. world /\ stray \in BOOLEAN

Whole(e) == e \in Entry /\ e.lo = e.rev /\ e.hi = e.rev

CacheOK ==
    /\ cache = {} \/ \E e \in Entry : cache = {e}
    /\ \A e \in cache :
          /\ Whole(e) /\ known <= e.lo
          /\ \A k \in Claimed : receipts[k].level <= e.lo
          /\ \A t \in Threads : post[t].step \in Told => post[t].level <= e.lo

ReadOK(r) ==
    \/ r = Silent
    \/ r \in [step : {"wait", "look"}, floor : 0 .. known]
    \/ /\ r \in [step : {"done"}, floor : Worlds, got : SUBSET Entry]
       /\ \A e \in r.got : Whole(e) /\ e.lo >= r.floor

ReadsOK ==
    /\ DOMAIN read = Threads /\ \A t \in Threads : ReadOK(read[t])
    /\ covered \in SUBSET Threads

\* What the reader that builds has seen so far lies between two instants, and
\* this reader waits for an answer.
LookOK ==
    \/ look = Free
    \/ /\ look \in [by : Threads, step : LookSteps, before : Worlds,
                    lo : Worlds, hi : Worlds, tries : 0 .. (Attempts - 1)]
       /\ read[look.by].step = "look"
       /\ look.step \in {"low", "high", "after"} => look.before <= world
       /\ look.step \in {"high", "after"} => look.before <= look.lo /\ look.lo <= world
       /\ look.step = "after" => look.lo <= look.hi /\ look.hi <= world

\* A thread works under a key of its own, and a key in flight has its thread.
Runs(t, k) == post[t].step \in Claiming /\ post[t].key = k
OneOwner ==
    stray \/ \A t \in Threads : post[t].step \in Claiming =>
                /\ InFlight(post[t].key)
                /\ \A u \in Threads \ {t} : ~Runs(u, post[t].key)
Owned == \A k \in Claimed \ Done : \E t \in Threads : Runs(t, k)

Served == ReceiptsOK /\ PostsOK /\ WorldOK /\ CacheOK /\ ReadsOK /\ LookOK
IInv == Served /\ OneOwner /\ Owned /\ BarrierIsExact

LEMMA RunningIsRuns ==
    ASSUME PostsOK, NEW t \in Threads, NEW k \in Keys
    PROVE  Running(t, k) = Runs(t, k)
  BY DEF PostsOK, PostOK, Post, PostSteps, Owning, Running, Runs, At, Claiming, Resting

LEMMA InitIInv == Init => IInv
<1> SUFFICES ASSUME Init PROVE IInv
  OBVIOUS
<1>1. Claimed = {}
  BY DEF Init, Claimed
<1>2. ReceiptsOK /\ Owned
  <2>1. IsFiniteSet({}) /\ Cardinality({}) = 0
    BY FS_EmptySet
  <2> QED BY <1>1, <2>1 DEF ReceiptsOK, Owned
<1>3. /\ DOMAIN post = Threads
      /\ \A t \in Threads : post[t] = Resting /\ post[t].step = "idle"
  BY DEF Init, Resting
<1>4. PostsOK /\ OneOwner
  BY <1>3 DEF PostsOK, PostOK, OneOwner, Claiming, Owning
<1>5. BarrierIsExact
  <2>1. Owners = {}
    BY <1>3 DEF Owners, Owning
  <2> QED BY <2>1, FS_EmptySet DEF BarrierIsExact, Init
<1>6. WorldOK
  <2>1. world = 0 /\ known = 0 /\ stray = FALSE
    BY DEF Init
  <2>2. world \in Worlds /\ known \in 0 .. world
    BY <2>1 DEF Worlds
  <2> QED BY <2>1, <2>2 DEF WorldOK
<1>8. CacheOK
  <2>1. cache = {}
    BY DEF Init
  <2> QED BY <2>1 DEF CacheOK
<1>7. ReadsOK /\ LookOK
  BY DEF Init, ReadsOK, ReadOK, LookOK
<1> QED BY <1>2, <1>4, <1>5, <1>6, <1>7, <1>8 DEF IInv, Served

-------------------------------------------------------------------------------
(* The barrier.                                                            *)

LEMMA OwnersFinite == IsFiniteSet(Owners) /\ Cardinality(Owners) <= Cardinality(Threads)
                      /\ Cardinality(Owners) \in Nat /\ Cardinality(Threads) \in Nat
<1>1. Owners \subseteq Threads
  BY DEF Owners
<1> QED BY <1>1, FS_Subset, FS_CardinalityType

LEMMA SameOwners ==
    ASSUME BarrierIsExact, active' = active,
           \A t \in Threads : (post'[t].step \in Owning) = (post[t].step \in Owning)
    PROVE  BarrierIsExact'
<1>1. Owners' = Owners
  BY DEF Owners
<1> QED BY <1>1 DEF BarrierIsExact

LEMMA OwnerComes ==
    ASSUME BarrierIsExact, NEW t \in Threads, active' = active + 1,
           post[t].step \notin Owning, post'[t].step \in Owning,
           \A u \in Threads \ {t} : post'[u] = post[u]
    PROVE  BarrierIsExact'
<1>1. Owners' = Owners \cup {t} /\ t \notin Owners
  BY DEF Owners
<1>2. Cardinality(Owners \cup {t}) = Cardinality(Owners) + 1
  BY <1>1, OwnersFinite, FS_AddElement
<1> QED BY <1>1, <1>2 DEF BarrierIsExact

LEMMA OwnerGoes ==
    ASSUME BarrierIsExact, NEW t \in Threads, active' = IF active > 0 THEN active - 1 ELSE 0,
           post[t].step \in Owning, post'[t].step \notin Owning,
           \A u \in Threads \ {t} : post'[u] = post[u]
    PROVE  BarrierIsExact'
<1>1. Owners' = Owners \ {t} /\ t \in Owners
  BY DEF Owners
<1>2. Cardinality(Owners \ {t}) = Cardinality(Owners) - 1
  BY <1>1, OwnersFinite, FS_RemoveElement
<1>3. Cardinality(Owners \ {t}) \in Nat
  BY <1>1, OwnersFinite, FS_Subset, FS_CardinalityType
<1> QED BY <1>1, <1>2, <1>3, OwnersFinite DEF BarrierIsExact

-------------------------------------------------------------------------------
(* Receipts.                                                               *)

\* Forgetting complete receipts keeps those in flight.
LEMMA Forgets ==
    ASSUME ReceiptsOK, NEW keys, keys \subseteq Claimed, Claimed \ Done \subseteq keys,
           receipts' = Only(keys), world' = world
    PROVE  /\ ReceiptsOK' /\ Claimed' = keys /\ (Claimed \ Done)' = Claimed \ Done
           /\ \A k \in Claimed' : receipts'[k] = receipts[k]
<1>1. Claimed' = keys /\ \A k \in Claimed' : receipts'[k] = receipts[k]
  BY DEF Only, Claimed
<1>2. (Claimed \ Done)' = Claimed \ Done
  BY <1>1 DEF Done
<1>3. IsFiniteSet(keys) /\ Cardinality(keys) <= Cardinality(Claimed)
      /\ Cardinality(keys) \in Nat /\ Cardinality(Claimed) \in Nat
  BY FS_Subset, FS_CardinalityType DEF ReceiptsOK
<1> QED BY <1>1, <1>2, <1>3 DEF ReceiptsOK

LEMMA Opens ==
    ASSUME ReceiptsOK, world \in Nat, NEW keys, keys \subseteq Claimed, Claimed \ Done \subseteq keys,
           Cardinality(keys) < MaxReceipts, NEW k \in Keys \ keys, NEW i \in Inputs,
           Claimed' = keys \cup {k}, world' = world,
           receipts'[k] = [input |-> i, done |-> FALSE, level |-> 0],
           \A q \in keys : receipts'[q] = receipts[q]
    PROVE  /\ ReceiptsOK' /\ (Claimed \ Done)' = (Claimed \ Done) \cup {k}
           /\ receipts'[k].level = 0
<1>2. receipts'[k] \in Receipt /\ receipts'[k].level = 0 /\ ~receipts'[k].done
  BY DEF Receipt, Worlds
<1>3. (Claimed \ Done)' = (Claimed \ Done) \cup {k}
  BY <1>2 DEF Done
<1>4. IsFiniteSet(keys) /\ Cardinality(keys) \in Nat
  BY FS_Subset, FS_CardinalityType DEF ReceiptsOK
<1>5. IsFiniteSet(keys \cup {k}) /\ Cardinality(keys \cup {k}) = Cardinality(keys) + 1
  BY <1>4, FS_AddElement
<1> QED BY <1>2, <1>3, <1>4, <1>5 DEF ReceiptsOK

LEMMA Closes ==
    ASSUME ReceiptsOK, world \in Worlds, NEW k, NEW level \in Worlds, level <= world,
           Close(k, level), world' = world
    PROVE  /\ ReceiptsOK' /\ Claimed' = Claimed /\ (Claimed \ Done)' = (Claimed \ Done) \ {k}
           /\ \A q \in Claimed : receipts'[q].level \in {receipts[q].level, level}
           /\ \A q \in Done : receipts'[q] = receipts[q]
<1>1. CASE ~InFlight(k)
  BY <1>1 DEF Close, InFlight, Claimed, Done, ReceiptsOK
<1>2. CASE InFlight(k)
  <2>1. /\ k \in Claimed /\ k \notin Done
        /\ receipts' = [receipts EXCEPT ![k] = [receipts[k] EXCEPT !.done = TRUE, !.level = level]]
    BY <1>2 DEF InFlight, Close
  <2>2. /\ Claimed' = Claimed
        /\ receipts'[k] = [receipts[k] EXCEPT !.done = TRUE, !.level = level]
        /\ \A q \in Claimed \ {k} : receipts'[q] = receipts[q]
    BY <2>1 DEF Claimed
  <2>3. receipts'[k] \in Receipt /\ receipts'[k].level = level
    <3>1. receipts[k] \in Receipt
      BY <2>1 DEF ReceiptsOK
    <3> QED BY <3>1, <2>2 DEF Receipt
  <2>5. receipts'[k].done
    <3>1. receipts[k] \in Receipt
      BY <2>1 DEF ReceiptsOK
    <3> QED BY <3>1, <2>2 DEF Receipt
  <2>4. (Claimed \ Done)' = (Claimed \ Done) \ {k}
    BY <2>2, <2>5 DEF Done
  <2> QED BY <2>1, <2>2, <2>3, <2>4, <2>5 DEF ReceiptsOK, Done
<1> QED BY <1>1, <1>2

-------------------------------------------------------------------------------
(* What a step leaves alone.                                               *)

LEMMA StoreStays ==
    ASSUME IInv, UNCHANGED <<store, post, active>>, world' \in Nat, world <= world'
    PROVE  ReceiptsOK' /\ PostsOK' /\ OneOwner' /\ Owned' /\ BarrierIsExact'
<1>1. world \in Nat
  BY DEF IInv, Served, WorldOK, Worlds
<1>2. Claimed' = Claimed /\ Done' = Done
  BY DEF Claimed, Done, store
<1>3. ReceiptsOK'
  BY <1>1, <1>2 DEF IInv, Served, ReceiptsOK, Receipt, Worlds, store
<1>4. PostsOK'
  BY <1>1 DEF IInv, Served, PostsOK, PostOK, Post, Worlds
<1>5. OneOwner' /\ Owned'
  BY <1>2 DEF IInv, OneOwner, Owned, InFlight, Runs, store
<1>6. BarrierIsExact'
  BY DEF IInv, BarrierIsExact, Owners
<1> QED BY <1>3, <1>4, <1>5, <1>6

\* What has been told is in the cache, if anything is.
TellsCached ==
    \A e \in cache : \A t \in Threads : post[t].step \in Told => post[t].level <= e.lo

LEMMA SnapshotStays ==
    ASSUME IInv, UNCHANGED snapshot, world' \in Worlds, world <= world',
           known' \in 0 .. world', known <= known', stray' \in BOOLEAN,
           \A e \in cache : known' <= e.lo,
           \A e \in cache : \A k \in Claimed' : receipts'[k].level <= e.lo,
           TellsCached'
    PROVE  WorldOK' /\ CacheOK' /\ ReadsOK' /\ LookOK'
<1>1. world \in Nat /\ known \in Nat
  BY DEF IInv, Served, WorldOK, Worlds
<1>2. WorldOK'
  BY DEF WorldOK
<1>3. CacheOK'
  <2>1. cache' = cache /\ CacheOK
    BY DEF IInv, Served, snapshot
  <2>2. \A e \in cache : Whole(e)'
    BY <2>1 DEF CacheOK, Whole
  <2> QED BY <2>1, <2>2 DEF CacheOK, TellsCached
<1>4. ReadsOK'
  <2>1. read' = read /\ covered' = covered /\ ReadsOK
    BY DEF IInv, Served, snapshot
  <2> QED BY <1>1, <2>1 DEF ReadsOK, ReadOK, Whole
<1>5. LookOK'
  <2>1. look' = look /\ read' = read /\ LookOK
    BY DEF IInv, Served, snapshot
  <2> QED BY <1>1, <2>1 DEF LookOK, Worlds
<1> QED BY <1>2, <1>3, <1>4, <1>5

LEMMA Facts ==
    ASSUME IInv
    PROVE  /\ world \in Worlds /\ world \in Nat /\ known \in 0 .. world /\ known \in Nat
           /\ stray \in BOOLEAN
           /\ \A e \in cache : e.lo \in Nat /\ known <= e.lo
           /\ \A e \in cache : \A k \in Claimed : receipts[k].level <= e.lo
           /\ TellsCached
           /\ \A k \in Claimed : receipts[k].level \in Nat /\ receipts[k].level <= world
<1>1. world \in Worlds /\ world \in Nat /\ known \in 0 .. world /\ known \in Nat
      /\ stray \in BOOLEAN
  BY DEF IInv, Served, WorldOK, Worlds
<1>2. \A e \in cache : e \in Entry /\ known <= e.lo
  BY DEF IInv, Served, CacheOK, Whole
<1>3. \A e \in cache : \A k \in Claimed : receipts[k].level <= e.lo
  BY DEF IInv, Served, CacheOK
<1>4. TellsCached
  BY DEF IInv, Served, CacheOK, TellsCached
<1>5. \A k \in Claimed : receipts[k].level \in Nat /\ receipts[k].level <= world
  BY DEF IInv, Served, ReceiptsOK, Receipt, Worlds
<1> QED BY <1>1, <1>2, <1>3, <1>4, <1>5 DEF Entry, Worlds

LEMMA Busy ==
    ASSUME IInv, NEW t \in Threads, ~At(t, "idle")
    PROVE  /\ post[t] \in Post /\ post[t].step \in PostSteps /\ post[t].key \in Keys
           /\ post[t].input \in Inputs
           /\ post[t].level \in Worlds /\ post[t].level \in Nat /\ post[t].level <= world
           /\ post[t].step \in Before => post[t].level = 0
           /\ DOMAIN post = Threads
<1>1. post[t] \in Post /\ post[t].level <= world /\ DOMAIN post = Threads
      /\ (post[t].step \in Before => post[t].level = 0)
  BY DEF IInv, Served, PostsOK, PostOK, Resting, At
<1> QED BY <1>1 DEF Post, Worlds

\* A thread goes on with the key it has claimed.
LEMMA Proceeds ==
    ASSUME IInv, NEW t \in Threads, NEW step \in Claiming, Go(t, step),
           UNCHANGED <<store, world>>, post[t].step \in Claiming,
           step \in Before => post[t].step \in Before,
           step \in Told => post[t].step \in Told \cup Before \/ cache' = {},
           cache' \in {cache, {}}
    PROVE  /\ ReceiptsOK' /\ PostsOK' /\ OneOwner' /\ Owned' /\ TellsCached'
           /\ Claimed' = Claimed
           /\ post'[t].step = step
           /\ \A u \in Threads \ {t} : post'[u] = post[u]
<1>1. /\ ~At(t, "idle") /\ step \in PostSteps
  BY DEF At, Claiming, Owning, PostSteps
<1>2. /\ post[t] \in Post /\ post[t].step \in PostSteps /\ post[t].level <= world
      /\ post[t].level \in Nat
      /\ (post[t].step \in Before => post[t].level = 0) /\ DOMAIN post = Threads
  BY <1>1, Busy
<1>3. /\ post' = [post EXCEPT ![t] = [post[t] EXCEPT !.step = step]]
      /\ post'[t] = [post[t] EXCEPT !.step = step]
      /\ DOMAIN post' = Threads
      /\ \A u \in Threads \ {t} : post'[u] = post[u]
  BY <1>2 DEF Go
<1>4. /\ post'[t] \in Post /\ post'[t].step = step /\ post'[t].key = post[t].key
      /\ post'[t].level = post[t].level
  BY <1>1, <1>2, <1>3 DEF Post
<1>5. Claimed' = Claimed /\ Done' = Done
  BY DEF Claimed, Done, store
<1>6. ReceiptsOK'
  BY <1>5 DEF IInv, Served, ReceiptsOK, store
<1>7. PostsOK'
  BY <1>2, <1>3, <1>4 DEF IInv, Served, PostsOK, PostOK
<1>8. \A u \in Threads : \A k : Runs(u, k)' = Runs(u, k)
  BY <1>3, <1>4 DEF Runs
<1>9. OneOwner' /\ Owned'
  BY <1>3, <1>4, <1>5, <1>8 DEF IInv, OneOwner, Owned, InFlight, store
<1>10. TellsCached'
  <2> SUFFICES ASSUME cache' = cache, NEW e \in cache PROVE
          \A u \in Threads : post'[u].step \in Told => post'[u].level <= e.lo
    BY DEF TellsCached
  <2>1. e.lo \in Nat /\ \A u \in Threads : post[u].step \in Told => post[u].level <= e.lo
    BY Facts DEF TellsCached
  <2> QED BY <1>2, <1>3, <1>4, <2>1
<1> QED BY <1>3, <1>4, <1>5, <1>6, <1>7, <1>9, <1>10

\* A thread that works under no key comes to rest.
LEMMA Rests ==
    ASSUME IInv, NEW t \in Threads, post' = [post EXCEPT ![t] = Resting],
           post[t].step \notin Claiming, UNCHANGED <<stray, world, active, cache>>,
           (Claimed \ Done)' = Claimed \ Done
    PROVE  PostsOK' /\ OneOwner' /\ Owned' /\ BarrierIsExact' /\ TellsCached'
<1>1. /\ DOMAIN post = Threads /\ DOMAIN post' = Threads /\ post'[t] = Resting
      /\ \A u \in Threads \ {t} : post'[u] = post[u]
  BY DEF IInv, Served, PostsOK
<1>2. PostsOK'
  BY <1>1 DEF IInv, Served, PostsOK, PostOK
<1>3. post'[t].step \notin Claiming \cup Told
  BY <1>1 DEF Resting, Claiming, Owning, Told
<1>4. \A u \in Threads : \A k : Runs(u, k)' = Runs(u, k)
  BY <1>1, <1>3 DEF Runs
<1>5. OneOwner' /\ Owned'
  BY <1>1, <1>3, <1>4 DEF IInv, OneOwner, Owned, InFlight
<1>6. BarrierIsExact'
  BY <1>1, <1>3, SameOwners DEF IInv, Claiming
<1>7. TellsCached'
  BY <1>1, <1>3, Facts DEF TellsCached
<1> QED BY <1>2, <1>5, <1>6, <1>7

-------------------------------------------------------------------------------
(* The steps of a POST.                                                    *)

LEMMA AskPostStep ==
    ASSUME IInv, NEW t \in Threads, NEW k \in Keys, NEW i \in Inputs, AskPost(t, k, i)
    PROVE  IInv'
<1> DEFINE new == [step |-> "claim", key |-> k, input |-> i, level |-> 0]
<1>1. /\ DOMAIN post = Threads /\ DOMAIN post' = Threads /\ post'[t] = new
      /\ \A u \in Threads \ {t} : post'[u] = post[u]
      /\ post[t].step = "idle" /\ UNCHANGED <<store, active, world, known, snapshot>>
  BY DEF IInv, Served, PostsOK, AskPost, At
<1>2. Claimed' = Claimed /\ Done' = Done
  BY <1>1 DEF Claimed, Done, store
<1>3. ReceiptsOK'
  BY <1>1, <1>2 DEF IInv, Served, ReceiptsOK, store
<1>4. PostOK(t)'
  <2>1. new \in Post
    BY DEF Post, PostSteps, Worlds
  <2> QED BY <1>1, <2>1, Facts DEF PostOK
<1>5. PostsOK'
  BY <1>1, <1>4 DEF IInv, Served, PostsOK, PostOK
<1>6. post'[t].step \notin Claiming \cup Told /\ post[t].step \notin Claiming
  BY <1>1 DEF Claiming, Owning, Told
<1>7. \A u \in Threads : \A q : Runs(u, q)' = Runs(u, q)
  BY <1>1, <1>6 DEF Runs
<1>8. OneOwner' /\ Owned'
  BY <1>1, <1>2, <1>6, <1>7 DEF IInv, OneOwner, Owned, InFlight, store
<1>9. BarrierIsExact'
  BY <1>1, <1>6, SameOwners DEF IInv, Claiming
<1>10. TellsCached'
  BY <1>1, <1>6, Facts DEF TellsCached, snapshot
<1>11. WorldOK' /\ CacheOK' /\ ReadsOK' /\ LookOK'
  BY <1>1, <1>2, <1>10, Facts, SnapshotStays DEF store
<1> QED BY <1>3, <1>5, <1>8, <1>9, <1>11 DEF IInv, Served

\* What the client is told by a replay was told before.
LEMMA RecallStep ==
    ASSUME IInv, NEW t \in Threads, NEW gone \in SUBSET Done, At(t, "claim"),
           Recall(t, Claimed \ gone), UNCHANGED <<stray, active, world, snapshot>>
    PROVE  IInv'
<1> DEFINE k == post[t].key
<1>1. /\ k \in Claimed /\ receipts' = Only(Claimed \ gone)
      /\ known' \in {known, Later(known, receipts[k].level)}
      /\ post' = [post EXCEPT ![t] = Resting]
  BY DEF Recall
<1>2. /\ ReceiptsOK' /\ Claimed' = Claimed \ gone /\ (Claimed \ Done)' = Claimed \ Done
      /\ \A q \in Claimed' : receipts'[q] = receipts[q]
  BY <1>1, Forgets DEF IInv, Served
<1>3. PostsOK' /\ OneOwner' /\ Owned' /\ BarrierIsExact' /\ TellsCached'
  BY <1>1, <1>2, Rests DEF At, Claiming, Owning, snapshot
<1>4. /\ known' \in 0 .. world /\ known <= known'
      /\ \A e \in cache : known' <= e.lo
  BY <1>1, Facts DEF Later
<1>5. \A e \in cache : \A q \in Claimed' : receipts'[q].level <= e.lo
  BY <1>2, Facts
<1>6. WorldOK' /\ CacheOK' /\ ReadsOK' /\ LookOK'
  BY <1>3, <1>4, <1>5, Facts, SnapshotStays
<1> QED BY <1>2, <1>3, <1>6 DEF IInv, Served

LEMMA RoomKeeps ==
    ASSUME NEW keys, NEW room \in Room(keys)
    PROVE  room \subseteq keys /\ keys \ Done \subseteq room
  BY DEF Room

\* A key that is not claimed is nobody's, and the thread becomes its owner.
LEMMA AdmitStep ==
    ASSUME IInv, NEW t \in Threads, NEW gone \in SUBSET Done, At(t, "claim"),
           Admit(t, Claimed \ gone), UNCHANGED <<stray, active, world, snapshot>>
    PROVE  IInv'
<1> DEFINE k == post[t].key
           keys == Claimed \ gone
<1>1. PICK room \in Room(keys) :
          IF Cardinality(room) < MaxReceipts
          THEN /\ receipts' = [q \in room \cup {k} |->
                                 IF q = k THEN [input |-> post[t].input,
                                                done |-> FALSE, level |-> 0]
                                 ELSE receipts[q]]
               /\ Go(t, "begin")
          ELSE /\ receipts' = Only(room)
               /\ post' = [post EXCEPT ![t] = Resting]
  BY DEF Admit
<1>2. k \notin keys /\ known' = known
  BY DEF Admit
<1>3. room \subseteq keys /\ keys \ Done \subseteq room
  BY RoomKeeps
<1>4. /\ room \subseteq Claimed /\ Claimed \ Done \subseteq room /\ k \notin room
      /\ k \notin Claimed \ Done
  BY <1>2, <1>3
<1>5. /\ post[t] \in Post /\ k \in Keys /\ post[t].input \in Inputs /\ post[t].level = 0
      /\ DOMAIN post = Threads /\ post[t].step = "claim"
  BY Busy DEF At, Before
<1>6. CASE Cardinality(room) < MaxReceipts
  <2>1. /\ receipts' = [q \in room \cup {k} |->
                           IF q = k THEN [input |-> post[t].input, done |-> FALSE, level |-> 0]
                           ELSE receipts[q]]
        /\ post' = [post EXCEPT ![t] = [post[t] EXCEPT !.step = "begin"]]
    BY <1>1, <1>6, <1>5 DEF Go
  <2>2. /\ ReceiptsOK' /\ (Claimed \ Done)' = (Claimed \ Done) \cup {k}
        /\ Claimed' = room \cup {k} /\ receipts'[k].level = 0
        /\ \A q \in room : receipts'[q] = receipts[q] /\ q \in Claimed
    <3>1. k \in Keys \ room /\ ReceiptsOK /\ world \in Nat
      BY <1>4, <1>5, Facts DEF IInv, Served
    <3>2. /\ Claimed' = room \cup {k}
          /\ receipts'[k] = [input |-> post[t].input, done |-> FALSE, level |-> 0]
          /\ \A q \in room : receipts'[q] = receipts[q] /\ q \in Claimed
      BY <1>4, <2>1 DEF Claimed
    <3> HIDE DEF k
    <3> QED BY <1>4, <1>5, <1>6, <3>1, <3>2, Opens
  <2>3. /\ DOMAIN post' = Threads
        /\ post'[t] \in Post /\ post'[t].step = "begin" /\ post'[t].key = k
        /\ post'[t].level = 0
        /\ \A u \in Threads \ {t} : post'[u] = post[u]
    BY <1>5, <2>1 DEF Post, PostSteps
  <2>4. PostsOK'
    BY <2>3, Facts DEF IInv, Served, PostsOK, PostOK
  <2>5. post[t].step \notin Claiming /\ "begin" \in Claiming \ (Owning \cup Told)
        /\ post[t].step \notin Owning
    BY <1>5 DEF Claiming, Owning, Told
  <2>6. /\ \A u \in Threads \ {t} : \A q : Runs(u, q)' = Runs(u, q)
        /\ ~\E q : Runs(t, q)
    BY <2>3, <2>5 DEF Runs
  <2>7. Owned'
    <3> SUFFICES ASSUME NEW q \in (Claimed \ Done)' PROVE \E u \in Threads : Runs(u, q)'
      BY DEF Owned
    <3>1. CASE q = k
      BY <2>3, <2>5, <3>1 DEF Runs
    <3>2. CASE q # k
      <4>1. PICK u \in Threads : Runs(u, q)
        BY <2>2, <3>2 DEF IInv, Owned
      <4> QED BY <2>6, <4>1
    <3> QED BY <3>1, <3>2
  <2>8. OneOwner'
    <3> SUFFICES ASSUME ~stray, NEW u \in Threads, post'[u].step \in Claiming
                 PROVE  (/\ post[u].key \in Claimed \ Done
                         /\ \A v \in Threads \ {u} : ~Runs(v, post[u].key))'
      BY DEF OneOwner, InFlight
    <3>1. CASE u = t
      <4>1. \A v \in Threads : ~(post[v].step \in Claiming /\ post[v].key = k)
        BY <1>4 DEF IInv, OneOwner, Runs, InFlight
      <4>2. \A v \in Threads \ {t} : ~(post'[v].step \in Claiming /\ post'[v].key = k)
        BY <2>3, <4>1
      <4> QED BY <2>2, <2>3, <3>1, <4>2 DEF Runs
    <3>2. CASE u # t
      <4>1. post[u].step \in Claiming /\ post'[u].key = post[u].key
        BY <2>3, <3>2
      <4>2. /\ post[u].key \in Claimed \ Done
            /\ \A v \in Threads \ {u} : ~Runs(v, post[u].key)
        BY <4>1 DEF IInv, OneOwner, InFlight
      <4>3. \A v \in Threads \ {u} :
               ~(post'[v].step \in Claiming /\ post'[v].key = post[u].key)
        BY <1>4, <2>3, <4>2 DEF Runs
      <4> QED BY <2>2, <4>1, <4>2, <4>3 DEF Runs
    <3> QED BY <3>1, <3>2
  <2>9. BarrierIsExact'
    BY <2>3, <2>5, SameOwners DEF IInv
  <2>10. TellsCached'
    BY <2>3, <2>5, Facts DEF TellsCached, snapshot
  <2>11. \A e \in cache : \A q \in Claimed' : receipts'[q].level <= e.lo
    BY <2>2, Facts
  <2>12. WorldOK' /\ CacheOK' /\ ReadsOK' /\ LookOK'
    BY <1>2, <2>10, <2>11, Facts, SnapshotStays
  <2> QED BY <2>2, <2>4, <2>7, <2>8, <2>9, <2>12 DEF IInv, Served
<1>7. CASE ~(Cardinality(room) < MaxReceipts)
  <2>1. receipts' = Only(room) /\ post' = [post EXCEPT ![t] = Resting]
    BY <1>1, <1>7
  <2>2. /\ ReceiptsOK' /\ Claimed' = room /\ (Claimed \ Done)' = Claimed \ Done
        /\ \A q \in Claimed' : receipts'[q] = receipts[q]
    BY <1>4, <2>1, Forgets DEF IInv, Served
  <2>3. PostsOK' /\ OneOwner' /\ Owned' /\ BarrierIsExact' /\ TellsCached'
    BY <1>5, <2>1, <2>2, Rests DEF Claiming, Owning, snapshot
  <2>4. \A e \in cache : \A q \in Claimed' : receipts'[q].level <= e.lo
    BY <1>4, <2>2, Facts
  <2>5. WorldOK' /\ CacheOK' /\ ReadsOK' /\ LookOK'
    BY <1>2, <2>3, <2>4, Facts, SnapshotStays
  <2> QED BY <2>2, <2>3, <2>5 DEF IInv, Served
<1> QED BY <1>6, <1>7

LEMMA ClaimStep == ASSUME IInv, NEW t \in Threads, Claim(t) PROVE IInv'
  BY RecallStep, AdmitStep DEF Claim

\* The steps behind the barrier that write nothing.
LEMMA BeginStep == ASSUME IInv, NEW t \in Threads, Begin(t) PROVE IInv'
<1>1. /\ post[t].step = "begin" /\ UNCHANGED <<store, world, known, snapshot>>
      /\ post[t].step \in Claiming \cap {"begin"} /\ post[t].step \notin Owning
  BY DEF Begin, At, Claiming, Owning
<1>2. PICK step \in {"study", "work", "finish"} :
          Go(t, step) /\ active' = IF step = "finish" THEN active ELSE active + 1
  BY DEF Begin
<1>3. step \in Claiming /\ (step \in Owning <=> step # "finish")
  BY DEF Claiming, Owning
<1>4. /\ ReceiptsOK' /\ PostsOK' /\ OneOwner' /\ Owned' /\ TellsCached' /\ Claimed' = Claimed
      /\ post'[t].step = step /\ \A u \in Threads \ {t} : post'[u] = post[u]
  BY <1>1, <1>2, <1>3, Proceeds DEF Before, Told, snapshot
<1>5. BarrierIsExact'
  BY <1>1, <1>2, <1>3, <1>4, SameOwners, OwnerComes DEF IInv
<1>6. WorldOK' /\ CacheOK' /\ ReadsOK' /\ LookOK'
  BY <1>1, <1>4, Facts, SnapshotStays DEF store
<1> QED BY <1>4, <1>5, <1>6 DEF IInv, Served

LEMMA EndWorkStep == ASSUME IInv, NEW t \in Threads, EndWork(t) PROVE IInv'
<1>1. /\ post[t].step \in {"work", "half"} /\ Go(t, "commit")
      /\ UNCHANGED <<store, active, world, known, snapshot>>
      /\ post[t].step \in Owning /\ "commit" \in Owning
  BY DEF EndWork, At, Owning
<1>2. /\ ReceiptsOK' /\ PostsOK' /\ OneOwner' /\ Owned' /\ TellsCached' /\ Claimed' = Claimed
      /\ post'[t].step = "commit" /\ \A u \in Threads \ {t} : post'[u] = post[u]
  BY <1>1, Proceeds DEF Before, Told, Claiming, snapshot
<1>3. BarrierIsExact'
  BY <1>1, <1>2, SameOwners DEF IInv
<1>4. WorldOK' /\ CacheOK' /\ ReadsOK' /\ LookOK'
  BY <1>1, <1>2, Facts, SnapshotStays DEF store
<1> QED BY <1>2, <1>3, <1>4 DEF IInv, Served

LEMMA RefuseStep == ASSUME IInv, NEW t \in Threads, Refuse(t) PROVE IInv'
<1>1. /\ post[t].step = "work" /\ Go(t, "release")
      /\ UNCHANGED <<store, active, world, known, snapshot>>
      /\ post[t].step \in Owning /\ "release" \in Owning
  BY DEF Refuse, At, Owning
<1>2. /\ ReceiptsOK' /\ PostsOK' /\ OneOwner' /\ Owned' /\ TellsCached' /\ Claimed' = Claimed
      /\ post'[t].step = "release" /\ \A u \in Threads \ {t} : post'[u] = post[u]
  BY <1>1, Proceeds DEF Before, Told, Claiming, snapshot
<1>3. BarrierIsExact'
  BY <1>1, <1>2, SameOwners DEF IInv
<1>4. WorldOK' /\ CacheOK' /\ ReadsOK' /\ LookOK'
  BY <1>1, <1>2, Facts, SnapshotStays DEF store
<1> QED BY <1>2, <1>3, <1>4 DEF IInv, Served

LEMMA EndMutationStep == ASSUME IInv, NEW t \in Threads, EndMutation(t) PROVE IInv'
<1>1. /\ post[t].step \in {"end", "release"} /\ Go(t, "finish")
      /\ active' = (IF active > 0 THEN active - 1 ELSE 0)
      /\ UNCHANGED <<store, world, known, snapshot>>
      /\ post[t].step \in Owning /\ "finish" \in Claiming \ Owning
  BY DEF EndMutation, At, Owning, Claiming
<1>2. /\ ReceiptsOK' /\ PostsOK' /\ OneOwner' /\ Owned' /\ TellsCached' /\ Claimed' = Claimed
      /\ post'[t].step = "finish" /\ \A u \in Threads \ {t} : post'[u] = post[u]
  BY <1>1, Proceeds DEF Before, Told, Claiming, snapshot
<1>3. BarrierIsExact'
  BY <1>1, <1>2, OwnerGoes DEF IInv
<1>4. WorldOK' /\ CacheOK' /\ ReadsOK' /\ LookOK'
  BY <1>1, <1>2, Facts, SnapshotStays DEF store
<1> QED BY <1>2, <1>3, <1>4 DEF IInv, Served

\* What the work has written may now be told: nothing older is cached.
LEMMA InvalidateStep == ASSUME IInv, NEW t \in Threads, Invalidate(t) PROVE IInv'
<1>1. /\ post[t].step = "commit" /\ Go(t, "end") /\ look = Free /\ cache' = {}
      /\ UNCHANGED <<store, active, world, known, covered, read, look>>
      /\ post[t].step \in Owning /\ "end" \in Owning
  BY DEF Invalidate, At, Owning
<1>2. /\ ReceiptsOK' /\ PostsOK' /\ OneOwner' /\ Owned'
      /\ post'[t].step = "end" /\ \A u \in Threads \ {t} : post'[u] = post[u]
  BY <1>1, Proceeds DEF Before, Told, Claiming
<1>3. BarrierIsExact'
  BY <1>1, <1>2, SameOwners DEF IInv
<1>4. CacheOK'
  BY <1>1 DEF CacheOK
<1>5. WorldOK' /\ ReadsOK' /\ LookOK'
  <2>1. WorldOK /\ ReadsOK
    BY DEF IInv, Served
  <2>2. WorldOK'
    BY <1>1, <2>1 DEF WorldOK, store
  <2>3. ReadsOK'
    BY <1>1, <2>1 DEF ReadsOK, ReadOK, Whole
  <2>4. LookOK'
    BY <1>1 DEF LookOK
  <2> QED BY <2>2, <2>3, <2>4
<1> QED BY <1>2, <1>3, <1>4, <1>5 DEF IInv, Served

\* No answer has told of this write, and no snapshot is as new.
LEMMA WriteWorldStep == ASSUME IInv, NEW t \in Threads, WriteWorld(t) PROVE IInv'
<1> DEFINE step == IF post[t].step = "work" THEN "half" ELSE "commit"
           new == [post[t] EXCEPT !.level = world + 1, !.step = step]
<1>1. /\ post[t].step \in {"work", "half"} /\ world < MaxWorld /\ world' = world + 1
      /\ UNCHANGED <<store, active, known, snapshot>>
      /\ step \in Owning \ (Before \cup Told) /\ post[t].step \in Owning
  BY DEF WriteWorld, At, Owning, Before, Told
<1>2. /\ post[t] \in Post /\ DOMAIN post = Threads
      /\ world \in Nat /\ world' \in Worlds /\ world' \in Nat
  BY <1>1, Busy, Facts DEF At, Worlds
<1>3. /\ DOMAIN post' = Threads /\ post'[t] = new
      /\ \A u \in Threads \ {t} : post'[u] = post[u]
  BY <1>2 DEF WriteWorld
<1>4. /\ post'[t] \in Post /\ post'[t].step = step /\ post'[t].key = post[t].key
      /\ post'[t].level = world'
  BY <1>1, <1>2, <1>3 DEF Post, PostSteps
<1>5. Claimed' = Claimed /\ Done' = Done
  BY <1>1 DEF Claimed, Done, store
<1>6. ReceiptsOK'
  <2>1. \A k \in Claimed : receipts[k].level \in Nat /\ receipts[k].level <= world'
    BY <1>1, <1>2, Facts
  <2> QED BY <1>1, <1>5, <2>1 DEF IInv, Served, ReceiptsOK, store
<1>7. PostsOK'
  <2>1. \A u \in Threads \ {t} : PostOK(u)'
    BY <1>1, <1>2, <1>3 DEF IInv, Served, PostsOK, PostOK, Post, Worlds
  <2>2. PostOK(t)'
    <3> HIDE DEF step, new
    <3> QED BY <1>1, <1>2, <1>4 DEF PostOK
  <2> QED BY <1>3, <2>1, <2>2 DEF PostsOK
<1> HIDE DEF step, new
<1>8. \A u \in Threads : \A k : Runs(u, k)' = Runs(u, k)
  BY <1>1, <1>3, <1>4 DEF Runs, Claiming
<1>9. \A u \in Threads : /\ (post'[u].step \in Claiming) = (post[u].step \in Claiming)
                         /\ (post'[u].step \in Owning) = (post[u].step \in Owning)
                         /\ post'[u].key = post[u].key
  BY <1>1, <1>3, <1>4 DEF Claiming
<1>10. OneOwner' /\ Owned'
  BY <1>1, <1>5, <1>8, <1>9 DEF IInv, OneOwner, Owned, InFlight, store
<1>11. BarrierIsExact'
  BY <1>1, <1>9, SameOwners DEF IInv
<1>12. TellsCached'
  BY <1>1, <1>3, <1>4, Facts DEF TellsCached, snapshot
<1>13. WorldOK' /\ CacheOK' /\ ReadsOK' /\ LookOK'
  BY <1>1, <1>2, <1>5, <1>12, Facts, SnapshotStays DEF store
<1> QED BY <1>6, <1>7, <1>10, <1>11, <1>13 DEF IInv, Served

-------------------------------------------------------------------------------
(* The answer of a POST.                                                   *)

\* The thread that closes its claim works under no key any more.
LEMMA FinishStep == ASSUME IInv, NEW t \in Threads, Finish(t) PROVE IInv'
<1> DEFINE k == post[t].key
           level == post[t].level
<1>1. /\ post[t].step = "finish" /\ Close(k, level) /\ Go(t, "write")
      /\ UNCHANGED <<stray, active, world, known, snapshot>>
  BY DEF Finish, At
<1>2. /\ post[t] \in Post /\ DOMAIN post = Threads /\ level \in Worlds /\ level <= world
  BY <1>1, Busy DEF At
<1>3. /\ ReceiptsOK' /\ Claimed' = Claimed /\ (Claimed \ Done)' = (Claimed \ Done) \ {k}
      /\ \A q \in Claimed : receipts'[q].level \in {receipts[q].level, level}
  <2> HIDE DEF k, level
  <2> QED BY <1>1, <1>2, Facts, Closes DEF IInv, Served
<1>4. /\ DOMAIN post' = Threads /\ post'[t] = [post[t] EXCEPT !.step = "write"]
      /\ \A u \in Threads \ {t} : post'[u] = post[u]
  BY <1>1, <1>2 DEF Go
<1>5. /\ post'[t] \in Post /\ post'[t].step = "write" /\ post'[t].level = level
  BY <1>2, <1>4 DEF Post, PostSteps
<1>6. PostsOK'
  BY <1>1, <1>2, <1>4, <1>5 DEF IInv, Served, PostsOK, PostOK, Before
<1>7. post'[t].step \notin Claiming /\ post[t].step \in Told \cap Claiming /\ post[t].step \notin Owning
  BY <1>1, <1>5 DEF Claiming, Owning, Told
<1>8. OneOwner'
  <2> SUFFICES ASSUME ~stray, NEW u \in Threads, post'[u].step \in Claiming
               PROVE  (/\ post[u].key \in Claimed \ Done
                       /\ \A v \in Threads \ {u} : ~Runs(v, post[u].key))'
    BY <1>1 DEF OneOwner, InFlight
  <2>1. u # t /\ post'[u] = post[u]
    BY <1>4, <1>7
  <2>2. /\ post[u].key \in Claimed \ Done
        /\ \A v \in Threads \ {u} : ~Runs(v, post[u].key)
    BY <2>1 DEF IInv, OneOwner, InFlight
  <2>3. post[u].key # k
    BY <1>7, <2>1, <2>2 DEF Runs
  <2>4. \A v \in Threads \ {u} : ~(post'[v].step \in Claiming /\ post'[v].key = post[u].key)
    BY <1>4, <1>7, <2>2 DEF Runs
  <2> QED BY <1>3, <2>1, <2>2, <2>3, <2>4 DEF Runs
<1>9. Owned'
  <2> SUFFICES ASSUME NEW q \in (Claimed \ Done)' PROVE \E u \in Threads : Runs(u, q)'
    BY DEF Owned
  <2>1. PICK u \in Threads : Runs(u, q)
    BY <1>3 DEF IInv, Owned
  <2>2. u # t
    BY <1>3, <2>1 DEF Runs
  <2> QED BY <1>4, <2>1, <2>2 DEF Runs
<1>10. BarrierIsExact'
  <2>1. post'[t].step \notin Owning
    BY <1>7 DEF Claiming
  <2>2. active' = active /\ \A u \in Threads : (post'[u].step \in Owning) = (post[u].step \in Owning)
    <3>1. \A u \in Threads \ {t} : post'[u].step = post[u].step
      BY <1>4
    <3>2. active' = active /\ post[t].step \notin Owning
      BY <1>1, <1>7
    <3> QED BY <2>1, <3>1, <3>2
  <2> QED BY <2>2, SameOwners DEF IInv
<1>11. level \in Nat /\ \A e \in cache : level <= e.lo
  BY <1>2, <1>7, Facts DEF TellsCached, Worlds
<1>12. TellsCached'
  BY <1>1, <1>4, <1>5, <1>11, Facts DEF TellsCached, snapshot
<1>13. \A e \in cache : \A q \in Claimed' : receipts'[q].level <= e.lo
  BY <1>3, <1>11, Facts
<1>14. WorldOK' /\ CacheOK' /\ ReadsOK' /\ LookOK'
  BY <1>1, <1>12, <1>13, Facts, SnapshotStays
<1> QED BY <1>3, <1>6, <1>8, <1>9, <1>10, <1>14 DEF IInv, Served

LEMMA WriteAnswerStep == ASSUME IInv, NEW t \in Threads, WriteAnswer(t) PROVE IInv'
<1>1. /\ post[t].step = "write" /\ UNCHANGED <<store, active, world, snapshot>>
      /\ post[t].step \in Told /\ post[t].step \notin Claiming
  BY DEF WriteAnswer, At, Told, Claiming, Owning
<1>2. /\ post[t] \in Post /\ DOMAIN post = Threads /\ post[t].level \in Nat
      /\ post[t].level <= world
  BY <1>1, Busy DEF At
<1>3. Claimed' = Claimed /\ Done' = Done
  BY <1>1 DEF Claimed, Done, store
<1>4. ReceiptsOK'
  BY <1>1, <1>3 DEF IInv, Served, ReceiptsOK, store
<1>5. CASE known' = Later(known, post[t].level) /\ post' = [post EXCEPT ![t] = Resting]
  <2>1. PostsOK' /\ OneOwner' /\ Owned' /\ BarrierIsExact' /\ TellsCached'
    BY <1>1, <1>3, <1>5, Rests DEF store, snapshot
  <2>2. /\ known' \in 0 .. world /\ known <= known' /\ \A e \in cache : known' <= e.lo
    BY <1>1, <1>2, <1>5, Facts DEF Later, TellsCached
  <2>3. WorldOK' /\ CacheOK' /\ ReadsOK' /\ LookOK'
    BY <1>1, <1>3, <2>1, <2>2, Facts, SnapshotStays DEF store
  <2> QED BY <1>4, <2>1, <2>3 DEF IInv, Served
<1>6. CASE Go(t, "late") /\ UNCHANGED known
  <2>1. /\ DOMAIN post' = Threads /\ post'[t] = [post[t] EXCEPT !.step = "late"]
        /\ \A u \in Threads \ {t} : post'[u] = post[u]
    BY <1>2, <1>6 DEF Go
  <2>2. post'[t] \in Post /\ post'[t].step = "late" /\ post'[t].level = post[t].level
    BY <1>2, <2>1 DEF Post, PostSteps
  <2>3. PostsOK'
    BY <1>1, <1>2, <2>1, <2>2 DEF IInv, Served, PostsOK, PostOK, Before
  <2>4. post'[t].step \notin Claiming
    BY <2>2 DEF Claiming, Owning
  <2>5. \A u \in Threads : \A k : Runs(u, k)' = Runs(u, k)
    BY <1>1, <2>1, <2>4 DEF Runs
  <2>6. OneOwner' /\ Owned'
    <3>1. stray' = stray /\ \A u \in Threads : post'[u].step \in Claiming =>
             post[u].step \in Claiming /\ post'[u].key = post[u].key
      BY <1>1, <2>1, <2>4 DEF store
    <3> QED BY <1>3, <2>5, <3>1 DEF IInv, OneOwner, Owned, InFlight
  <2>7. BarrierIsExact'
    <3>1. post[t].step \notin Owning /\ post'[t].step \notin Owning
      BY <1>1, <2>4 DEF Claiming
    <3>2. active' = active /\ \A u \in Threads : (post'[u].step \in Owning) = (post[u].step \in Owning)
      <4>1. \A u \in Threads \ {t} : post'[u].step = post[u].step
        BY <2>1
      <4>2. active' = active
        BY <1>1
      <4> QED BY <3>1, <4>1, <4>2
    <3> QED BY <3>2, SameOwners DEF IInv
  <2>8. TellsCached'
    BY <1>1, <2>1, <2>2, Facts, ZenonT(60) DEF TellsCached, snapshot
  <2>9. WorldOK' /\ CacheOK' /\ ReadsOK' /\ LookOK'
    BY <1>1, <1>3, <1>6, <2>8, Facts, SnapshotStays DEF store
  <2> QED BY <1>4, <2>3, <2>6, <2>7, <2>9 DEF IInv, Served
<1> QED BY <1>5, <1>6 DEF WriteAnswer

\* Either nothing happens or, from now on, the promise is off.
LEMMA AnswerAgainStep == ASSUME IInv, NEW t \in Threads, AnswerAgain(t) PROVE IInv'
<1> DEFINE k == post[t].key
<1>1. /\ post[t].step = "late" /\ Close(k, 0) /\ stray' = (stray \/ InFlight(k))
      /\ post' = [post EXCEPT ![t] = Resting] /\ UNCHANGED <<active, world, known, snapshot>>
      /\ post[t].step \notin Claiming
  BY DEF AnswerAgain, At, Claiming, Owning
<1>2. stray' \in BOOLEAN /\ (~stray' => ~stray /\ ~InFlight(k))
  BY <1>1, Facts
<1>3. /\ ReceiptsOK' /\ Claimed' = Claimed /\ (Claimed \ Done)' = (Claimed \ Done) \ {k}
      /\ \A q \in Claimed : receipts'[q].level \in {receipts[q].level, 0}
  <2>1. 0 \in Worlds /\ 0 <= world
    BY Facts DEF Worlds
  <2> HIDE DEF k
  <2> QED BY <1>1, <2>1, Facts, Closes DEF IInv, Served
<1>4. /\ DOMAIN post' = Threads /\ post'[t] = Resting
      /\ \A u \in Threads \ {t} : post'[u] = post[u]
  BY <1>1 DEF IInv, Served, PostsOK
<1>5. PostsOK'
  BY <1>1, <1>4 DEF IInv, Served, PostsOK, PostOK
<1>6. post'[t].step \notin Claiming \cup Told
  BY <1>4 DEF Resting, Claiming, Owning, Told
<1>7. \A u \in Threads : \A q : Runs(u, q)' = Runs(u, q)
  BY <1>1, <1>4, <1>6 DEF Runs
<1>8. OneOwner'
  <2> SUFFICES ASSUME ~stray', NEW u \in Threads, post'[u].step \in Claiming
               PROVE  (/\ post[u].key \in Claimed \ Done
                       /\ \A v \in Threads \ {u} : ~Runs(v, post[u].key))'
    BY DEF OneOwner, InFlight
  <2>1. u # t /\ post'[u] = post[u]
    BY <1>4, <1>6
  <2>2. /\ post[u].key \in Claimed \ Done
        /\ \A v \in Threads \ {u} : ~Runs(v, post[u].key)
    BY <1>2, <2>1 DEF IInv, OneOwner, InFlight
  <2>3. post[u].key # k
    BY <1>2, <2>2 DEF InFlight
  <2>4. \A v \in Threads \ {u} : ~(post'[v].step \in Claiming /\ post'[v].key = post[u].key)
    BY <1>4, <1>6, <2>2 DEF Runs
  <2> QED BY <1>3, <2>1, <2>2, <2>3, <2>4 DEF Runs
<1>9. Owned'
  BY <1>3, <1>7 DEF IInv, Owned
<1>10. BarrierIsExact'
  BY <1>1, <1>4, <1>6, SameOwners DEF IInv, Claiming
<1>11. TellsCached'
  BY <1>1, <1>4, <1>6, Facts DEF TellsCached, snapshot
<1>12. \A e \in cache : \A q \in Claimed' : receipts'[q].level <= e.lo
  BY <1>3, Facts
<1>13. WorldOK' /\ CacheOK' /\ ReadsOK' /\ LookOK'
  BY <1>1, <1>2, <1>11, <1>12, Facts, SnapshotStays
<1> QED BY <1>3, <1>5, <1>8, <1>9, <1>10, <1>13 DEF IInv, Served

-------------------------------------------------------------------------------
(* The snapshot.                                                           *)

LEMMA LookingFacts ==
    ASSUME IInv, look # Free
    PROVE  /\ look.by \in Threads /\ look.step \in LookSteps
           /\ look.before \in Worlds /\ look.lo \in Worlds /\ look.hi \in Worlds
           /\ look.tries \in 0 .. (Attempts - 1)
           /\ look \in [by : Threads, step : LookSteps, before : Worlds,
                        lo : Worlds, hi : Worlds, tries : 0 .. (Attempts - 1)]
           /\ read[look.by].step = "look" /\ read[look.by].floor \in 0 .. known
           /\ DOMAIN read = Threads
<1>1. /\ look \in [by : Threads, step : LookSteps, before : Worlds,
                   lo : Worlds, hi : Worlds, tries : 0 .. (Attempts - 1)]
      /\ read[look.by].step = "look"
  BY DEF IInv, Served, LookOK
<1>2. ReadOK(read[look.by]) /\ DOMAIN read = Threads
  BY <1>1 DEF IInv, Served, ReadsOK
<1>3. read[look.by].floor \in 0 .. known
  BY <1>1, <1>2 DEF ReadOK, Silent
<1> QED BY <1>1, <1>2, <1>3

\* An answer may hold only whole snapshots as new as all that was told.
LEMMA Answers ==
    ASSUME IInv, NEW t \in Threads, NEW entries \in SUBSET Entry, Answer(t, entries),
           read[t].floor \in 0 .. known, known' = known,
           \A e \in entries : Whole(e) /\ known <= e.lo, covered' \in SUBSET Threads
    PROVE  ReadsOK' /\ \A u \in Threads \ {t} : read'[u] = read[u]
<1>1. DOMAIN read = Threads /\ \A u \in Threads : ReadOK(read[u])
  BY DEF IInv, Served, ReadsOK
<1>2. /\ DOMAIN read' = Threads /\ \A u \in Threads \ {t} : read'[u] = read[u]
      /\ read'[t] = [step |-> "done", floor |-> read[t].floor, got |-> entries]
  BY <1>1 DEF Answer
<1>3. read[t].floor \in Worlds
  BY Facts DEF Worlds
<1>4. \A e \in entries : e.lo >= read[t].floor
  BY Facts DEF Whole, Entry, Worlds
<1>5. ReadOK(read[t])'
  BY <1>2, <1>3, <1>4 DEF ReadOK, Whole
<1>6. \A u \in Threads \ {t} : ReadOK(read[u])'
  BY <1>1, <1>2 DEF ReadOK, Whole
<1> QED BY <1>2, <1>5, <1>6 DEF ReadsOK

LEMMA CacheStays ==
    ASSUME IInv, UNCHANGED <<store, post, known, cache>>
    PROVE  CacheOK' /\ cache \in SUBSET Entry
           /\ \A e \in cache : Whole(e) /\ known <= e.lo
<1>1. \A e \in cache : Whole(e) /\ known <= e.lo
  BY DEF IInv, Served, CacheOK
<1>2. Claimed' = Claimed
  BY DEF Claimed, store
<1> QED BY <1>1, <1>2 DEF IInv, Served, CacheOK, Whole, store

LEMMA BeginReadStep ==
    ASSUME IInv, NEW t \in Threads, read[t] = Silent,
           read' = [read EXCEPT ![t] = [step |-> "wait", floor |-> known]],
           covered' = covered \ {t}, UNCHANGED <<world, known, look, stray>>
    PROVE  WorldOK' /\ ReadsOK' /\ LookOK'
<1>1. DOMAIN read = Threads /\ (\A u \in Threads : ReadOK(read[u])) /\ covered \in SUBSET Threads
  BY DEF IInv, Served, ReadsOK
<1>2. /\ DOMAIN read' = Threads /\ \A u \in Threads \ {t} : read'[u] = read[u]
      /\ read'[t] = [step |-> "wait", floor |-> known]
  BY <1>1
<1>3. ReadOK(read[t])'
  BY <1>2, Facts DEF ReadOK
<1>4. \A u \in Threads \ {t} : ReadOK(read[u])'
  BY <1>1, <1>2 DEF ReadOK, Whole
<1>5. ReadsOK'
  BY <1>1, <1>2, <1>3, <1>4 DEF ReadsOK
<1>6. LookOK'
  <2>1. CASE look = Free
    BY <2>1 DEF LookOK
  <2>2. CASE look # Free
    <3>1. look.by # t /\ look.by \in Threads
      BY <2>2, LookingFacts DEF Silent
    <3> QED BY <1>2, <2>2, <3>1 DEF IInv, Served, LookOK
  <2> QED BY <2>1, <2>2
<1>7. WorldOK'
  BY DEF IInv, Served, WorldOK
<1> QED BY <1>5, <1>6, <1>7

LEMMA AskReadStep == ASSUME IInv, NEW t \in Threads, AskRead(t) PROVE IInv'
<1>1. /\ read[t] = Silent /\ read' = [read EXCEPT ![t] = [step |-> "wait", floor |-> known]]
      /\ covered' = covered \ {t} /\ UNCHANGED <<store, active, world, known, cache, look, post>>
  BY DEF AskRead, BeginRead
<1>2. WorldOK' /\ ReadsOK' /\ LookOK'
  BY <1>1, BeginReadStep DEF store
<1>3. ReceiptsOK' /\ PostsOK' /\ OneOwner' /\ Owned' /\ BarrierIsExact'
  BY <1>1, Facts, StoreStays
<1>4. CacheOK'
  BY <1>1, CacheStays
<1> QED BY <1>2, <1>3, <1>4 DEF IInv, Served

LEMMA ReadFirstStep == ASSUME IInv, NEW t \in Threads, ReadFirst(t) PROVE IInv'
<1>1. /\ read[t] = Silent /\ read' = [read EXCEPT ![t] = [step |-> "wait", floor |-> known]]
      /\ covered' = covered \ {t} /\ UNCHANGED <<store, active, world, known, cache, look>>
      /\ post[t].step = "study" /\ Go(t, "work") /\ post[t].step \in Owning /\ "work" \in Owning
  BY DEF ReadFirst, BeginRead, At, Owning
<1>2. WorldOK' /\ ReadsOK' /\ LookOK'
  BY <1>1, BeginReadStep DEF store
<1>3. /\ ReceiptsOK' /\ PostsOK' /\ OneOwner' /\ Owned' /\ TellsCached' /\ Claimed' = Claimed
      /\ post'[t].step = "work" /\ \A u \in Threads \ {t} : post'[u] = post[u]
  BY <1>1, Proceeds DEF Before, Told, Claiming
<1>4. BarrierIsExact'
  BY <1>1, <1>3, SameOwners DEF IInv
<1>5. CacheOK'
  <2>1. cache' = cache /\ receipts' = receipts /\ known' = known
    BY <1>1 DEF store
  <2> QED BY <1>3, <2>1 DEF IInv, Served, CacheOK, Whole, TellsCached
<1> QED BY <1>2, <1>3, <1>4, <1>5 DEF IInv, Served

LEMMA EnterStep == ASSUME IInv, NEW t \in Threads, Enter(t) PROVE IInv'
<1>1. /\ read[t].step = "wait" /\ look = Free
      /\ UNCHANGED <<store, post, active, world, known, cache, covered>>
  BY DEF Enter
<1>2. /\ DOMAIN read = Threads /\ (\A u \in Threads : ReadOK(read[u])) /\ covered \in SUBSET Threads
      /\ WorldOK
  BY DEF IInv, Served, ReadsOK
<1>3. read[t] \in [step : {"wait", "look"}, floor : 0 .. known]
  BY <1>1, <1>2 DEF ReadOK, Silent
<1>4. ReceiptsOK' /\ PostsOK' /\ OneOwner' /\ Owned' /\ BarrierIsExact'
  BY <1>1, Facts, StoreStays
<1>5. CacheOK' /\ WorldOK'
  BY <1>1, <1>2, CacheStays DEF WorldOK, store
<1>6. CASE Answer(t, cache) /\ UNCHANGED look
  <2>1. ReadsOK'
    BY <1>1, <1>2, <1>3, <1>6, CacheStays, Answers
  <2>2. LookOK'
    BY <1>1, <1>6 DEF LookOK
  <2> QED BY <1>4, <1>5, <2>1, <2>2 DEF IInv, Served
<1>7. CASE /\ look' = [by |-> t, step |-> "observe", before |-> 0,
                      lo |-> 0, hi |-> 0, tries |-> 0]
           /\ read' = [read EXCEPT ![t].step = "look"]
  <2>1. /\ DOMAIN read' = Threads /\ \A u \in Threads \ {t} : read'[u] = read[u]
        /\ read'[t] = [read[t] EXCEPT !.step = "look"]
    BY <1>2, <1>7
  <2>2. read'[t] \in [step : {"wait", "look"}, floor : 0 .. known] /\ read'[t].step = "look"
    BY <1>3, <2>1
  <2>3. ReadsOK'
    <3>1. known' = known /\ covered' = covered
      BY <1>1
    <3>2. ReadOK(read[t])'
      BY <2>2, <3>1 DEF ReadOK
    <3>3. \A u \in Threads \ {t} : ReadOK(read[u])'
      BY <1>2, <2>1, <3>1 DEF ReadOK, Whole
    <3> QED BY <1>2, <2>1, <3>1, <3>2, <3>3 DEF ReadsOK
  <2>4. LookOK'
    <3>1. 0 \in Worlds /\ 0 \in 0 .. (Attempts - 1)
      BY DEF Worlds
    <3> QED BY <1>7, <2>2, <3>1 DEF LookOK, LookSteps
  <2> QED BY <1>4, <1>5, <2>3, <2>4 DEF IInv, Served
<1> QED BY <1>6, <1>7 DEF Enter

LEMMA EndReadStep == ASSUME IInv, NEW t \in Threads, EndRead(t) PROVE IInv'
<1>1. /\ read[t].step = "done" /\ read' = [read EXCEPT ![t] = Silent]
      /\ UNCHANGED <<store, post, active, world, known, cache, covered, look>>
  BY DEF EndRead
<1>2. /\ DOMAIN read = Threads /\ (\A u \in Threads : ReadOK(read[u])) /\ covered \in SUBSET Threads
      /\ WorldOK
  BY DEF IInv, Served, ReadsOK
<1>3. /\ DOMAIN read' = Threads /\ \A u \in Threads \ {t} : read'[u] = read[u]
      /\ read'[t] = Silent
  BY <1>1, <1>2
<1>4. ReceiptsOK' /\ PostsOK' /\ OneOwner' /\ Owned' /\ BarrierIsExact'
  BY <1>1, Facts, StoreStays
<1>5. CacheOK' /\ WorldOK'
  BY <1>1, <1>2, CacheStays DEF WorldOK, store
<1>6. ReadsOK'
  BY <1>1, <1>2, <1>3 DEF ReadsOK, ReadOK, Whole
<1>7. LookOK'
  <2>1. CASE look = Free
    BY <1>1, <2>1 DEF LookOK
  <2>2. CASE look # Free
    <3>1. look.by # t /\ look.by \in Threads
      BY <1>1, <2>2, LookingFacts
    <3> QED BY <1>1, <1>3, <2>2, <3>1 DEF IInv, Served, LookOK
  <2> QED BY <2>1, <2>2
<1> QED BY <1>4, <1>5, <1>6, <1>7 DEF IInv, Served

-------------------------------------------------------------------------------
(* The reader that builds.                                                 *)

\* It gives an answer and the lock.
LEMMA Gives ==
    ASSUME IInv, look # Free, NEW entries \in SUBSET Entry, Give(entries), known' = known,
           \A e \in entries : Whole(e) /\ known <= e.lo, covered' \in SUBSET Threads
    PROVE  ReadsOK' /\ LookOK'
<1>1. LookOK'
  BY DEF Give, LookOK
<1>2. look.by \in Threads /\ Answer(look.by, entries)
  BY LookingFacts DEF Give, Reader
<1>3. read[look.by].floor \in 0 .. known
  BY LookingFacts
<1> QED BY <1>1, <1>2, <1>3, Answers

\* It goes on and has told nobody.
LEMMA GoesOn ==
    ASSUME IInv, UNCHANGED <<covered, read, known>>
    PROVE  ReadsOK'
  BY DEF IInv, Served, ReadsOK, ReadOK, Whole

LEMMA TriesAgain ==
    ASSUME IInv, look # Free, TryAgain, UNCHANGED <<store, post, known, cache>>
    PROVE  ReadsOK' /\ LookOK'
<1>1. CASE look.tries + 1 < Attempts
  <2>1. /\ look' = [look EXCEPT !.tries = @ + 1, !.step = "observe"]
        /\ UNCHANGED <<covered, read>>
    BY <1>1 DEF TryAgain
  <2>2. /\ look' \in [by : Threads, step : LookSteps, before : Worlds,
                      lo : Worlds, hi : Worlds, tries : 0 .. (Attempts - 1)]
        /\ look'.by = look.by /\ look'.step = "observe"
    <3>1. look.tries + 1 \in 0 .. (Attempts - 1)
      BY <1>1, LookingFacts
    <3> QED BY <2>1, <3>1, LookingFacts DEF LookSteps
  <2>3. LookOK'
    BY <2>1, <2>2, LookingFacts DEF LookOK
  <2> QED BY <2>1, <2>3, GoesOn
<1>2. CASE ~(look.tries + 1 < Attempts)
  <2>1. Give(cache) /\ covered' = Threads
    BY <1>2 DEF TryAgain, Observed
  <2> QED BY <2>1, Gives, CacheStays
<1> QED BY <1>1, <1>2

LEMMA LookStays ==
    ASSUME IInv, UNCHANGED <<store, post, active, world, known, cache>>, ReadsOK', LookOK'
    PROVE  IInv'
<1>1. ReceiptsOK' /\ PostsOK' /\ OneOwner' /\ Owned' /\ BarrierIsExact'
  BY Facts, StoreStays
<1>2. CacheOK'
  BY CacheStays
<1>3. WorldOK'
  BY DEF IInv, Served, WorldOK, store
<1> QED BY <1>1, <1>2, <1>3 DEF IInv, Served

LEMMA ObserveStep == ASSUME IInv, Observe PROVE IInv'
<1>1. look # Free /\ look.step = "observe" /\ UNCHANGED <<store, post, active, world, known, cache>>
  BY DEF Observe, Looking
<1>2. CASE Give(cache) /\ Observed
  BY <1>1, <1>2, Gives, CacheStays, LookStays DEF Observed
<1>3. CASE look' = [look EXCEPT !.step = "low", !.before = world] /\ UNCHANGED <<covered, read>>
  <2>1. /\ look' \in [by : Threads, step : LookSteps, before : Worlds,
                      lo : Worlds, hi : Worlds, tries : 0 .. (Attempts - 1)]
        /\ look'.by = look.by /\ look'.step = "low" /\ look'.before = world
    BY <1>1, <1>3, LookingFacts, Facts DEF LookSteps
  <2>2. LookOK'
    BY <1>1, <1>3, <2>1, LookingFacts, Facts DEF LookOK
  <2> QED BY <1>1, <1>3, <2>2, GoesOn, LookStays
<1>4. CASE TryAgain
  BY <1>1, <1>4, TriesAgain, LookStays
<1>5. CASE Give({}) /\ UNCHANGED covered
  <2>1. covered' \in SUBSET Threads
    BY <1>5 DEF IInv, Served, ReadsOK
  <2> QED BY <1>1, <1>5, <2>1, Gives, LookStays
<1> QED BY <1>2, <1>3, <1>4, <1>5 DEF Observe

\* What a build sees was there after it began.
LEMMA Between ==
    ASSUME IInv, look # Free
    PROVE  /\ look.step \in {"low", "high", "after"} => look.before <= world
           /\ look.step \in {"high", "after"} => look.before <= look.lo /\ look.lo <= world
           /\ look.step = "after" => look.lo <= look.hi /\ look.hi <= world
  BY DEF IInv, Served, LookOK

LEMMA BuildStep == ASSUME IInv, BuildLow \/ BuildHigh PROVE IInv'
<1>1. /\ look # Free
      /\ UNCHANGED <<store, post, active, world, known, cache, covered, read>>
  BY DEF BuildLow, BuildHigh, Looking
<1>2. ReadsOK'
  BY <1>1, GoesOn
<1>3. CASE BuildLow
  <2>1. look.step = "low" /\ look' = [look EXCEPT !.lo = world, !.step = "high"]
    BY <1>3 DEF BuildLow, Looking
  <2>2. /\ look' \in [by : Threads, step : LookSteps, before : Worlds,
                      lo : Worlds, hi : Worlds, tries : 0 .. (Attempts - 1)]
        /\ look'.by = look.by /\ look'.step = "high" /\ look'.before = look.before
        /\ look'.lo = world
    BY <1>1, <2>1, LookingFacts, Facts DEF LookSteps
  <2>3. LookOK'
    BY <1>1, <2>1, <2>2, LookingFacts, Between, Facts DEF LookOK
  <2> QED BY <1>1, <1>2, <2>3, LookStays
<1>4. CASE BuildHigh
  <2>1. look.step = "high" /\ look' = [look EXCEPT !.hi = world, !.step = "after"]
    BY <1>4 DEF BuildHigh, Looking
  <2>2. /\ look' \in [by : Threads, step : LookSteps, before : Worlds,
                      lo : Worlds, hi : Worlds, tries : 0 .. (Attempts - 1)]
        /\ look'.by = look.by /\ look'.step = "after" /\ look'.before = look.before
        /\ look'.lo = look.lo /\ look'.hi = world
    BY <1>1, <2>1, LookingFacts, Facts DEF LookSteps
  <2>3. LookOK'
    BY <1>1, <2>1, <2>2, LookingFacts, Between, Facts DEF LookOK
  <2> QED BY <1>1, <1>2, <2>3, LookStays
<1> QED BY <1>3, <1>4

LEMMA BuildFailsStep == ASSUME IInv, BuildFails PROVE IInv'
<1>1. look # Free /\ UNCHANGED <<store, post, active, world, known, cache>>
  BY DEF BuildFails, Looking
<1>2. CASE TryAgain
  BY <1>1, <1>2, TriesAgain, LookStays
<1>3. CASE Give({}) /\ UNCHANGED covered
  <2>1. covered' \in SUBSET Threads
    BY <1>3 DEF IInv, Served, ReadsOK
  <2> QED BY <1>1, <1>3, <2>1, Gives, LookStays
<1> QED BY <1>2, <1>3 DEF BuildFails

\* A build that ends on the revision it began with saw one state only.
LEMMA AfterStep == ASSUME IInv, After PROVE IInv'
<1>1. /\ look # Free /\ look.step = "after"
      /\ UNCHANGED <<store, post, active, world, known>>
  BY DEF After, Looking
<1>2. CASE Stable /\ cache' = {Built} /\ Give({Built}) /\ Observed
  <2>1. look.lo = world /\ look.hi = world /\ world \in Worlds
    BY <1>1, <1>2, Between, LookingFacts, Facts DEF Stable, Worlds
  <2>2. /\ Built \in Entry /\ Built.lo = world /\ Built.rev = world /\ Built.hi = world
    BY <2>1 DEF Built, Entry
  <2>3. Whole(Built) /\ known <= Built.lo
    BY <2>2, Facts DEF Whole
  <2>4. ReadsOK' /\ LookOK'
    <3>1. {Built} \in SUBSET Entry /\ \A e \in {Built} : Whole(e) /\ known <= e.lo
      BY <2>2, <2>3
    <3>2. covered' \in SUBSET Threads
      BY <1>2 DEF Observed
    <3> QED BY <1>1, <1>2, <3>1, <3>2, Gives
  <2>5. CacheOK'
    <3>1. PICK b \in Entry : b = Built
      BY <2>2
    <3>2. cache' = {b} /\ Whole(b) /\ known' <= b.lo /\ b.lo = world
      BY <1>1, <1>2, <2>2, <2>3, <3>1
    <3>3. \A k \in Claimed' : receipts'[k].level <= b.lo
      BY <1>1, <3>2, Facts DEF Claimed, store
    <3>4. \A t \in Threads : post'[t].step \in Told => post'[t].level <= b.lo
      <4> SUFFICES ASSUME NEW t \in Threads, post[t].step \in Told PROVE post[t].level <= world
        BY <1>1, <3>2
      <4>1. ~At(t, "idle")
        BY DEF At, Told
      <4> QED BY <4>1, Busy
    <3> QED BY <3>2, <3>3, <3>4 DEF CacheOK, Whole
  <2>6. WorldOK'
    BY <1>1 DEF IInv, Served, WorldOK, store
  <2>7. ReceiptsOK' /\ PostsOK' /\ OneOwner' /\ Owned' /\ BarrierIsExact'
    BY <1>1, Facts, StoreStays
  <2> QED BY <2>4, <2>5, <2>6, <2>7 DEF IInv, Served
<1>3. CASE TryAgain /\ UNCHANGED cache
  BY <1>1, <1>3, TriesAgain, LookStays
<1>4. CASE Give({}) /\ UNCHANGED <<cache, covered>>
  <2>1. covered' \in SUBSET Threads
    BY <1>4 DEF IInv, Served, ReadsOK
  <2> QED BY <1>1, <1>4, <2>1, Gives, LookStays
<1> QED BY <1>2, <1>3, <1>4 DEF After

LEMMA OthersInvalidateStep == ASSUME IInv, OthersInvalidate PROVE IInv'
<1>1. cache' = {} /\ UNCHANGED <<store, post, active, world, known, covered, read, look>>
  BY DEF OthersInvalidate
<1>2. ReceiptsOK' /\ PostsOK' /\ OneOwner' /\ Owned' /\ BarrierIsExact'
  BY <1>1, Facts, StoreStays
<1>3. CacheOK'
  BY <1>1 DEF CacheOK
<1>4. WorldOK' /\ LookOK'
  BY <1>1 DEF IInv, Served, WorldOK, LookOK, store
<1>5. ReadsOK'
  BY <1>1, GoesOn
<1> QED BY <1>2, <1>3, <1>4, <1>5 DEF IInv, Served

LEMMA EditorWritesStep == ASSUME IInv, EditorWrites PROVE IInv'
<1>1. world < MaxWorld /\ world' = world + 1 /\ UNCHANGED <<store, post, active, known, snapshot>>
  BY DEF EditorWrites
<1>2. world' \in Worlds /\ world <= world' /\ world' \in Nat /\ known \in 0 .. world'
  BY <1>1, Facts DEF Worlds
<1>3. ReceiptsOK' /\ PostsOK' /\ OneOwner' /\ Owned' /\ BarrierIsExact'
  BY <1>1, <1>2, StoreStays
<1>4. TellsCached' /\ Claimed' = Claimed /\ receipts' = receipts
  BY <1>1, Facts DEF TellsCached, snapshot, store, Claimed
<1>5. WorldOK' /\ CacheOK' /\ ReadsOK' /\ LookOK'
  BY <1>1, <1>2, <1>4, Facts, SnapshotStays DEF store
<1> QED BY <1>3, <1>5 DEF IInv, Served

LEMMA StutterStep == ASSUME IInv, UNCHANGED vars PROVE IInv'
<1>1. UNCHANGED <<store, post, active, world, known, snapshot>>
  BY DEF vars
<1>2. UNCHANGED <<cache, covered, read, look>>
  BY <1>1 DEF snapshot
<1>3. ReadsOK'
  BY <1>1, <1>2, GoesOn
<1>4. LookOK'
  BY <1>1, <1>2 DEF IInv, Served, LookOK
<1> QED BY <1>1, <1>2, <1>3, <1>4, LookStays

LEMMA NextIInv == ASSUME IInv, [Next]_vars PROVE IInv'
<1>1. ASSUME NEW t \in Threads, Handle(t) PROVE IInv'
  BY <1>1, ClaimStep, BeginStep, EndWorkStep, InvalidateStep, EndMutationStep, FinishStep,
     WriteAnswerStep, AnswerAgainStep, ReadFirstStep DEF Handle
<1>2. ASSUME Look PROVE IInv'
  BY <1>2, ObserveStep, BuildStep, BuildFailsStep, AfterStep DEF Look
<1> QED BY <1>1, <1>2, AskPostStep, WriteWorldStep, RefuseStep, AskReadStep, EnterStep,
          EndReadStep, OthersInvalidateStep, EditorWritesStep, StutterStep DEF Next

-------------------------------------------------------------------------------
(* The theorems.                                                           *)

LEMMA IInvAlways == Spec => []IInv
<1>1. Init => IInv
  BY InitIInv
<1>2. IInv /\ [Next]_vars => IInv'
  BY NextIInv
<1> QED BY <1>1, <1>2, PTL DEF Spec

LEMMA TypesHold == ASSUME IInv PROVE TypeOK
<1>1. /\ Claimed \subseteq Keys /\ \A k \in Claimed : receipts[k] \in Receipt
      /\ Cardinality(Claimed) <= MaxReceipts
  BY DEF IInv, Served, ReceiptsOK
<1>2. \A t \in Threads : \/ post[t] = Resting
                         \/ post[t] \in [step : PostSteps, key : Keys, input : Inputs, level : Worlds]
  BY DEF IInv, Served, PostsOK, PostOK, Post
<1>3. active \in 0 .. Cardinality(Threads)
  BY OwnersFinite DEF IInv, BarrierIsExact
<1>4. world \in Worlds /\ known \in 0 .. world /\ stray \in BOOLEAN
  BY Facts
<1>5. cache \in SUBSET Entry /\ Cardinality(cache) <= 1
  <2>1. CASE cache = {}
    BY <2>1, FS_EmptySet
  <2>2. CASE \E e \in Entry : cache = {e}
    <3>1. PICK e \in Entry : cache = {e}
      BY <2>2
    <3>2. Cardinality({e}) = 1
      BY FS_Singleton
    <3> QED BY <3>1, <3>2
  <2> QED BY <2>1, <2>2 DEF IInv, Served, CacheOK
<1>6. covered \in SUBSET Threads
  BY DEF IInv, Served, ReadsOK
<1>7. \A t \in Threads :
         \/ read[t] = Silent
         \/ read[t] \in [step : {"wait", "look"}, floor : Worlds]
         \/ read[t] \in [step : {"done"}, floor : Worlds, got : SUBSET Entry]
  <2>1. 0 .. known \subseteq Worlds
    BY Facts DEF Worlds
  <2> QED BY <2>1 DEF IInv, Served, ReadsOK, ReadOK
<1>8. \/ look = Free
      \/ look \in [by : Threads, step : LookSteps, before : Worlds,
                   lo : Worlds, hi : Worlds, tries : 0 .. (Attempts - 1)]
  BY DEF IInv, Served, LookOK
<1> QED BY <1>1, <1>2, <1>3, <1>4, <1>5, <1>6, <1>7, <1>8 DEF TypeOK

\* Whatever the number of handlers, keys and receipts: an attempt runs once and
\* is closed, and the barrier counts the threads that write (server.py, claims
\* of attempts and begin_mutation).
THEOREM ServerSafety == Spec => []Safety
<1>1. ASSUME IInv PROVE OneRunPerKey
  <2>1. PostsOK /\ OneOwner
    BY <1>1 DEF IInv, Served
  <2> QED BY <2>1, RunningIsRuns DEF OneOwner, OneRunPerKey, Runs
<1>2. ASSUME IInv PROVE AttemptsClose
  <2>1. PostsOK /\ Owned
    BY <1>2 DEF IInv, Served
  <2> QED BY <2>1, RunningIsRuns DEF Owned, AttemptsClose, InFlight
<1>3. IInv => Safety
  BY <1>1, <1>2, TypesHold DEF Safety, IInv
<1> QED BY <1>3, IInvAlways, PTL

\* A snapshot that a reader is given is one state of the wiki, however long its
\* build takes and whoever writes meanwhile (server.py, the stable build).
THEOREM SnapshotWhole == Spec => []SnapshotIsWhole
<1>1. IInv => SnapshotIsWhole
  BY DEF IInv, Served, ReadsOK, ReadOK, Whole, Silent, SnapshotIsWhole
<1> QED BY <1>1, IInvAlways, PTL

\* A client that was told of a write, by an answer or by a replay, finds it in
\* every snapshot it asks for afterwards (server.py, the cache and its barrier).
THEOREM ReadsItsWrites == Spec => []ReadYourWrites
<1>1. IInv => ReadYourWrites
  BY DEF IInv, Served, ReadsOK, ReadOK, Silent, ReadYourWrites
<1> QED BY <1>1, IInvAlways, PTL

\* A receipt that is complete is never rewritten while it is kept (server.py,
\* finish_attempt): a replay answers what was answered first.
THEOREM ReceiptsFinal == Spec => ReceiptIsFinal
<1> DEFINE Final == \A k \in Done \cap Done' : receipts'[k] = receipts[k]
<1>1. ASSUME IInv, [Next]_vars PROVE Final
  <2> USE <1>1
  <2>1. CASE UNCHANGED receipts
    BY <2>1
  <2>2. ASSUME NEW t \in Threads, Claim(t) PROVE Final
    <3>1. PICK gone \in SUBSET Done : Recall(t, Claimed \ gone) \/ Admit(t, Claimed \ gone)
      BY <2>2 DEF Claim
    <3>2. CASE Recall(t, Claimed \ gone)
      BY <3>2 DEF Recall, Only, Done, Claimed
    <3>3. CASE Admit(t, Claimed \ gone)
      <4>1. PICK room \in Room(Claimed \ gone) :
               \/ receipts' = [q \in room \cup {post[t].key} |->
                                 IF q = post[t].key
                                 THEN [input |-> post[t].input, done |-> FALSE, level |-> 0]
                                 ELSE receipts[q]]
               \/ receipts' = Only(room)
        BY <3>3 DEF Admit
      <4>2. CASE receipts' = Only(room)
        BY <4>2 DEF Only, Done, Claimed
      <4>3. CASE receipts' = [q \in room \cup {post[t].key} |->
                                IF q = post[t].key
                                THEN [input |-> post[t].input, done |-> FALSE, level |-> 0]
                                ELSE receipts[q]]
        BY <4>3 DEF Done, Claimed
      <4> QED BY <4>1, <4>2, <4>3
    <3> QED BY <3>1, <3>2, <3>3
  <2>3. ASSUME NEW k, NEW level \in Worlds, level <= world, Close(k, level), world' = world
        PROVE  Final
    BY <2>3, Closes, Facts DEF IInv, Served
  <2>4. ASSUME NEW t \in Threads, Finish(t) PROVE Final
    <3>1. ~At(t, "idle") /\ Close(post[t].key, post[t].level) /\ world' = world
      BY <2>4 DEF Finish, At
    <3> QED BY <2>3, <3>1, Busy
  <2>5. ASSUME NEW t \in Threads, AnswerAgain(t) PROVE Final
    <3>1. Close(post[t].key, 0) /\ world' = world /\ 0 \in Worlds /\ 0 <= world
      BY <2>5, Facts DEF AnswerAgain, Worlds
    <3> QED BY <2>3, <3>1
  <2>6. ASSUME NEW t \in Threads, Handle(t) PROVE Final
    BY <2>1, <2>2, <2>4, <2>5, <2>6
       DEF Handle, Begin, EndWork, Invalidate, EndMutation, WriteAnswer, ReadFirst, BeginRead, store
  <2>7. ASSUME Look PROVE Final
    BY <2>1, <2>7 DEF Look, Observe, BuildLow, BuildHigh, BuildFails, After, store
  <2> QED BY <2>1, <2>6, <2>7
     DEF Next, AskPost, WriteWorld, Refuse, AskRead, BeginRead, Enter, EndRead,
         OthersInvalidate, EditorWrites, vars, store
<1>2. IInv /\ [Next]_vars => [Final]_vars
  BY <1>1
<1> QED BY <1>2, IInvAlways, PTL DEF Spec, ReceiptIsFinal
===============================================================================
