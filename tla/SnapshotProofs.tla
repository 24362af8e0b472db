---------------------------- MODULE SnapshotProofs ----------------------------
(***************************************************************************)
(* For any number of publishers, readers, revisions and faults: what is    *)
(* active is complete, what is read stays, and no directory of a stranger  *)
(* is lost.                                                                *)
(*                                                                         *)
(* One process at a time works, the holder of the lease.  What it is about *)
(* to remove is not active: its own revision, because an exchange that is  *)
(* undone put back what was there; an old one, because the active pointer, *)
(* if it is one of the store, names the revision the holder works for.     *)
(*                                                                         *)
(* For any number of deaths and of strangers: a container of SnapshotStore *)
(* on its way out is attested.  Each step of the one that holds the lease  *)
(* knows what the container must have in it if it is still the container.  *)
(***************************************************************************)
EXTENDS SnapshotStore, SnapshotCleanup, TLAPS

USE StoreAssumption

ShelfOK ==
    /\ shelf \in Seq(Revisions)
    /\ \A i, j \in DOMAIN shelf : shelf[i] = shelf[j] => i = j
    /\ torn \in SUBSET (Revisions \ Whole)

EntriesOK ==
    /\ active \in Entry \cup {Absent}
    /\ leftover \in SUBSET Entry
    /\ kept \in SUBSET Strangers
    /\ faults \in 0 .. MaxFaults

LeaseOK ==
    /\ lease \in Processes \cup {Nobody}
    /\ DOMAIN proc = Processes
    /\ \A p \in Processes : \/ proc[p] = Resting /\ lease # p
                            \/ proc[p] \in Job /\ lease = p

ReadersOK ==
    /\ DOMAIN rd = Readers
    /\ \A x \in Readers : \/ rd[x] = Away
                          \/ rd[x] \in [step : {"ask", "read"}, rev : Revisions]
    /\ pulled \in SUBSET Readers

Owns(entry) == entry.kind = "own"
\* If the entry is a pointer of the store, it names this revision; another one.
Names(entry, r) == Owns(entry) => entry.rev = r
Spares(entry, r) == Owns(entry) => entry.rev # r

Exchanged == {"compare", "check", "restore"}
Committed == {"archive", "rank", "prune", "take"}

\* Where the holder is tells what is active, and what its container holds.
Stage(p) ==
    LET j == proc[p] IN
    /\ j.step \in {"pin", "reconcile", "install"} => j.box = Absent
    /\ j.step = "pin" => ~j.prunes
    /\ j.step = "reconcile" => (j.prunes => Names(active, j.rev))
    /\ j.step = "swap" => /\ j.box = Link(j.rev) /\ j.rev \in Whole
                          /\ j.created => Spares(active, j.rev)
    /\ j.step \in Exchanged => /\ Names(active, j.rev)
                               /\ Owns(j.box) => j.box.rev \in Whole
                               /\ j.created => Spares(j.box, j.rev)
    /\ j.step = "undo" => (j.created => Spares(active, j.rev))
    /\ j.step \in Committed => Names(active, j.rev)
    /\ j.step \in {"prune", "take"} => j.rev \notin j.victims
    /\ j.step = "take" => /\ j.victim # j.rev
                          /\ \A x \in Readers : ~Reading(x, j.victim)

HolderOK == \A p \in Processes : proc[p] # Resting => Stage(p)

IInv ==
    /\ ShelfOK /\ EntriesOK /\ LeaseOK /\ ReadersOK
    /\ ActiveIsWhole /\ HolderOK /\ LeaseHolds /\ DirectoriesKept

LEMMA KindsOfEntries ==
    /\ Absent.kind = "absent" /\ Flat.kind = "flat"
    /\ \A r : Link(r).kind = "own" /\ Link(r).rev = r
    /\ \A e \in Strangers : e.kind \in {"dir", "link"}
    /\ \A e \in Entry : Owns(e) => e.rev \in Revisions /\ e = Link(e.rev)
    /\ \A r \in Revisions : Link(r) \in Entry
    /\ Flat \in Entry /\ Strangers \subseteq Entry
  BY DEF Absent, Flat, Link, Strangers, Foreign, Entry, Owns

LEMMA InitIInv == Init => IInv
<1> SUFFICES ASSUME Init PROVE IInv
  OBVIOUS
<1>1. active \in Entry \cup {Absent} /\ ~Owns(active)
  BY KindsOfEntries DEF Init, Owns
<1>2. ShelfOK
  BY DEF Init, ShelfOK, Whole
<1>3. LeaseOK /\ HolderOK
  BY DEF Init, LeaseOK, HolderOK
<1> QED BY <1>1, <1>2, <1>3 DEF Init, IInv, EntriesOK, ReadersOK, ActiveIsWhole, LeaseHolds,
                              DirectoriesKept, Owns, Away

\* A revision taken from the shelf leaves the others on it, once each.
LEMMA WithoutOK ==
    ASSUME ShelfOK, NEW r
    PROVE  /\ Without(r) \in Seq(Revisions)
           /\ \A i, j \in DOMAIN Without(r) : Without(r)[i] = Without(r)[j] => i = j
           /\ {Without(r)[i] : i \in DOMAIN Without(r)} = Whole \ {r}
<1>1. CASE r \notin Whole
  BY <1>1 DEF Without, ShelfOK, Whole
<1>2. CASE r \in Whole
  <2> DEFINE k == Place(r)
             n == Len(shelf)
             pos(i) == IF i < k THEN i ELSE i + 1
             s == [i \in 1 .. n - 1 |-> shelf[pos(i)]]
  <2>1. n \in Nat /\ DOMAIN shelf = 1 .. n /\ \A i \in 1 .. n : shelf[i] \in Revisions
    BY DEF ShelfOK
  <2>2. k \in 1 .. n /\ shelf[k] = r
    BY <1>2, <2>1 DEF Place, Whole
  <2>3. Without(r) = s
    BY <1>2 DEF Without
  <2> HIDE DEF k, n
  <2>4. \A i \in 1 .. n - 1 : pos(i) \in 1 .. n /\ pos(i) # k
    BY <2>1, <2>2
  <2>5. \A i, j \in 1 .. n - 1 : pos(i) = pos(j) => i = j
    BY <2>1, <2>2
  <2>6. \A j \in 1 .. n : j # k => \E i \in 1 .. n - 1 : pos(i) = j
    <3> SUFFICES ASSUME NEW j \in 1 .. n, j # k
                 PROVE  \E i \in 1 .. n - 1 : pos(i) = j
      OBVIOUS
    <3>1. CASE j < k
      <4>1. j \in 1 .. n - 1 /\ pos(j) = j
        BY <2>1, <2>2, <3>1
      <4> QED BY <4>1
    <3>2. CASE j > k
      <4>1. j - 1 \in 1 .. n - 1 /\ pos(j - 1) = j
        BY <2>1, <2>2, <3>2
      <4> QED BY <4>1
    <3> QED BY <2>1, <2>2, <3>1, <3>2
  <2> HIDE DEF pos
  <2>7. s \in Seq(Revisions)
    BY <2>1, <2>4
  <2>8. DOMAIN s = 1 .. n - 1 /\ \A i \in 1 .. n - 1 : s[i] = shelf[pos(i)]
    OBVIOUS
  <2> HIDE DEF s
  <2>9. \A i, j \in DOMAIN s : s[i] = s[j] => i = j
    BY <2>1, <2>4, <2>5, <2>8 DEF ShelfOK
  <2>10. {s[i] : i \in DOMAIN s} = Whole \ {r}
    <3>1. \A i \in DOMAIN s : s[i] \in Whole /\ s[i] # r
      BY <2>1, <2>2, <2>4, <2>8 DEF ShelfOK, Whole
    <3>2. \A q \in Whole \ {r} : \E i \in DOMAIN s : s[i] = q
      BY <2>1, <2>2, <2>6, <2>8 DEF Whole
    <3> QED BY <3>1, <3>2
  <2> QED BY <2>3, <2>7, <2>9, <2>10
<1> QED BY <1>1, <1>2

LEMMA ShelvedOK ==
    ASSUME ShelfOK, NEW r \in Revisions, r \notin Whole \cup torn,
           shelf' = Append(shelf, r), torn' = torn
    PROVE  ShelfOK' /\ Whole' = Whole \cup {r}
<1>1. /\ shelf' \in Seq(Revisions) /\ Len(shelf) \in Nat
      /\ DOMAIN shelf = 1 .. Len(shelf) /\ DOMAIN shelf' = 1 .. Len(shelf) + 1
      /\ shelf'[Len(shelf) + 1] = r
      /\ \A i \in 1 .. Len(shelf) : shelf'[i] = shelf[i]
  BY DEF ShelfOK
<1>2. Whole' = Whole \cup {r}
  <2>1. \A i \in DOMAIN shelf' : shelf'[i] \in Whole \cup {r}
    BY <1>1 DEF Whole
  <2>2. \A q \in Whole \cup {r} : \E i \in DOMAIN shelf' : shelf'[i] = q
    BY <1>1 DEF Whole
  <2> QED BY <2>1, <2>2 DEF Whole
<1>3. \A i \in 1 .. Len(shelf) : shelf'[i] # r
  BY <1>1 DEF Whole
<1>4. \A i, j \in DOMAIN shelf' : shelf'[i] = shelf'[j] => i = j
  BY <1>1, <1>3 DEF ShelfOK
<1> QED BY <1>1, <1>2, <1>4 DEF ShelfOK

LEMMA TakenOK ==
    ASSUME ShelfOK, NEW r \in Revisions, shelf' = Without(r),
           torn' = torn \/ torn' = torn \cup {r}
    PROVE  ShelfOK' /\ Whole' = Whole \ {r}
<1>1. Whole' = Whole \ {r}
  BY WithoutOK, ZenonT(60) DEF Whole
<1> QED BY <1>1, WithoutOK DEF ShelfOK

LEMMA Holder ==
    ASSUME IInv, NEW p \in Processes, proc[p].step # "idle"
    PROVE  /\ proc[p] \in Job /\ proc[p] # Resting /\ lease = p /\ Stage(p)
           /\ \A q \in Processes \ {p} : proc[q] = Resting /\ lease # q
  BY DEF IInv, LeaseOK, HolderOK, Resting

\* A step of the holder: what it has, and where every directory of a stranger is.
LEMMA Stepped ==
    ASSUME IInv, NEW p \in Processes, proc[p].step # "idle",
           lease' = lease, DOMAIN proc' = Processes, proc'[p] \in Job,
           \A q \in Processes \ {p} : proc'[q] = proc[q],
           ShelfOK', EntriesOK', ReadersOK', ActiveIsWhole', LeaseHolds', Stage(p)',
           kept' = kept,
           \A e \in Strangers :
               (e = active \/ e \in leftover \/ e = proc[p].box) =>
                   (e = active' \/ e \in leftover' \/ e = proc'[p].box)
    PROVE  IInv'
<1>1. proc'[p] # Resting
  BY DEF Resting, Job, Steps
<1>2. LeaseOK' /\ HolderOK'
  BY Holder DEF IInv, LeaseOK, HolderOK
<1>3. DirectoriesKept'
  BY <1>1, Holder DEF IInv, DirectoriesKept, EntriesOK
<1> QED BY <1>2, <1>3 DEF IInv

LEMMA Released ==
    ASSUME IInv, NEW p \in Processes, proc[p].step # "idle", Release(p),
           ShelfOK', EntriesOK', ReadersOK', ActiveIsWhole', LeaseHolds', kept' = kept,
           \A e \in Strangers :
               e.kind # "link" /\ (e = active \/ e \in leftover \/ e = proc[p].box) =>
                   (e = active' \/ e \in leftover')
    PROVE  IInv'
<1>1. /\ lease' = Nobody /\ DOMAIN proc' = Processes
      /\ \A q \in Processes : proc'[q] = Resting
  BY Holder DEF Release, IInv, LeaseOK
<1>2. LeaseOK' /\ HolderOK'
  BY <1>1 DEF LeaseOK, HolderOK
<1>3. DirectoriesKept'
  BY Holder DEF IInv, DirectoriesKept, EntriesOK
<1> QED BY <1>2, <1>3 DEF IInv

\* Nothing in the store and nothing readers see changes.
LEMMA StoreKept ==
    ASSUME IInv, UNCHANGED <<active, shelf, torn, leftover, rd, history>>
    PROVE  ShelfOK' /\ EntriesOK' /\ ReadersOK' /\ ActiveIsWhole' /\ LeaseHolds'
           /\ Whole' = Whole /\ UNCHANGED kept
  BY DEF IInv, ShelfOK, EntriesOK, ReadersOK, ActiveIsWhole, LeaseHolds, Whole, history

LEMMA BeginKeeps ==
    ASSUME IInv, NEW p \in Processes,
           BeginPrune(p) \/ \E r \in Revisions : BeginPublish(p, r)
    PROVE  IInv'
<1>1. PICK step \in {"pin", "reconcile"}, r \in Revisions :
          /\ MayWork(p) /\ Start(p, step, r)
          /\ step = "reconcile" => Owns(active) /\ active.rev = r
  BY DEF BeginPrune, BeginPublish, IInv, ActiveIsWhole, ShelfOK, Whole, Owns
<1>2. /\ lease = Nobody /\ lease' = p
      /\ UNCHANGED <<active, shelf, torn, leftover, rd, history>>
  BY <1>1 DEF MayWork, Start, files
<1>3. \A q \in Processes : proc[q] = Resting
  BY <1>2 DEF IInv, LeaseOK
<1>4. /\ DOMAIN proc' = Processes
      /\ proc'[p] = [step |-> step, rev |-> r, linked |-> active.kind = "own",
                     expected |-> Absent, box |-> Absent, created |-> FALSE,
                     prunes |-> step # "pin", victims |-> {}, victim |-> r]
      /\ \A q \in Processes \ {p} : proc'[q] = Resting
  BY <1>1, <1>3 DEF Start, IInv, LeaseOK
<1>5. proc'[p] \in Job
  BY <1>4 DEF Job, Steps
<1>6. Stage(p)'
  <2>1. /\ proc'[p].step = step /\ proc'[p].box = Absent /\ proc'[p].rev = r
    BY <1>4
  <2>3. proc'[p].prunes = (step # "pin")
    BY <1>4
  <2>2. step = "reconcile" => Names(active', r)
    BY <1>1, <1>2 DEF Names, Owns
  <2> QED BY <2>1, <2>2, <2>3 DEF Stage, Exchanged, Committed, Names, Owns
<1>7. LeaseOK' /\ HolderOK'
  BY <1>2, <1>4, <1>5, <1>6 DEF LeaseOK, HolderOK
<1>8. DirectoriesKept'
  BY <1>2, <1>3 DEF IInv, DirectoriesKept, history
<1> QED BY <1>2, <1>7, <1>8, StoreKept DEF IInv

\* The holder moves, and what it has read or taken down may change.
LEMMA Goes ==
    ASSUME IInv, NEW p \in Processes, proc[p].step # "idle", NEW job \in Job,
           proc' = [proc EXCEPT ![p] = job]
    PROVE  /\ DOMAIN proc' = Processes /\ proc'[p] = job
           /\ \A q \in Processes \ {p} : proc'[q] = proc[q]
  BY DEF IInv, LeaseOK

LEMMA GoIs ==
    ASSUME NEW p \in Processes, NEW step, Go(p, step)
    PROVE  proc' = [proc EXCEPT ![p] = [proc[p] EXCEPT !.step = step]]
  BY DEF Go

LEMMA PinKeeps == \A p \in Processes : IInv /\ Pin(p) => IInv'
<1> SUFFICES ASSUME NEW p \in Processes, IInv, Pin(p) PROVE IInv'
  OBVIOUS
<1>1. /\ proc[p].step = "pin" /\ proc[p].step # "idle"
      /\ UNCHANGED <<active, shelf, torn, leftover, rd, history>>
  BY DEF Pin, At, files
<1>2. proc[p] \in Job /\ proc[p].box = Absent /\ ~proc[p].prunes
  BY <1>1, Holder DEF Stage
<1>3. CASE Release(p)
  <2>1. \A e \in Strangers : e # proc[p].box
    BY <1>2, KindsOfEntries
  <2> QED BY <1>1, <1>3, <2>1, StoreKept, Released
<1>4. CASE /\ proc' = [proc EXCEPT ![p].expected = active, ![p].step = "reconcile"]
           /\ UNCHANGED lease
  <2> DEFINE job == [proc[p] EXCEPT !.expected = active, !.step = "reconcile"]
  <2>1. proc' = [proc EXCEPT ![p] = job]
    BY <1>4
  <2>2. active \in Entry \cup {Absent}
    BY DEF IInv, EntriesOK
  <2>3. job \in Job /\ job.step = "reconcile" /\ job.box = Absent /\ ~job.prunes
    BY <1>2, <2>2 DEF Job, Steps
  <2> HIDE DEF job
  <2>4. /\ DOMAIN proc' = Processes /\ proc'[p] = job
        /\ \A q \in Processes \ {p} : proc'[q] = proc[q]
    BY <1>1, <2>1, <2>3, Goes
  <2>5. Stage(p)'
    BY <2>3, <2>4 DEF Stage, Exchanged, Committed
  <2> QED BY <1>1, <1>2, <1>4, <2>3, <2>4, <2>5, StoreKept, Stepped
<1> QED BY <1>3, <1>4 DEF Pin

\* What an archive adds to the shelf.
LEMMA ArchivedOK ==
    ASSUME ShelfOK, NEW entries, Archived(entries)
    PROVE  ShelfOK' /\ Whole \subseteq Whole'
<1>1. CASE shelf' = shelf /\ torn' = torn
  BY <1>1 DEF ShelfOK, Whole
<1>2. CASE FlatRev \notin Whole \cup torn /\ shelf' = Append(shelf, FlatRev) /\ torn' = torn
  BY <1>2, ShelvedOK
<1> QED BY <1>1, <1>2 DEF Archived

\* More revisions and the same pointer.
LEMMA MoreShelved ==
    ASSUME IInv, Whole \subseteq Whole', active' = active, rd' = rd, pulled' = pulled
    PROVE  ReadersOK' /\ ActiveIsWhole' /\ LeaseHolds'
  BY DEF IInv, ReadersOK, ActiveIsWhole, LeaseHolds

LEMMA ReconcileKeeps == \A p \in Processes : IInv /\ Reconcile(p) => IInv'
<1> SUFFICES ASSUME NEW p \in Processes, IInv, Reconcile(p) PROVE IInv'
  OBVIOUS
<1>1. /\ proc[p].step = "reconcile" /\ proc[p].step # "idle"
      /\ UNCHANGED <<active, lease, rd, pulled, kept, faults>>
  BY DEF Reconcile, At, history
<1>2. /\ proc[p] \in Job /\ proc[p].box = Absent
      /\ proc[p].prunes => Names(active, proc[p].rev)
  BY <1>1, Holder DEF Stage
<1>3. ShelfOK' /\ Whole \subseteq Whole'
  BY ArchivedOK DEF Reconcile, IInv
<1>4. EntriesOK'
  BY <1>1 DEF Reconcile, IInv, EntriesOK
<1>5. ReadersOK' /\ ActiveIsWhole' /\ LeaseHolds'
  BY <1>1, <1>3, MoreShelved
<1>6. PICK step \in {"rank", "install"} :
          /\ Go(p, step) /\ (step = "rank" => proc[p].prunes)
  BY DEF Reconcile
<1> DEFINE job == [proc[p] EXCEPT !.step = step]
<1>7. proc' = [proc EXCEPT ![p] = job]
  BY <1>6, GoIs
<1>8. job \in Job /\ job.step = step /\ job.box = Absent /\ job.rev = proc[p].rev
  BY <1>2, <1>6 DEF Job, Steps
<1> HIDE DEF job
<1>9. /\ DOMAIN proc' = Processes /\ proc'[p] = job
      /\ \A q \in Processes \ {p} : proc'[q] = proc[q]
  BY <1>1, <1>7, <1>8, Goes
<1>10. Stage(p)'
  <2>1. step = "rank" => Names(active', job.rev)
    BY <1>1, <1>2, <1>6, <1>8
  <2> QED BY <1>6, <1>8, <1>9, <2>1 DEF Stage, Exchanged, Committed, Names, Owns
<1>11. \A e \in Strangers : e \in leftover => e \in leftover'
  BY KindsOfEntries DEF Reconcile, Recovered
<1> QED BY <1>1, <1>2, <1>3, <1>4, <1>5, <1>8, <1>9, <1>10, <1>11, Stepped

LEMMA InstallKeeps == \A p \in Processes : IInv /\ Install(p) => IInv'
<1> SUFFICES ASSUME NEW p \in Processes, IInv, Install(p) PROVE IInv'
  OBVIOUS
<1> DEFINE r == proc[p].rev
<1>1. /\ proc[p].step = "install" /\ proc[p].step # "idle"
      /\ UNCHANGED <<active, torn, leftover, rd, history>>
  BY DEF Install, At
<1>2. proc[p] \in Job /\ proc[p].box = Absent /\ r \in Revisions
  BY <1>1, Holder DEF Stage, Job
<1>3. \A e \in Strangers : e # proc[p].box
  BY <1>2, KindsOfEntries
<1>4. CASE Release(p) /\ UNCHANGED shelf
  BY <1>1, <1>3, <1>4, StoreKept, Released
<1>5. CASE /\ r \notin torn
           /\ shelf' = IF r \in Whole THEN shelf ELSE Append(shelf, r)
           /\ proc' = [proc EXCEPT ![p].created = r \notin Whole, ![p].box = Link(r),
                                   ![p].step = "swap"]
           /\ UNCHANGED lease
  <2>1. ShelfOK' /\ Whole' = Whole \cup {r}
    <3>1. CASE r \in Whole
      BY <1>1, <1>5, <3>1, ZenonT(60) DEF IInv, ShelfOK, Whole
    <3>2. CASE r \notin Whole
      BY <1>1, <1>2, <1>5, <3>2, ShelvedOK DEF IInv
    <3> QED BY <3>1, <3>2
  <2>2. ReadersOK' /\ ActiveIsWhole' /\ LeaseHolds' /\ EntriesOK'
    BY <1>1, <2>1, MoreShelved DEF history, IInv, EntriesOK
  <2> DEFINE job == [proc[p] EXCEPT !.created = (r \notin Whole), !.box = Link(r),
                                    !.step = "swap"]
  <2>3. proc' = [proc EXCEPT ![p] = job]
    BY <1>5
  <2>4. Link(r) \in Entry
    BY <1>2, KindsOfEntries
  <2>5. job \in Job /\ job.step = "swap" /\ job.box = Link(r) /\ job.rev = r
    BY <1>2, <2>4 DEF Job, Steps
  <2>6. job.created => r \notin Whole
    BY <1>2 DEF Job
  <2> HIDE DEF job
  <2>7. /\ DOMAIN proc' = Processes /\ proc'[p] = job
        /\ \A q \in Processes \ {p} : proc'[q] = proc[q]
    BY <1>1, <2>3, <2>5, Goes
  <2>8. Stage(p)'
    <3>1. job.created => Spares(active', r)
      BY <1>1, <2>6 DEF IInv, ActiveIsWhole, Spares, Owns
    <3> QED BY <2>1, <2>5, <2>7, <3>1 DEF Stage, Exchanged, Committed
  <2> QED BY <1>1, <1>3, <1>5, <2>1, <2>2, <2>5, <2>7, <2>8, Stepped DEF history
<1> QED BY <1>4, <1>5 DEF Install

\* The holder only moves: nothing else changes.
LEMMA OnlyGoes ==
    ASSUME IInv, NEW p \in Processes, proc[p].step # "idle", NEW job \in Job,
           proc' = [proc EXCEPT ![p] = job], job.box = proc[p].box,
           UNCHANGED <<active, shelf, torn, leftover, lease, rd, history>>,
           DOMAIN proc' = Processes /\ proc'[p] = job => Stage(p)'
    PROVE  IInv'
  BY Goes, StoreKept, Stepped

\* The exchange: what the holder has is active, what was active is in its container.
LEMMA ExchangeKeeps ==
    ASSUME IInv, NEW p \in Processes, proc[p].step # "idle", NEW step \in Steps,
           Exchange(p, step), UNCHANGED <<shelf, torn, lease, leftover, rd, history>>,
           Owns(proc[p].box) => proc[p].box.rev \in Whole,
           proc[p].step = "swap" \/ proc[p].step = "restore",
           ASSUME proc'[p] = [proc[p] EXCEPT !.box = active, !.step = step]
           PROVE  Stage(p)'
    PROVE  IInv'
<1> DEFINE job == [proc[p] EXCEPT !.box = active, !.step = step]
<1>1. proc[p] \in Job /\ active \in Entry \cup {Absent}
  BY Holder DEF IInv, EntriesOK
<1>2. proc' = [proc EXCEPT ![p] = job] /\ active' = proc[p].box
  BY DEF Exchange
<1>3. job \in Job /\ job.box = active /\ proc[p].box \in Entry \cup {Absent}
  BY <1>1 DEF Job
<1> HIDE DEF job
<1>4. /\ DOMAIN proc' = Processes /\ proc'[p] = job
      /\ \A q \in Processes \ {p} : proc'[q] = proc[q]
  BY <1>2, <1>3, Goes
<1>5. Stage(p)'
  BY <1>4 DEF job
<1>6. Whole' = Whole /\ ShelfOK'
  BY DEF IInv, ShelfOK, Whole
<1>7. EntriesOK' /\ ReadersOK' /\ LeaseHolds' /\ ActiveIsWhole'
  BY <1>2, <1>3, <1>6 DEF IInv, EntriesOK, ReadersOK, LeaseHolds, ActiveIsWhole, Owns, history
<1> QED BY <1>2, <1>3, <1>4, <1>5, <1>6, <1>7, Stepped DEF history

LEMMA SwapKeeps == \A p \in Processes : IInv /\ Swap(p) => IInv'
<1> SUFFICES ASSUME NEW p \in Processes, IInv, Swap(p) PROVE IInv'
  OBVIOUS
<1> DEFINE r == proc[p].rev
<1>1. /\ proc[p].step = "swap" /\ proc[p].step # "idle"
      /\ UNCHANGED <<shelf, torn, lease, leftover, rd, history>>
  BY DEF Swap, At
<1>2. /\ proc[p] \in Job /\ r \in Revisions /\ proc[p].box = Link(r) /\ r \in Whole
      /\ proc[p].created => Spares(active, r)
  BY <1>1, Holder DEF Stage, Job
<1>3. Owns(Link(r)) /\ Link(r).rev = r
  BY KindsOfEntries DEF Owns
<1>4. CASE Go(p, "undo") /\ UNCHANGED active
  <2> DEFINE job == [proc[p] EXCEPT !.step = "undo"]
  <2>1. proc' = [proc EXCEPT ![p] = job]
    BY <1>4, GoIs
  <2>2. /\ job \in Job /\ job.step = "undo" /\ job.box = proc[p].box /\ job.rev = r
        /\ job.created = proc[p].created
    BY <1>2 DEF Job, Steps
  <2> HIDE DEF job
  <2>3. proc'[p] = job => Stage(p)'
    BY <1>2, <1>4, <2>2 DEF Stage, Exchanged, Committed
  <2> QED BY <1>1, <1>4, <2>1, <2>2, <2>3, OnlyGoes
<1>5. CASE Exchange(p, IF active = Absent THEN "rank" ELSE "compare")
  <2> DEFINE step == IF active = Absent THEN "rank" ELSE "compare"
  <2>1. step \in Steps /\ step \in {"rank", "compare"}
    BY DEF Steps
  <2>2. ASSUME proc'[p] = [proc[p] EXCEPT !.box = active, !.step = step]
        PROVE  Stage(p)'
    <3>1. /\ proc'[p].step = step /\ proc'[p].box = active /\ proc'[p].rev = r
          /\ proc'[p].created = proc[p].created
      BY <1>2, <2>2 DEF Job
    <3>2. Names(active', r)
      BY <1>2, <1>3, <1>5 DEF Exchange, Names
    <3>3. Owns(active) => active.rev \in Whole'
      BY <1>1 DEF IInv, ActiveIsWhole, Owns, Whole
    <3> QED BY <1>2, <2>1, <3>1, <3>2, <3>3 DEF Stage, Exchanged, Committed
  <2> HIDE DEF step
  <2>3. Exchange(p, step)
    BY <1>5 DEF step
  <2> QED BY <1>1, <1>2, <1>3, <2>1, <2>2, <2>3, ExchangeKeeps
<1> QED BY <1>4, <1>5 DEF Swap

LEMMA CompareKeeps == \A p \in Processes : IInv /\ (Compare(p) \/ Check(p)) => IInv'
<1> SUFFICES ASSUME NEW p \in Processes, IInv, Compare(p) \/ Check(p) PROVE IInv'
  OBVIOUS
<1> DEFINE r == proc[p].rev
<1>1. /\ proc[p].step \in {"compare", "check"} /\ proc[p].step # "idle"
      /\ UNCHANGED <<active, shelf, torn, leftover, lease, rd, history>>
  BY DEF Compare, Check, At, files
<1>2. /\ proc[p] \in Job /\ Names(active, r)
      /\ Owns(proc[p].box) => proc[p].box.rev \in Whole
      /\ proc[p].created => Spares(proc[p].box, r)
  BY <1>1, Holder DEF Stage, Exchanged
<1>3. PICK step \in {"check", "rank", "archive", "restore", "undo"} :
          /\ Go(p, step)
          /\ step = "undo" => active # Link(r)
  BY DEF Compare, Check
<1> DEFINE job == [proc[p] EXCEPT !.step = step]
<1>4. proc' = [proc EXCEPT ![p] = job]
  BY <1>3, GoIs
<1>5. /\ job \in Job /\ job.step = step /\ job.box = proc[p].box /\ job.rev = r
      /\ job.created = proc[p].created
  BY <1>2, <1>3 DEF Job, Steps
<1> HIDE DEF job
<1>6. proc'[p] = job => Stage(p)'
  <2>1. step = "undo" => Spares(active, r)
    BY <1>2, <1>3, KindsOfEntries DEF IInv, EntriesOK, Names, Spares, Owns
  <2>2. Whole' = Whole
    BY <1>1 DEF Whole
  <2> QED BY <1>1, <1>2, <1>3, <1>5, <2>1, <2>2 DEF Stage, Exchanged, Committed
<1> QED BY <1>1, <1>4, <1>5, <1>6, OnlyGoes

LEMMA RestoreKeeps == \A p \in Processes : IInv /\ Restore(p) => IInv'
<1> SUFFICES ASSUME NEW p \in Processes, IInv, Restore(p) PROVE IInv'
  OBVIOUS
<1> DEFINE r == proc[p].rev
<1>1. /\ proc[p].step = "restore" /\ proc[p].step # "idle"
      /\ UNCHANGED <<shelf, torn, lease, leftover, rd, history>>
  BY DEF Restore, At
<1>2. /\ proc[p] \in Job /\ Names(active, r)
      /\ Owns(proc[p].box) => proc[p].box.rev \in Whole
      /\ proc[p].created => Spares(proc[p].box, r)
  BY <1>1, Holder DEF Stage, Exchanged
<1>3. CASE active = Absent /\ Go(p, "undo") /\ UNCHANGED active
  <2> DEFINE job == [proc[p] EXCEPT !.step = "undo"]
  <2>1. proc' = [proc EXCEPT ![p] = job]
    BY <1>3, GoIs
  <2>2. job \in Job /\ job.step = "undo" /\ job.box = proc[p].box
    BY <1>2 DEF Job, Steps
  <2> HIDE DEF job
  <2>3. proc'[p] = job => Stage(p)'
    BY <1>3, <2>2, KindsOfEntries DEF Stage, Exchanged, Committed, Spares, Owns
  <2> QED BY <1>1, <1>3, <2>1, <2>2, <2>3, OnlyGoes
<1>4. CASE Exchange(p, "undo")
  <2>1. ASSUME proc'[p] = [proc[p] EXCEPT !.box = active, !.step = "undo"]
        PROVE  Stage(p)'
    <3>1. /\ proc'[p].step = "undo" /\ proc'[p].rev = r
          /\ proc'[p].created = proc[p].created
      BY <1>2, <2>1 DEF Job
    <3>2. proc[p].created => Spares(active', r)
      BY <1>2, <1>4 DEF Exchange
    <3> QED BY <3>1, <3>2 DEF Stage, Exchanged, Committed
  <2>2. "undo" \in Steps
    BY DEF Steps
  <2> QED BY <1>1, <1>2, <1>4, <2>1, <2>2, ExchangeKeeps
<1> QED BY <1>3, <1>4 DEF Restore

LEMMA UndoKeeps == \A p \in Processes : IInv /\ (Undo(p) \/ Removed(p)) => IInv'
<1> SUFFICES ASSUME NEW p \in Processes, IInv, Undo(p) \/ Removed(p) PROVE IInv'
  OBVIOUS
<1> DEFINE r == proc[p].rev
<1>1. /\ proc[p].step \in {"undo", "remove"} /\ proc[p].step # "idle"
      /\ UNCHANGED <<active, leftover, lease, rd, kept, faults>>
  BY DEF Undo, Removed, At, history
<1>2. /\ proc[p] \in Job /\ r \in Revisions
      /\ proc[p].step = "undo" => (proc[p].created => Spares(active, r))
  BY <1>1, Holder DEF Stage, Job
<1>3. PICK step \in {"remove", "finish"} : Go(p, step)
  BY DEF Undo, Removed
<1> DEFINE job == [proc[p] EXCEPT !.step = step]
<1>4. proc' = [proc EXCEPT ![p] = job]
  BY <1>3, GoIs
<1>5. job \in Job /\ job.step = step /\ job.box = proc[p].box
  BY <1>2, <1>3 DEF Job, Steps
<1> HIDE DEF job
<1>6. /\ DOMAIN proc' = Processes /\ proc'[p] = job
      /\ \A q \in Processes \ {p} : proc'[q] = proc[q]
  BY <1>1, <1>4, <1>5, Goes
<1>7. Stage(p)'
  BY <1>3, <1>5, <1>6 DEF Stage, Exchanged, Committed
<1>8. CASE /\ Undo(p) /\ proc[p].created
           /\ shelf' = Without(r) /\ torn' = torn \cup {r}
           /\ pulled' = pulled \cup {x \in Readers : Reading(x, r)}
  <2>1. ShelfOK' /\ Whole' = Whole \ {r}
    BY <1>2, <1>8, TakenOK DEF IInv
  <2>2. ActiveIsWhole'
    BY <1>1, <1>2, <1>8, <2>1 DEF IInv, ActiveIsWhole, Spares, Owns, Undo, At
  <2>3. LeaseHolds' /\ ReadersOK' /\ EntriesOK'
    BY <1>1, <1>8, <2>1 DEF IInv, LeaseHolds, Reading, ReadersOK, EntriesOK
  <2> QED BY <1>1, <1>5, <1>6, <1>7, <2>1, <2>2, <2>3, Stepped
<1>9. CASE shelf' = shelf /\ pulled' = pulled /\ torn' \in {torn, torn \ {r}}
  <2>1. ShelfOK' /\ Whole' = Whole
    BY <1>9 DEF IInv, ShelfOK, Whole
  <2>2. ActiveIsWhole' /\ LeaseHolds' /\ ReadersOK' /\ EntriesOK'
    BY <1>1, <1>9, <2>1, MoreShelved DEF IInv, EntriesOK
  <2> QED BY <1>1, <1>5, <1>6, <1>7, <2>1, <2>2, Stepped
<1> QED BY <1>8, <1>9 DEF Undo, Removed, history

LEMMA ArchiveKeeps == \A p \in Processes : IInv /\ Archive(p) => IInv'
<1> SUFFICES ASSUME NEW p \in Processes, IInv, Archive(p) PROVE IInv'
  OBVIOUS
<1> DEFINE box == proc[p].box
           job == [proc[p] EXCEPT !.step = "rank",
                       !.box = IF Recovered({box}) = {} THEN box ELSE Absent]
<1>1. /\ proc[p].step = "archive" /\ proc[p].step # "idle"
      /\ UNCHANGED <<active, lease, leftover, rd, pulled, kept, faults>>
      /\ Archived({box}) /\ proc' = [proc EXCEPT ![p] = job]
  BY DEF Archive, At, history
<1>2. proc[p] \in Job /\ box \in Entry \cup {Absent} /\ Names(active, proc[p].rev)
  BY <1>1, Holder DEF Stage, Job, Committed
<1>3. job \in Job /\ job.step = "rank" /\ job.rev = proc[p].rev
      /\ job.box = IF Recovered({box}) = {} THEN box ELSE Absent
  BY <1>2 DEF Job, Steps
<1> HIDE DEF job
<1>4. /\ DOMAIN proc' = Processes /\ proc'[p] = job
      /\ \A q \in Processes \ {p} : proc'[q] = proc[q]
  BY <1>1, <1>3, Goes
<1>5. ShelfOK' /\ Whole \subseteq Whole'
  BY <1>1, ArchivedOK DEF IInv
<1>6. ActiveIsWhole' /\ LeaseHolds' /\ ReadersOK' /\ EntriesOK'
  BY <1>1, <1>5, MoreShelved DEF IInv, EntriesOK
<1>7. Stage(p)'
  BY <1>1, <1>2, <1>3, <1>4 DEF Stage, Exchanged, Committed, Names
<1>8. \A e \in Strangers : e = box => e = job.box
  BY <1>3, KindsOfEntries DEF Recovered
<1> QED BY <1>1, <1>3, <1>4, <1>5, <1>6, <1>7, <1>8, Stepped

LEMMA RankKeeps == \A p \in Processes : IInv /\ Rank(p) => IInv'
<1> SUFFICES ASSUME NEW p \in Processes, IInv, Rank(p) PROVE IInv'
  OBVIOUS
<1> DEFINE r == proc[p].rev
           job == [proc[p] EXCEPT !.victims = Oldest(r), !.expected = Absent,
                       !.created = FALSE, !.linked = FALSE, !.step = "prune"]
<1>1. /\ proc[p].step = "rank" /\ proc[p].step # "idle"
      /\ UNCHANGED <<active, shelf, torn, leftover, lease, rd, history>>
      /\ proc' = [proc EXCEPT ![p] = job]
  BY DEF Rank, At, files
<1>2. proc[p] \in Job /\ Names(active, r)
  BY <1>1, Holder DEF Stage, Committed
<1>3. Oldest(r) \subseteq Revisions /\ r \notin Oldest(r)
  <2>1. Whole \subseteq Revisions
    BY DEF IInv, ShelfOK, Whole
  <2>2. \A i \in DOMAIN Without(r) : Without(r)[i] \in Whole \ {r}
    BY WithoutOK DEF IInv
  <2> QED BY <2>1, <2>2 DEF Oldest
<1>4. job \in Job /\ job.step = "prune" /\ job.box = proc[p].box /\ job.rev = r
      /\ job.victims = Oldest(r)
  BY <1>2, <1>3 DEF Job, Steps
<1> HIDE DEF job
<1>5. proc'[p] = job => Stage(p)'
  BY <1>1, <1>2, <1>3, <1>4 DEF Stage, Exchanged, Committed, Names
<1> QED BY <1>1, <1>4, <1>5, OnlyGoes

LEMMA LockVictimKeeps ==
    \A p \in Processes, v \in Revisions : IInv /\ LockVictim(p, v) => IInv'
<1> SUFFICES ASSUME NEW p \in Processes, NEW v \in Revisions, IInv, LockVictim(p, v)
             PROVE  IInv'
  OBVIOUS
<1> DEFINE r == proc[p].rev
<1>1. /\ proc[p].step = "prune" /\ proc[p].step # "idle"
      /\ UNCHANGED <<active, shelf, torn, leftover, lease, rd, history>>
      /\ v \in proc[p].victims
  BY DEF LockVictim, At, files
<1>2. proc[p] \in Job /\ Names(active, r) /\ r \notin proc[p].victims
  BY <1>1, Holder DEF Stage, Committed
<1>3. CASE Leased(v)
  <2> DEFINE job == [proc[p] EXCEPT !.victims = @ \ {v}]
  <2>1. proc' = [proc EXCEPT ![p] = job]
    BY <1>3 DEF LockVictim
  <2>2. job \in Job /\ job.step = "prune" /\ job.box = proc[p].box /\ job.rev = r
        /\ job.victims = proc[p].victims \ {v}
    BY <1>1, <1>2 DEF Job
  <2> HIDE DEF job
  <2>3. proc'[p] = job => Stage(p)'
    BY <1>1, <1>2, <2>2 DEF Stage, Exchanged, Committed, Names
  <2> QED BY <1>1, <2>1, <2>2, <2>3, OnlyGoes
<1>4. CASE ~Leased(v)
  <2> DEFINE job == [proc[p] EXCEPT !.victims = @ \ {v}, !.victim = v, !.step = "take"]
  <2>1. proc' = [proc EXCEPT ![p] = job]
    BY <1>4 DEF LockVictim
  <2>2. job \in Job /\ job.step = "take" /\ job.box = proc[p].box /\ job.rev = r
        /\ job.victims = proc[p].victims \ {v} /\ job.victim = v
    BY <1>2 DEF Job, Steps
  <2> HIDE DEF job
  <2>3. proc'[p] = job => Stage(p)'
    <3>1. \A x \in Readers : ~Reading(x, v)'
      BY <1>1, <1>4 DEF Leased, Reading
    <3>2. v # r
      BY <1>1, <1>2
    <3>3. Names(active', r)
      BY <1>1, <1>2
    <3> QED BY <1>2, <2>2, <3>1, <3>2, <3>3 DEF Stage, Exchanged, Committed, Reading
  <2> QED BY <1>1, <2>1, <2>2, <2>3, OnlyGoes
<1> QED BY <1>3, <1>4

LEMMA TakeVictimKeeps == \A p \in Processes : IInv /\ TakeVictim(p) => IInv'
<1> SUFFICES ASSUME NEW p \in Processes, IInv, TakeVictim(p) PROVE IInv'
  OBVIOUS
<1> DEFINE r == proc[p].rev
           v == proc[p].victim
           job == [proc[p] EXCEPT !.victim = r, !.step = "prune"]
<1>1. /\ proc[p].step = "take" /\ proc[p].step # "idle"
      /\ UNCHANGED <<active, torn, leftover, lease, rd, history>>
      /\ shelf' = Without(v) /\ proc' = [proc EXCEPT ![p] = job]
  BY DEF TakeVictim, At
<1>2. /\ proc[p] \in Job /\ Names(active, r) /\ r \notin proc[p].victims
      /\ v # r /\ v \in Revisions /\ \A x \in Readers : ~Reading(x, v)
  BY <1>1, Holder DEF Stage, Committed, Job
<1>3. job \in Job /\ job.step = "prune" /\ job.box = proc[p].box /\ job.rev = r
      /\ job.victims = proc[p].victims
  BY <1>2 DEF Job, Steps
<1> HIDE DEF job
<1>4. /\ DOMAIN proc' = Processes /\ proc'[p] = job
      /\ \A q \in Processes \ {p} : proc'[q] = proc[q]
  BY <1>1, <1>3, Goes
<1>5. ShelfOK' /\ Whole' = Whole \ {v}
  BY <1>1, <1>2, TakenOK DEF IInv
<1>6. ActiveIsWhole'
  BY <1>1, <1>2, <1>5 DEF IInv, ActiveIsWhole, Names, Owns
<1>7. LeaseHolds' /\ ReadersOK' /\ EntriesOK'
  BY <1>1, <1>2, <1>5 DEF IInv, LeaseHolds, Reading, ReadersOK, EntriesOK, history
<1>8. Stage(p)'
  BY <1>1, <1>2, <1>3, <1>4 DEF Stage, Exchanged, Committed, Names
<1> QED BY <1>1, <1>3, <1>4, <1>5, <1>6, <1>7, <1>8, Stepped DEF history

LEMMA EndKeeps == \A p \in Processes : IInv /\ (Finish(p) \/ Crash(p)) => IInv'
<1> SUFFICES ASSUME NEW p \in Processes, IInv, Finish(p) \/ Crash(p) PROVE IInv'
  OBVIOUS
<1>1. /\ proc[p].step # "idle" /\ Release(p)
      /\ UNCHANGED <<active, shelf, torn, rd, pulled, kept>>
  BY DEF Finish, Crash, At, history
<1>2. proc[p] \in Job /\ proc[p].box \in Entry \cup {Absent}
  BY <1>1, Holder DEF Job
<1>3. /\ leftover \subseteq leftover'
      /\ leftover' \subseteq leftover \cup {proc[p].box}
      /\ Absent \notin leftover'
      /\ proc[p].box.kind \in {"dir", "flat"} => proc[p].box \in leftover'
  <2>1. Absent \notin leftover
    BY KindsOfEntries DEF IInv, EntriesOK, Entry, Strangers, Foreign, Link, Flat, Absent
  <2> QED BY <2>1, KindsOfEntries DEF Finish, Crash, Kept
<1>4. EntriesOK'
  BY <1>1, <1>2, <1>3 DEF IInv, EntriesOK, Finish, Crash, history
<1>5. ShelfOK' /\ Whole' = Whole
  BY <1>1 DEF IInv, ShelfOK, Whole
<1>6. ReadersOK' /\ ActiveIsWhole' /\ LeaseHolds'
  BY <1>1, <1>5, MoreShelved
<1>7. \A e \in Strangers :
          e.kind # "link" /\ (e \in leftover \/ e = proc[p].box) => e \in leftover'
  BY <1>3, KindsOfEntries
<1> QED BY <1>1, <1>4, <1>5, <1>6, <1>7, Released

LEMMA ReaderKeeps ==
    \A x \in Readers : IInv /\ (Resolve(x) \/ Ask(x) \/ EndRead(x)) => IInv'
<1> SUFFICES ASSUME NEW x \in Readers, IInv, Resolve(x) \/ Ask(x) \/ EndRead(x) PROVE IInv'
  OBVIOUS
<1>1. UNCHANGED <<active, shelf, torn, leftover, lease, proc, kept, faults>>
  BY DEF Resolve, Ask, EndRead, files, history
<1>2. ShelfOK' /\ EntriesOK' /\ LeaseOK' /\ ActiveIsWhole' /\ DirectoriesKept' /\ Whole' = Whole
  BY <1>1 DEF IInv, ShelfOK, EntriesOK, LeaseOK, ActiveIsWhole, DirectoriesKept, Whole
<1>3. /\ DOMAIN rd' = Readers /\ \A y \in Readers \ {x} : rd'[y] = rd[y]
  BY DEF IInv, ReadersOK, Resolve, Ask, EndRead
<1>4. /\ pulled' = pulled \/ (rd'[x] = Away /\ pulled' = pulled \ {x})
      /\ \/ rd'[x] = Away
         \/ /\ rd'[x] \in [step : {"ask", "read"}, rev : Revisions]
            /\ rd'[x].step = "read" => /\ rd'[x].rev \in Whole
                                       /\ ~Locked(rd'[x].rev)
  <2>1. CASE Resolve(x)
    <3>1. rd'[x] = [step |-> "ask", rev |-> active.rev] /\ active.rev \in Revisions
          /\ pulled' = pulled
      BY <2>1 DEF Resolve, IInv, ReadersOK, ActiveIsWhole, ShelfOK, Whole, history
    <3> QED BY <3>1
  <2>2. CASE Ask(x)
    <3>1. rd[x] \in [step : {"ask", "read"}, rev : Revisions] /\ pulled' = pulled
      BY <2>2 DEF Ask, IInv, ReadersOK, Away, history
    <3>2. CASE rd[x].rev \in Whole
      <4>1. rd'[x] = [rd[x] EXCEPT !.step = "read"]
        BY <2>2, <3>2 DEF Ask, IInv, ReadersOK
      <4>2. /\ rd'[x] \in [step : {"ask", "read"}, rev : Revisions]
            /\ rd'[x].rev = rd[x].rev
        BY <3>1, <4>1
      <4> QED BY <2>2, <3>1, <3>2, <4>2 DEF Ask
    <3>3. CASE rd[x].rev \notin Whole
      BY <2>2, <3>1, <3>3 DEF Ask, IInv, ReadersOK
    <3> QED BY <3>2, <3>3
  <2>3. CASE EndRead(x)
    BY <2>3 DEF EndRead, IInv, ReadersOK
  <2> QED BY <2>1, <2>2, <2>3
<1>5. ReadersOK'
  BY <1>3, <1>4 DEF IInv, ReadersOK
<1>6. LeaseHolds'
  BY <1>2, <1>3, <1>4 DEF IInv, LeaseHolds, Away
<1>7. HolderOK'
  <2> SUFFICES ASSUME NEW p \in Processes, proc[p] # Resting PROVE Stage(p)'
    BY <1>1 DEF HolderOK
  <2>1. Stage(p)
    BY DEF IInv, HolderOK
  <2>2. proc[p].step = "take" => \A y \in Readers : ~Reading(y, proc[p].victim)'
    BY <1>1, <1>3, <1>4, <2>1 DEF Stage, Reading, Locked, At, Away
  <2> QED BY <1>1, <1>2, <2>1, <2>2 DEF Stage, Names, Spares, Owns, Reading
<1> QED BY <1>2, <1>5, <1>6, <1>7 DEF IInv

\* Strangers put nothing that looks like a pointer of the store.
LEMMA StrangerKeeps ==
    ASSUME IInv, StrangerRemoves \/ \E kind \in Kinds : StrangerPuts(kind)
    PROVE  IInv'
<1>1. /\ UNCHANGED <<shelf, torn, leftover, lease, proc, rd, pulled>>
      /\ faults' \in 0 .. MaxFaults
  BY DEF StrangerRemoves, StrangerPuts, IInv, EntriesOK
<1>2. /\ active' \in Strangers \cup {Absent}
      /\ kept' \subseteq (kept \ {active}) \cup ({active'} \cap Strangers)
      /\ kept' \subseteq Strangers
  <2>1. CASE StrangerRemoves
    BY <2>1 DEF StrangerRemoves, IInv, EntriesOK
  <2>2. ASSUME NEW kind \in Kinds, StrangerPuts(kind)
        PROVE  /\ active' \in Strangers /\ kept' = (kept \ {active}) \cup {active'}
    <3>1. faults + 1 \in 1 .. MaxFaults
      BY <2>2 DEF StrangerPuts, IInv, EntriesOK
    <3> QED BY <2>2, <3>1 DEF StrangerPuts, Strangers
  <2> QED BY <2>1, <2>2 DEF IInv, EntriesOK
<1>3. ~Owns(active') /\ active' \in Entry \cup {Absent}
  BY <1>2, KindsOfEntries DEF Owns
<1>4. EntriesOK'
  BY <1>1, <1>2, <1>3 DEF IInv, EntriesOK
<1>5. ShelfOK' /\ LeaseOK' /\ ReadersOK' /\ ActiveIsWhole' /\ LeaseHolds' /\ Whole' = Whole
  BY <1>1, <1>3 DEF IInv, ShelfOK, LeaseOK, ReadersOK, ActiveIsWhole, LeaseHolds, Whole, Owns
<1>6. HolderOK'
  <2> SUFFICES ASSUME NEW p \in Processes, proc[p] # Resting PROVE Stage(p)'
    BY <1>1 DEF HolderOK
  <2>1. Stage(p)
    BY DEF IInv, HolderOK
  <2> QED BY <1>1, <1>3, <1>5, <2>1 DEF Stage, Names, Spares, Owns, Reading
<1>7. DirectoriesKept'
  BY <1>1, <1>2 DEF IInv, DirectoriesKept
<1> QED BY <1>4, <1>5, <1>6, <1>7 DEF IInv

LEMMA NextIInv == IInv /\ [Next]_vars => IInv'
<1> SUFFICES ASSUME IInv, [Next]_vars PROVE IInv'
  OBVIOUS
<1>1. CASE UNCHANGED vars
  BY <1>1 DEF vars, files, history, IInv, ShelfOK, EntriesOK, LeaseOK, ReadersOK, ActiveIsWhole,
              HolderOK, Stage, Names, Spares, Owns, Reading, LeaseHolds, DirectoriesKept, Whole
<1>2. ASSUME NEW p \in Processes, Work(p)
      PROVE  IInv'
  BY <1>2, PinKeeps, ReconcileKeeps, InstallKeeps, SwapKeeps, CompareKeeps, RestoreKeeps,
     UndoKeeps, ArchiveKeeps, RankKeeps, TakeVictimKeeps, EndKeeps, LockVictimKeeps DEF Work
<1>3. ASSUME NEW p \in Processes,
             BeginPrune(p) \/ Crash(p) \/ \E r \in Revisions : BeginPublish(p, r)
      PROVE  IInv'
  BY <1>3, BeginKeeps, EndKeeps
<1>4. ASSUME NEW x \in Readers, Resolve(x) \/ Load(x)
      PROVE  IInv'
  BY <1>4, ReaderKeeps DEF Load
<1>5. CASE (\E kind \in Kinds : StrangerPuts(kind)) \/ StrangerRemoves
  BY <1>5, StrangerKeeps
<1> QED BY <1>1, <1>2, <1>3, <1>4, <1>5 DEF Next

LEMMA Invariance == Spec => []IInv
  BY InitIInv, NextIInv, PTL DEF Spec

\* Whatever publishers, prunes, deaths and strangers do, an active pointer of the
\* store names a complete revision.
THEOREM StoreSafety == Spec => []Safety
<1>1. ASSUME IInv
      PROVE  TypeOK
  <2>1. Whole \subseteq Revisions
    BY <1>1 DEF IInv, ShelfOK, Whole
  <2> QED BY <1>1, <2>1 DEF IInv, ShelfOK, EntriesOK, LeaseOK, ReadersOK, TypeOK
<1>2. IInv => Safety
  BY <1>1 DEF IInv, Safety
<1> QED BY <1>2, Invariance, PTL

\* No prune takes a revision from under a reader's lease.
THEOREM LeasesHold == Spec => []LeaseHolds
<1>1. IInv => LeaseHolds
  BY DEF IInv
<1> QED BY <1>1, Invariance, PTL

\* Exchange, restore, death and reconciliation lose no directory of a stranger.
THEOREM KeepsDirectories == Spec => []DirectoriesKept
<1>1. IInv => DirectoriesKept
  BY DEF IInv
<1> QED BY <1>1, Invariance, PTL

-------------------------------------------------------------------------------
(* SnapshotCleanup: the activation container.                              *)

\* What the step at hand knows of the container, if it is still there.
Drafted == Here.ino = Own =>
    CASE pc = "draft" -> Here.has = {"marker"}
      [] pc = "declare" -> Here.has = {"marker", "temp"}
      [] pc = "tidy" -> Here.has = {"marker", "temp", "intent"}
      [] pc \in {"pin", "rename"} -> Here.has = {"marker", "intent"}
      [] OTHER -> TRUE

\* No directory is put where a new one would be taken for it.
Settled ==
    /\ Here.ino <= swaps + 1 /\ There.ino <= swaps + 1
    /\ pc = "make" => Here = None /\ There = None
    /\ pc \in {"mark", "candidate", "activation"} => Here.ino = Own /\ There = None

\* The receipt stands while the directory it is bound to loses its files, and
\* goes when no directory is left to lose any.
Bound ==
    /\ pc \in {"unintent", "unmark", "rmdir"} => told = receipt
    /\ pc = "forget" => There = None

CleanupInv == CleanupTypeOK /\ NeverUnattested /\ Drafted /\ Settled /\ Bound

-------------------------------------------------------------------------------
(* The operations on the two paths.                                        *)

LEMMA PutHere ==
    ASSUME at \in [Paths -> Directory \cup {None}], NEW d \in Directory \cup {None},
           Put("activate", d)
    PROVE  at' \in [Paths -> Directory \cup {None}] /\ Here' = d /\ There' = There
  BY DEF Put, Paths, Here, There

LEMMA PutThere ==
    ASSUME at \in [Paths -> Directory \cup {None}], NEW d \in Directory \cup {None},
           Put("cleanup", d)
    PROVE  at' \in [Paths -> Directory \cup {None}] /\ There' = d /\ Here' = Here
  BY DEF Put, Paths, Here, There

LEMMA PutBoth ==
    ASSUME at \in [Paths -> Directory \cup {None}], NEW d \in Directory \cup {None},
           NEW e \in Directory \cup {None},
           at' = [at EXCEPT !["activate"] = d, !["cleanup"] = e]
    PROVE  at' \in [Paths -> Directory \cup {None}] /\ Here' = d /\ There' = e
  BY DEF Paths, Here, There

\* A directory that keeps its inode.
LEMMA Refilled ==
    ASSUME NEW d \in Directory, NEW has \in SUBSET Contents
    PROVE  /\ [d EXCEPT !.has = has] \in Directory
           /\ [d EXCEPT !.has = has].ino = d.ino /\ [d EXCEPT !.has = has].has = has
  BY DEF Directory

LEMMA AddHere ==
    ASSUME at \in [Paths -> Directory \cup {None}], Here \in Directory,
           NEW x \in Contents, Add("activate", x)
    PROVE  /\ at' \in [Paths -> Directory \cup {None}] /\ There' = There
           /\ Here'.ino = Here.ino /\ Here'.has = Here.has \cup {x}
<1> DEFINE d == [Here EXCEPT !.has = Here.has \cup {x}]
<1>1. Here.has \cup {x} \in SUBSET Contents
  BY DEF Directory
<1>2. d \in Directory /\ d.ino = Here.ino /\ d.has = Here.has \cup {x}
  BY <1>1, Refilled
<1>3. at' = [at EXCEPT !["activate"] = d]
  BY DEF Add, Here
<1> HIDE DEF d
<1> QED BY <1>2, <1>3, PutHere DEF Put

\* Dropping a file leaves a directory, or nothing, where it is.
LEMMA DropKeeps ==
    ASSUME at \in [Paths -> Directory \cup {None}], NEW path \in Paths,
           NEW x, Drop(path, x)
    PROVE  /\ at' \in [Paths -> Directory \cup {None}]
           /\ \A p \in Paths : /\ at'[p].ino = at[p].ino
                               /\ at'[p].has = IF p = path THEN at[p].has \ {x}
                                               ELSE at[p].has
<1> DEFINE d == [at[path] EXCEPT !.has = at[path].has \ {x}]
<1>1. d \in Directory \cup {None} /\ d.ino = at[path].ino /\ d.has = at[path].has \ {x}
  <2>1. CASE at[path] \in Directory
    <3>1. at[path].has \ {x} \in SUBSET Contents
      BY <2>1 DEF Directory
    <3> QED BY <2>1, <3>1, Refilled
  <2>2. CASE at[path] = None
    BY <2>2 DEF None
  <2> QED BY <2>1, <2>2
<1>2. at' = [at EXCEPT ![path] = d]
  BY DEF Drop
<1> HIDE DEF d
<1> QED BY <1>1, <1>2

\* Nothing has no inode, and a directory has one.
LEMMA InodeTells ==
    ASSUME NEW d \in Directory \cup {None}
    PROVE  /\ d = None <=> d.ino = 0
           /\ d # None => d \in Directory /\ d.ino \in Inodes /\ d.has \in SUBSET Contents
           /\ d.ino \in Nat /\ (d.ino = Own => d \in Directory)
  BY CleanupAssumption DEF Directory, None, Inodes, Own, CleanupAssumption

-------------------------------------------------------------------------------
(* The steps.                                                              *)

LEMMA Where ==
    ASSUME CleanupInv
    PROVE  /\ at \in [Paths -> Directory \cup {None}]
           /\ Here \in Directory \cup {None} /\ There \in Directory \cup {None}
           /\ Here.ino = There.ino => Here = None
           /\ Here.ino \in Nat /\ There.ino \in Nat /\ swaps \in Nat
<1>1. at \in [Paths -> Directory \cup {None}] /\ swaps \in Nat
      /\ (Here.ino = There.ino => Here = None)
  BY CleanupAssumption DEF CleanupInv, CleanupTypeOK, CleanupAssumption
<1>2. Here \in Directory \cup {None} /\ There \in Directory \cup {None}
  BY <1>1 DEF Here, There, Paths
<1> QED BY <1>1, <1>2, InodeTells

\* A step that leaves directories and receipt alone.
LEMMA SameDirectories ==
    ASSUME CleanupInv, UNCHANGED <<at, receipt, swaps>>, pc' \in CleanupSteps,
           pc' \notin {"make", "mark", "candidate", "activation"},
           pinned' \in Inodes \cup {0}, told' \in Inodes \cup {0},
           deaths' \in 0 .. MaxDeaths, Drafted', Bound'
    PROVE  CleanupInv'
  BY DEF CleanupInv, CleanupTypeOK, NeverUnattested, Settled, Here, There

LEMMA StillTyped ==
    ASSUME CleanupInv, Still
    PROVE  /\ UNCHANGED <<receipt, swaps>>
           /\ pinned' \in Inodes \cup {0} /\ told' \in Inodes \cup {0}
           /\ deaths' \in 0 .. MaxDeaths /\ told' = told
  BY DEF CleanupInv, CleanupTypeOK, Still

\* The next step knows nothing.
LEMMA ToRest ==
    ASSUME CleanupInv, UNCHANGED at, Still, pc' = "rest"
    PROVE  CleanupInv'
<1>1. Drafted' /\ Bound' /\ pc' \in CleanupSteps
  BY DEF Drafted, Bound, CleanupSteps
<1> QED BY <1>1, StillTyped, SameDirectories

LEMMA PublishKeeps ==
    ASSUME CleanupInv, Publish
    PROVE  CleanupInv'
<1>1. Still /\ pc \in CleanupSteps
  BY DEF Publish, Make, Mark, Candidate, Activation, ArchiveTree, Unlink, CleanupInv,
         CleanupTypeOK
<1>2. CASE Make
  <2> DEFINE d == [ino |-> Own, has |-> {}]
  <2>1. d \in Directory /\ d.ino = Own
    BY CleanupAssumption DEF Directory, Own, Inodes, CleanupAssumption
  <2>2. Put("activate", d) /\ pc = "make" /\ pc' = "mark"
    BY <1>2 DEF Make, Becomes
  <2> HIDE DEF d
  <2>3. at' \in [Paths -> Directory \cup {None}] /\ Here' = d /\ There' = There
    BY <2>1, <2>2, Where, PutHere
  <2>4. There = None /\ None.ino = 0
    BY <2>2 DEF CleanupInv, Settled, None
  <2>5. CleanupTypeOK'
    BY <1>1, <2>1, <2>2, <2>3, <2>4, StillTyped DEF CleanupInv, CleanupTypeOK, CleanupSteps, Own
  <2>6. NeverUnattested' /\ Drafted' /\ Settled' /\ Bound'
    BY <1>1, <2>1, <2>2, <2>3, <2>4, StillTyped, Where
       DEF NeverUnattested, Drafted, Settled, Bound, Own
  <2> QED BY <2>5, <2>6 DEF CleanupInv
<1>3. ASSUME NEW x \in Contents, Add("activate", x), Here.ino = Own, There = None,
             pc' \in {"candidate", "activation", "archive"}
      PROVE  CleanupInv'
  <2>1. at' \in [Paths -> Directory \cup {None}] /\ Here'.ino = Own /\ There' = None
    BY <1>3, Where, InodeTells, AddHere
  <2>2. CleanupTypeOK'
    BY <1>1, <1>3, <2>1, StillTyped DEF CleanupInv, CleanupTypeOK, CleanupSteps, Own, None
  <2>3. NeverUnattested' /\ Drafted' /\ Settled' /\ Bound'
    BY <1>1, <1>3, <2>1, StillTyped, Where
       DEF NeverUnattested, Drafted, Settled, Bound, Own, None
  <2> QED BY <2>2, <2>3 DEF CleanupInv
<1>4. CASE Mark \/ Candidate
  BY <1>3, <1>4 DEF Mark, Candidate, Becomes, Contents, CleanupInv, Settled
<1>5. ASSUME NEW x, Drop("activate", x), pc' \in {"archive", "unlink", "inspect", "rest"}
      PROVE  CleanupInv'
  <2>1. at' \in [Paths -> Directory \cup {None}] /\ Here'.ino = Here.ino
        /\ There'.ino = There.ino /\ There'.has = There.has
    BY <1>5, Where, DropKeeps DEF Here, There, Paths
  <2>2. Here' \in Directory \cup {None} /\ (Here' = None <=> Here = None)
    <3>1. Here' \in Directory \cup {None}
      BY <2>1 DEF Here, Paths
    <3> QED BY <2>1, <3>1, Where, InodeTells
  <2>3. CleanupTypeOK'
    BY <1>1, <1>5, <2>1, <2>2, StillTyped DEF CleanupInv, CleanupTypeOK, CleanupSteps
  <2>4. NeverUnattested' /\ Drafted' /\ Settled' /\ Bound'
    BY <1>1, <1>5, <2>1, StillTyped
       DEF CleanupInv, NeverUnattested, Drafted, Settled, Bound
  <2> QED BY <2>3, <2>4 DEF CleanupInv
<1>6. CASE Activation
  <2>1. Here.ino = Own /\ There = None /\ pc' = "archive" /\ Here \in Directory
    BY <1>6, Where, InodeTells DEF Activation, Becomes, CleanupInv, Settled
  <2>2. CASE Drop("activate", "link")
    BY <1>5, <2>1, <2>2
  <2>3. CASE UNCHANGED at
    <3>1. Drafted' /\ Bound' /\ pc' \in CleanupSteps
      BY <2>1 DEF Drafted, Bound, CleanupSteps
    <3> QED BY <1>1, <2>1, <2>3, <3>1, StillTyped, SameDirectories
  <2>4. ASSUME NEW x \in {"tree", "data"},
               at' = [at EXCEPT !["activate"].has = (@ \ {"link"}) \cup {x}]
        PROVE  CleanupInv'
    <3> DEFINE d == [Here EXCEPT !.has = (Here.has \ {"link"}) \cup {x}]
    <3>1. (Here.has \ {"link"}) \cup {x} \in SUBSET Contents
      BY <2>1 DEF Directory, Contents
    <3>2. d \in Directory /\ d.ino = Own
      BY <2>1, <3>1, Refilled
    <3>3. Put("activate", d)
      BY <2>4 DEF Put, Here
    <3> HIDE DEF d
    <3>4. at' \in [Paths -> Directory \cup {None}] /\ Here'.ino = Own /\ There' = None
      BY <2>1, <3>2, <3>3, Where, PutHere
    <3>5. CleanupTypeOK'
      BY <1>1, <2>1, <3>4, StillTyped DEF CleanupInv, CleanupTypeOK, CleanupSteps, Own, None
    <3>6. NeverUnattested' /\ Drafted' /\ Settled' /\ Bound'
      BY <1>1, <2>1, <3>4, StillTyped, Where
         DEF NeverUnattested, Drafted, Settled, Bound, Own, None
    <3> QED BY <3>5, <3>6 DEF CleanupInv
  <2> QED BY <1>6, <2>2, <2>3, <2>4 DEF Activation
<1>7. CASE ArchiveTree \/ Unlink
  BY <1>5, <1>7 DEF ArchiveTree, Unlink, Becomes
<1> QED BY <1>2, <1>4, <1>6, <1>7 DEF Publish

LEMMA InspectKeeps ==
    ASSUME CleanupInv, Inspect
    PROVE  CleanupInv'
<1>1. UNCHANGED at /\ Still /\ pc' \in {"pin", "draft", "rest"}
      /\ (pc' = "pin" => Plain(Here) /\ Intent(Here))
      /\ (pc' = "draft" => Plain(Here) /\ ~Intent(Here)
                           /\ ("intent" \in Here.has => Intent(Here)))
  BY DEF Inspect, Becomes
<1>2. Drafted'
  BY <1>1 DEF Drafted, Plain, Owned, Intent, Here
<1>3. Bound' /\ pc' \in CleanupSteps
  BY <1>1 DEF Bound, CleanupSteps
<1> QED BY <1>1, <1>2, <1>3, StillTyped, SameDirectories

\* The draft of an intent, which grows in the container at its first path.
LEMMA DraftKeeps ==
    ASSUME CleanupInv, Draft \/ Declare \/ TidyDraft
    PROVE  CleanupInv'
<1>1. Still /\ pc' \in {"declare", "tidy", "pin"}
  BY DEF Draft, Declare, TidyDraft, Becomes
<1>2. /\ at' \in [Paths -> Directory \cup {None}]
      /\ Here'.ino = Here.ino /\ There'.ino = There.ino /\ There'.has = There.has
      /\ Drafted'
  <2>1. ASSUME NEW x \in Contents, Add("activate", x), Here \in Directory
        PROVE  /\ at' \in [Paths -> Directory \cup {None}] /\ There' = There
               /\ Here'.ino = Here.ino /\ Here'.has = Here.has \cup {x}
    BY <2>1, Where, AddHere
  <2>2. CASE Draft
    <3>1. pc = "draft" /\ pc' = "declare" /\ Add("activate", "temp") /\ Here \in Directory
      BY <2>2, Where, InodeTells DEF Draft, Becomes
    <3>2. /\ at' \in [Paths -> Directory \cup {None}] /\ There' = There
          /\ Here'.ino = Here.ino /\ Here'.has = Here.has \cup {"temp"}
      BY <2>1, <3>1 DEF Contents
    <3>3. Drafted'
      BY <3>1, <3>2 DEF CleanupInv, Drafted
    <3> QED BY <3>2, <3>3
  <2>3. CASE Declare
    <3>1. pc = "declare" /\ pc' = "tidy" /\ Add("activate", "intent") /\ Here \in Directory
      BY <2>3, Where, InodeTells DEF Declare, Becomes, None
    <3>2. /\ at' \in [Paths -> Directory \cup {None}] /\ There' = There
          /\ Here'.ino = Here.ino /\ Here'.has = Here.has \cup {"intent"}
      BY <2>1, <3>1 DEF Contents
    <3>3. Drafted'
      BY <3>1, <3>2 DEF CleanupInv, Drafted
    <3> QED BY <3>2, <3>3
  <2>4. CASE TidyDraft
    <3>1. at' \in [Paths -> Directory \cup {None}] /\ Here'.ino = Here.ino
          /\ Here'.has = Here.has \ {"temp"}
          /\ There'.ino = There.ino /\ There'.has = There.has
      BY <2>4, Where, DropKeeps DEF TidyDraft, Here, There, Paths
    <3>2. Drafted'
      BY <2>4, <3>1 DEF CleanupInv, Drafted, TidyDraft, Becomes
    <3> QED BY <3>1, <3>2
  <2> QED BY <2>2, <2>3, <2>4
<1>3. Here' \in Directory \cup {None} /\ (Here' = None <=> Here = None)
  <2>1. Here' \in Directory \cup {None}
    BY <1>2 DEF Here, Paths
  <2> QED BY <1>2, <2>1, Where, InodeTells
<1>4. CleanupTypeOK'
  BY <1>1, <1>2, <1>3, StillTyped DEF CleanupInv, CleanupTypeOK, CleanupSteps
<1>5. NeverUnattested' /\ Settled' /\ Bound'
  BY <1>1, <1>2, StillTyped DEF CleanupInv, NeverUnattested, Settled, Bound
<1> QED BY <1>2, <1>4, <1>5 DEF CleanupInv

LEMMA PinContainerKeeps ==
    ASSUME CleanupInv, PinContainer
    PROVE  CleanupInv'
<1>1. UNCHANGED <<at, receipt, told, deaths, swaps>> /\ pc = "pin" /\ pc' = "rename"
      /\ pinned' = Here.ino /\ Here # None
  BY DEF PinContainer, Becomes
<1>2. pinned' \in Inodes \cup {0}
  BY <1>1, Where, InodeTells
<1>3. Drafted'
  BY <1>1 DEF CleanupInv, Drafted, Here
<1>4. Bound' /\ pc' \in CleanupSteps
  BY <1>1 DEF Bound, CleanupSteps
<1> QED BY <1>1, <1>2, <1>3, <1>4, SameDirectories DEF CleanupInv, CleanupTypeOK

\* Only a container with marker and intent gets to the cleanup path.
LEMMA RenameKeeps ==
    ASSUME CleanupInv, Rename
    PROVE  CleanupInv'
<1>1. Still /\ pc = "rename"
  BY DEF Rename
<1>2. CASE /\ Here # None /\ There = None /\ pc' = "verify"
           /\ at' = [at EXCEPT !["activate"] = None, !["cleanup"] = Here]
  <2>1. at' \in [Paths -> Directory \cup {None}] /\ Here' = None /\ There' = Here
    BY <1>2, Where, PutBoth
  <2>2. CleanupTypeOK'
    BY <1>1, <1>2, <2>1, StillTyped DEF CleanupInv, CleanupTypeOK, CleanupSteps
  <2>3. NeverUnattested'
    BY <1>1, <2>1 DEF CleanupInv, Drafted, NeverUnattested
  <2>4. Drafted' /\ Settled' /\ Bound'
    BY <1>1, <1>2, <2>1, StillTyped, Where
       DEF CleanupInv, Drafted, Settled, Bound, None, Own
  <2> QED BY <2>2, <2>3, <2>4 DEF CleanupInv
<1>3. CASE UNCHANGED at /\ pc' = "rest"
  BY <1>1, <1>3, ToRest
<1> QED BY <1>2, <1>3 DEF Rename, Becomes

LEMMA VerifyKeeps ==
    ASSUME CleanupInv, Verify
    PROVE  CleanupInv'
<1>1. Still /\ pc = "verify"
  BY DEF Verify
<1>2. CASE UNCHANGED at /\ pc' \in {"attest", "rest"}
  <2>1. Drafted' /\ Bound' /\ pc' \in CleanupSteps
    BY <1>2 DEF Drafted, Bound, CleanupSteps
  <2> QED BY <1>1, <1>2, <2>1, StillTyped, SameDirectories
<1>3. CASE /\ There # None /\ Here = None /\ pc' = "rest"
           /\ at' = [at EXCEPT !["activate"] = There, !["cleanup"] = None]
  <2>1. at' \in [Paths -> Directory \cup {None}] /\ Here' = There /\ There' = None
    BY <1>3, Where, PutBoth
  <2>2. There.ino # 0
    BY <1>3, Where, InodeTells
  <2>3. CleanupTypeOK'
    BY <1>1, <1>3, <2>1, <2>2, StillTyped DEF CleanupInv, CleanupTypeOK, CleanupSteps, None
  <2>4. NeverUnattested' /\ Drafted' /\ Settled' /\ Bound'
    BY <1>1, <1>3, <2>1, StillTyped, Where
       DEF CleanupInv, NeverUnattested, Drafted, Settled, Bound, None, Own
  <2> QED BY <2>3, <2>4 DEF CleanupInv
<1> QED BY <1>2, <1>3 DEF Verify, Becomes

\* The receipt is bound to what is there, or to nothing new.
LEMMA AttestKeeps ==
    ASSUME CleanupInv, Attest
    PROVE  CleanupInv'
<1>1. UNCHANGED <<at, pinned, told, deaths, swaps>> /\ pc' \in {"remove", "rest"}
      /\ There # None
      /\ (receipt' = receipt \/ (receipt = 0 /\ receipt' = There.ino))
  BY DEF Attest, Becomes
<1>2. CleanupTypeOK'
  BY <1>1, Where, InodeTells DEF CleanupInv, CleanupTypeOK, CleanupSteps, Here, There
<1>3. NeverUnattested'
  BY <1>1 DEF CleanupInv, NeverUnattested, There, Own
<1>4. Drafted' /\ Settled' /\ Bound'
  BY <1>1, Where DEF CleanupInv, Drafted, Settled, Bound, Here, There
<1> QED BY <1>2, <1>3, <1>4 DEF CleanupInv

LEMMA RemoveKeeps ==
    ASSUME CleanupInv, NEW marker, NEW intent, Remove(marker, intent)
    PROVE  CleanupInv'
<1>1. UNCHANGED <<at, receipt, pinned, deaths, swaps>> /\ told' = receipt
      /\ pc' \in {"unintent", "rest"}
  BY DEF Remove, Becomes
<1>2. Drafted' /\ Bound' /\ pc' \in CleanupSteps
  BY <1>1 DEF Drafted, Bound, CleanupSteps
<1> QED BY <1>1, <1>2, SameDirectories DEF CleanupInv, CleanupTypeOK

\* What loses its marker or its intent has the receipt the process works with.
LEMMA UnmarkKeeps ==
    ASSUME CleanupInv, NEW step \in {"unintent", "unmark"}, NEW x,
           NEW next \in {"unmark", "rmdir"}, Unmark(step, x, next)
    PROVE  CleanupInv'
<1>1. Still /\ pc = step /\ told = receipt
  BY DEF Unmark, CleanupInv, Bound
<1>2. CASE There.ino = told /\ Drop("cleanup", x) /\ pc' = next
  <2>1. /\ at' \in [Paths -> Directory \cup {None}] /\ There'.ino = There.ino
        /\ Here'.ino = Here.ino /\ Here'.has = Here.has
    BY <1>2, Where, DropKeeps DEF Here, There, Paths
  <2>2. Here' \in Directory \cup {None} /\ (Here' = None <=> Here = None)
    <3>1. Here' \in Directory \cup {None}
      BY <2>1 DEF Here, Paths
    <3> QED BY <2>1, <3>1, Where, InodeTells
  <2>3. CleanupTypeOK'
    BY <1>1, <1>2, <2>1, <2>2, StillTyped DEF CleanupInv, CleanupTypeOK, CleanupSteps
  <2>4. NeverUnattested' /\ Drafted' /\ Settled' /\ Bound'
    BY <1>1, <1>2, <2>1, StillTyped, Where DEF CleanupInv, NeverUnattested, Drafted, Settled, Bound
  <2> QED BY <2>3, <2>4 DEF CleanupInv
<1>3. CASE UNCHANGED at /\ pc' = "rest"
  BY <1>1, <1>3, ToRest
<1> QED BY <1>2, <1>3 DEF Unmark, Becomes

LEMMA RemoveDirectoryKeeps ==
    ASSUME CleanupInv, RemoveDirectory
    PROVE  CleanupInv'
<1>1. Still /\ pc = "rmdir"
  BY DEF RemoveDirectory
<1>2. CASE Put("cleanup", None) /\ pc' = "forget"
  <2>1. at' \in [Paths -> Directory \cup {None}] /\ There' = None /\ Here' = Here
    BY <1>2, Where, PutThere
  <2>2. CleanupTypeOK'
    BY <1>1, <1>2, <2>1, StillTyped, Where, InodeTells
       DEF CleanupInv, CleanupTypeOK, CleanupSteps, None
  <2>3. NeverUnattested' /\ Drafted' /\ Settled' /\ Bound'
    BY <1>1, <1>2, <2>1, StillTyped, Where
       DEF CleanupInv, NeverUnattested, Drafted, Settled, Bound, None, Own
  <2> QED BY <2>2, <2>3 DEF CleanupInv
<1>3. CASE UNCHANGED at /\ pc' = "rest"
  BY <1>1, <1>3, ToRest
<1> QED BY <1>2, <1>3 DEF RemoveDirectory, Becomes

LEMMA RemoveReceiptKeeps ==
    ASSUME CleanupInv, RemoveReceipt
    PROVE  CleanupInv'
<1>1. receipt' = 0 /\ pc' = "rest" /\ There = None
      /\ UNCHANGED <<at, pinned, told, deaths, swaps>>
  BY DEF RemoveReceipt, Becomes, CleanupInv, Bound
<1>2. CleanupTypeOK'
  BY <1>1 DEF CleanupInv, CleanupTypeOK, CleanupSteps, Here, There
<1>3. NeverUnattested' /\ Drafted' /\ Settled' /\ Bound'
  BY <1>1 DEF CleanupInv, NeverUnattested, Drafted, Settled, Bound, Here, There, None, Own
<1> QED BY <1>2, <1>3 DEF CleanupInv

LEMMA ReconcileLeftoversKeeps ==
    ASSUME CleanupInv, ReconcileLeftovers
    PROVE  CleanupInv'
<1>1. ASSUME UNCHANGED at, Still, pc' \in {"inspect", "archive", "attest"} PROVE CleanupInv'
  <2>1. Drafted' /\ Bound' /\ pc' \in CleanupSteps
    BY <1>1 DEF Drafted, Bound, CleanupSteps
  <2> QED BY <1>1, <2>1, StillTyped, SameDirectories
<1>2. CASE ReconcileContainer
  BY <1>1, <1>2 DEF ReconcileContainer, Becomes
<1>3. CASE ReconcileTombstone
  BY <1>1, <1>3, RemoveKeeps DEF ReconcileTombstone, Becomes, Still
<1>4. CASE ReconcileReceipt
  <2>1. UNCHANGED at /\ Still /\ pc' = "forget" /\ There = None
    BY <1>4 DEF ReconcileReceipt, Becomes
  <2>2. Drafted' /\ Bound' /\ pc' \in CleanupSteps
    BY <2>1 DEF Drafted, Bound, CleanupSteps, There
  <2> QED BY <2>1, <2>2, StillTyped, SameDirectories
<1> QED BY <1>2, <1>3, <1>4 DEF ReconcileLeftovers

LEMMA DieKeeps ==
    ASSUME CleanupInv, Die
    PROVE  CleanupInv'
<1>1. deaths < MaxDeaths /\ deaths' = deaths + 1 /\ pc' = "rest"
      /\ UNCHANGED <<at, receipt, pinned, told, swaps>>
  BY DEF Die, Becomes
<1>2. deaths' \in 0 .. MaxDeaths
  BY <1>1, CleanupAssumption DEF CleanupInv, CleanupTypeOK, CleanupAssumption
<1>3. Drafted' /\ Bound' /\ pc' \in CleanupSteps
  BY <1>1 DEF Drafted, Bound, CleanupSteps
<1> QED BY <1>1, <1>2, <1>3, SameDirectories DEF CleanupInv, CleanupTypeOK

\* A stranger's directory has an inode of its own, and stands where one stood.
LEMMA SwapDirectoryKeeps ==
    ASSUME CleanupInv, NEW path \in Paths, NEW has \in {{}, {"data"}},
           SwapDirectory(path, has)
    PROVE  CleanupInv'
<1> DEFINE d == [ino |-> swaps + 2, has |-> has]
<1>1. /\ Put(path, d) /\ at[path] # None /\ swaps < MaxSwaps /\ swaps' = swaps + 1
      /\ pc \notin {"make", "mark", "candidate", "activation", "archive", "unlink"}
      /\ UNCHANGED <<receipt, pc, pinned, told, deaths>>
  BY DEF SwapDirectory
<1>2. d \in Directory /\ d.ino = swaps + 2 /\ swaps' \in 0 .. MaxSwaps
  <2>1. swaps + 2 \in Inodes /\ swaps' \in 0 .. MaxSwaps
    BY <1>1, CleanupAssumption DEF Inodes, CleanupInv, CleanupTypeOK, CleanupAssumption
  <2> QED BY <2>1 DEF Directory, Contents
<1> HIDE DEF d
<1>3. CASE path = "activate"
  <2>1. at' \in [Paths -> Directory \cup {None}] /\ Here' = d /\ There' = There
    BY <1>1, <1>2, <1>3, Where, PutHere
  <2>2. CleanupTypeOK'
    BY <1>1, <1>2, <2>1, Where DEF CleanupInv, CleanupTypeOK, Settled
  <2>3. NeverUnattested' /\ Drafted' /\ Settled' /\ Bound'
    BY <1>1, <1>2, <2>1, Where
       DEF CleanupInv, NeverUnattested, Drafted, Settled, Bound, Own
  <2> QED BY <2>2, <2>3 DEF CleanupInv
<1>4. CASE path = "cleanup"
  <2>1. at' \in [Paths -> Directory \cup {None}] /\ There' = d /\ Here' = Here
    BY <1>1, <1>2, <1>4, Where, PutThere
  <2>2. CleanupTypeOK'
    BY <1>1, <1>2, <2>1, Where DEF CleanupInv, CleanupTypeOK, Settled
  <2>3. There # None
    BY <1>1, <1>4 DEF There
  <2>4. NeverUnattested' /\ Drafted' /\ Settled' /\ Bound'
    BY <1>1, <1>2, <2>1, <2>3, Where
       DEF CleanupInv, NeverUnattested, Drafted, Settled, Bound, Own
  <2> QED BY <2>2, <2>4 DEF CleanupInv
<1> QED BY <1>3, <1>4 DEF Paths

-------------------------------------------------------------------------------
(* The theorems.                                                           *)

LEMMA CleanupStep ==
    CleanupInv /\ [CleanupNext]_cleanupVars => CleanupInv'
<1> SUFFICES ASSUME CleanupInv, [CleanupNext]_cleanupVars PROVE CleanupInv'
  OBVIOUS
<1>1. CASE UNCHANGED cleanupVars
  BY <1>1 DEF cleanupVars, CleanupInv, CleanupTypeOK, NeverUnattested, Drafted, Settled,
              Bound, Here, There
<1>2. CASE Cleanup
  <2>1. ASSUME RemoveAttested \/ RemoveIntent \/ RemoveMarker PROVE CleanupInv'
    BY <2>1, RemoveKeeps, UnmarkKeeps DEF RemoveAttested, RemoveIntent, RemoveMarker
  <2> QED BY <1>2, <2>1, InspectKeeps, DraftKeeps, PinContainerKeeps, RenameKeeps, VerifyKeeps,
             AttestKeeps, RemoveDirectoryKeeps, RemoveReceiptKeeps DEF Cleanup
<1>3. CASE Fails
  BY <1>3, ToRest DEF Fails, Becomes
<1>4. ASSUME NEW path \in Paths, NEW has \in {{}, {"data"}}, SwapDirectory(path, has)
      PROVE  CleanupInv'
  BY <1>4, SwapDirectoryKeeps
<1> QED BY <1>1, <1>2, <1>3, <1>4, PublishKeeps, ReconcileLeftoversKeeps, DieKeeps
        DEF CleanupNext, CleanupWork

LEMMA CleanupStart ==
    CleanupInit => CleanupInv
<1> SUFFICES ASSUME CleanupInit PROVE CleanupInv
  OBVIOUS
<1>1. at \in [Paths -> Directory \cup {None}] /\ Here = None /\ There = None /\ None.ino = 0
  BY DEF CleanupInit, Here, There, Paths, None
<1>2. CleanupTypeOK
  BY <1>1, CleanupAssumption DEF CleanupInit, CleanupTypeOK, CleanupSteps, CleanupAssumption
<1>3. NeverUnattested /\ Drafted /\ Settled /\ Bound
  BY <1>1 DEF CleanupInit, NeverUnattested, Drafted, Settled, Bound, Own
<1> QED BY <1>2, <1>3 DEF CleanupInv

LEMMA CleanupInvariant ==
    CleanupSpec => []CleanupInv
  BY CleanupStart, CleanupStep, PTL DEF CleanupSpec

\* Whenever the publisher dies and whatever strangers put at the two paths, a
\* container that has lost its intent or its marker on the way out has a receipt
\* bound to its inode: for any number of deaths and of strangers.
THEOREM CleanupIsAttested ==
    CleanupSpec => []CleanupSafety
<1>1. CleanupInv => CleanupSafety
  BY DEF CleanupInv, CleanupSafety
<1> QED BY <1>1, CleanupInvariant, PTL

\* One step of the container leaves what holds a stranger's data, or moves it.
LEMMA StepLeavesData ==
    ASSUME CleanupInv, CleanupWork \/ Die, NEW p \in Paths, "data" \in at[p].has
    PROVE  \E q \in Paths : at'[q].ino = at[p].ino /\ "data" \in at'[q].has
<1>0. at \in [Paths -> Directory \cup {None}] /\ at[p] # None
  <2>1. "data" \notin None.has
    BY DEF None
  <2> QED BY <2>1, Where
<1>1. ASSUME UNCHANGED at PROVE \E q \in Paths : at'[q].ino = at[p].ino /\ "data" \in at'[q].has
  BY <1>1
<1>2. ASSUME NEW path \in Paths, NEW x \in Contents \ {"data"}, Drop(path, x)
      PROVE  \E q \in Paths : at'[q].ino = at[p].ino /\ "data" \in at'[q].has
  <2>1. /\ at'[p].ino = at[p].ino
        /\ at'[p].has = IF p = path THEN at[p].has \ {x} ELSE at[p].has
    BY <1>0, <1>2, DropKeeps
  <2>2. "data" \in at'[p].has
    BY <1>2, <2>1
  <2> QED BY <2>1, <2>2
<1>3. ASSUME NEW x \in Contents, Add("activate", x), Here \in Directory
      PROVE  \E q \in Paths : at'[q].ino = at[p].ino /\ "data" \in at'[q].has
  <2>1. /\ There' = There /\ Here'.ino = Here.ino /\ Here'.has = Here.has \cup {x}
    BY <1>0, <1>3, AddHere
  <2>2. at'[p].ino = at[p].ino /\ "data" \in at'[p].has
    BY <2>1 DEF Here, There, Paths
  <2> QED BY <2>2
<1>4. CASE Publish
  <2>1. CASE Make
    <3>1. Here = None /\ There = None
      BY <2>1 DEF Make, CleanupInv, Settled
    <3> QED BY <1>0, <3>1 DEF Here, There, Paths
  <2>2. CASE Mark \/ Candidate
    <3>1. Here \in Directory
      BY <2>2, Where, InodeTells DEF Mark, Candidate, CleanupInv, Settled
    <3> QED BY <1>3, <2>2, <3>1 DEF Mark, Candidate, Contents
  <2>3. CASE Activation
    <3>1. ASSUME NEW x \in {"tree", "data"},
                 at' = [at EXCEPT !["activate"].has = (@ \ {"link"}) \cup {x}]
          PROVE  \E q \in Paths : at'[q].ino = at[p].ino /\ "data" \in at'[q].has
      <4>1. CASE p = "activate"
        <5>1. at[p] \in Directory
          BY <1>0
        <5>2. at'[p] = [at[p] EXCEPT !.has = (at[p].has \ {"link"}) \cup {x}]
          BY <1>0, <3>1, <4>1
        <5>3. at'[p].ino = at[p].ino /\ "data" \in at'[p].has
          BY <5>1, <5>2 DEF Directory
        <5> QED BY <5>3
      <4>2. CASE p # "activate"
        BY <1>0, <3>1, <4>2
      <4> QED BY <4>1, <4>2
    <3> QED BY <1>1, <1>2, <2>3, <3>1 DEF Activation, Contents, Paths
  <2>4. CASE ArchiveTree \/ Unlink
    BY <1>2, <2>4 DEF ArchiveTree, Unlink, Contents, Paths
  <2> QED BY <1>4, <2>1, <2>2, <2>3, <2>4 DEF Publish
<1>5. CASE Cleanup
  <2>1. CASE Inspect \/ PinContainer \/ Attest \/ RemoveAttested \/ RemoveReceipt
    BY <1>1, <2>1 DEF Inspect, PinContainer, Attest, RemoveAttested, RemoveReceipt, Remove
  <2>2. CASE Draft \/ Declare
    <3>1. Here \in Directory
      BY <2>2, Where, InodeTells DEF Draft, Declare, None
    <3> QED BY <1>3, <2>2, <3>1 DEF Draft, Declare, Contents
  <2>3. CASE TidyDraft
    BY <1>2, <2>3 DEF TidyDraft, Contents, Paths
  <2>4. CASE Rename
    <3>1. CASE Here # None /\ There = None
               /\ at' = [at EXCEPT !["activate"] = None, !["cleanup"] = Here]
      <4>1. at[p] = Here
        BY <1>0, <3>1 DEF Here, There, Paths
      <4>2. at'["cleanup"] = Here
        BY <1>0, <3>1 DEF Paths
      <4> QED BY <4>1, <4>2 DEF Paths
    <3> QED BY <1>1, <2>4, <3>1 DEF Rename
  <2>5. CASE Verify
    <3>1. CASE There # None /\ Here = None
               /\ at' = [at EXCEPT !["activate"] = There, !["cleanup"] = None]
      <4>1. at[p] = There
        BY <1>0, <3>1 DEF Here, There, Paths
      <4>2. at'["activate"] = There
        BY <1>0, <3>1 DEF Paths
      <4> QED BY <4>1, <4>2 DEF Paths
    <3> QED BY <1>1, <2>5, <3>1 DEF Verify
  <2>6. CASE RemoveIntent \/ RemoveMarker
    BY <1>1, <1>2, <2>6 DEF RemoveIntent, RemoveMarker, Unmark, Contents, Paths
  <2>7. CASE RemoveDirectory
    <3>1. CASE There.has = {} /\ Put("cleanup", None)
      <4>1. p = "activate"
        BY <3>1 DEF There, Paths
      <4>2. at'[p] = at[p]
        BY <1>0, <3>1, <4>1 DEF Put
      <4> QED BY <4>2
    <3> QED BY <1>1, <2>7, <3>1 DEF RemoveDirectory
  <2> QED BY <1>5, <2>1, <2>2, <2>3, <2>4, <2>5, <2>6, <2>7 DEF Cleanup
<1>6. CASE ReconcileLeftovers \/ Fails \/ Die
  BY <1>1, <1>6 DEF ReconcileLeftovers, ReconcileContainer, ReconcileTombstone,
                    ReconcileReceipt, Remove, Fails, Die
<1> QED BY <1>4, <1>5, <1>6 DEF CleanupWork

\* What a stranger has filled, put at one of the paths or displaced into the
\* container, is there for ever: no step of a publication, a cleanup or a
\* reconciliation removes it.
THEOREM StrangersAreLeft ==
    CleanupSpec => StrangersStay
<1>1. ASSUME CleanupInv, [CleanupNext]_cleanupVars, NEW p \in Paths, "data" \in at[p].has
      PROVE  \/ \E q \in Paths : at'[q].ino = at[p].ino /\ "data" \in at'[q].has
             \/ swaps' > swaps
  <2>1. CASE UNCHANGED cleanupVars
    BY <1>1, <2>1 DEF cleanupVars
  <2>2. CASE \E path \in Paths, has \in {{}, {"data"}} : SwapDirectory(path, has)
    BY <1>1, <2>2, Where DEF SwapDirectory
  <2> QED BY <1>1, <2>1, <2>2, StepLeavesData DEF CleanupNext
<1>2. CleanupInv /\ [CleanupNext]_cleanupVars =>
          [\A p \in Paths : "data" \in at[p].has =>
              \/ \E q \in Paths : at'[q].ino = at[p].ino /\ "data" \in at'[q].has
              \/ swaps' > swaps]_cleanupVars
  BY <1>1
<1> QED BY <1>2, CleanupInvariant, PTL DEF CleanupSpec, StrangersStay


===============================================================================
