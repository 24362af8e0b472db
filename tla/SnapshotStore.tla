----------------------------- MODULE SnapshotStore -----------------------------
(***************************************************************************)
(* Publication of snapshots, wiki_core/web/snapshot.py.  The active path   *)
(* is a symlink into a store of immutable revisions named by their hash.   *)
(* A publisher works under the publication lease: it reads what is active, *)
(* installs its revision, exchanges its own symlink with the active entry, *)
(* compares what came back with what it had read, restores it if they      *)
(* differ, archives a flat directory of the older layout and prunes the    *)
(* oldest revisions.  A reader resolves the symlink once and reads under a *)
(* shared lease.  A process may die between any two file operations, and   *)
(* strangers, who take no lease, replace or remove the active entry.       *)
(*                                                                         *)
(* A publisher holds its candidate, and after the exchange the displaced   *)
(* entry, in its activation container.  The removal of the container is    *)
(* the subject of SnapshotCleanup; here it succeeds when it is empty.      *)
(***************************************************************************)
EXTENDS Sequences, FiniteSets, Naturals

CONSTANTS
    Processes,   \* publishers
    Nobody,      \* the holder of a free publication lease
    Readers,
    Revisions,   \* bundle hashes
    FlatRev,     \* the bundle in the directory of the older layout
    Retention,   \* active + newest inactive revisions that are kept
    Kinds,       \* what strangers put: directories, symlinks
    MaxFaults    \* bound on the publishers that die and the writes of strangers

ASSUME StoreAssumption ==
    /\ Nobody \notin Processes
    /\ FlatRev \in Revisions
    /\ Retention \in Nat /\ Retention >= 2
    /\ Kinds \subseteq {"dir", "link"}
    /\ MaxFaults \in Nat

VARIABLES
    active,    \* the entry at the active path
    shelf,     \* the complete revisions in the store, the oldest first
    torn,      \* revisions whose removal was cut short
    lease,     \* the holder of the publication lease
    proc,      \* the publication or prune of each process
    leftover,  \* entries in the activation containers nobody works on
    rd,        \* the load of each reader
    pulled,    \* readers whose revision was removed under their lease
    kept,      \* what strangers have put and not taken away themselves
    faults     \* number of deaths and of writes by strangers

files == <<active, shelf, torn, leftover>>
history == <<pulled, kept, faults>>
vars == <<files, lease, proc, rd, history>>

Absent == [kind |-> "absent"]
Link(r) == [kind |-> "own", rev |-> r]
Flat == [kind |-> "flat", rev |-> FlatRev]
\* A directory or a symlink of a stranger; no two have one identity.
Foreign(kind, n) == [kind |-> kind, rev |-> n]
Strangers == {Foreign(k, n) : k \in Kinds, n \in 1 .. MaxFaults}
Entry == {Link(r) : r \in Revisions} \cup {Flat} \cup Strangers

Whole == {shelf[i] : i \in DOMAIN shelf}
Place(r) == CHOOSE i \in DOMAIN shelf : shelf[i] = r
Without(r) ==
    IF r \notin Whole THEN shelf
    ELSE [i \in 1 .. Len(shelf) - 1 |-> shelf[IF i < Place(r) THEN i ELSE i + 1]]

Resting == [step |-> "idle"]
Away == [step |-> "idle"]

Init ==
    /\ active \in {Absent, Flat}
    /\ shelf = <<>>
    /\ torn = {}
    /\ lease = Nobody
    /\ proc = [p \in Processes |-> Resting]
    /\ leftover = {}
    /\ rd = [x \in Readers |-> Away]
    /\ pulled = {}
    /\ kept = {}
    /\ faults = 0

At(p, step) == proc[p].step = step
Go(p, step) == proc' = [proc EXCEPT ![p].step = step]
Reading(x, r) == rd[x].step = "read" /\ rd[x].rev = r
\* The exclusive lease that a prune holds on one revision.
Locked(r) == \E p \in Processes : At(p, "take") /\ proc[p].victim = r

Release(p) ==
    /\ proc' = [proc EXCEPT ![p] = Resting]
    /\ lease' = Nobody

-------------------------------------------------------------------------------
(* Preflight, under the publication lease.                                 *)

MayWork(p) == At(p, "idle") /\ lease = Nobody

Start(p, step, r) ==
    /\ lease' = p
    /\ proc' = [proc EXCEPT ![p] =
                   [step |-> step, rev |-> r, linked |-> active.kind = "own",
                    expected |-> Absent, box |-> Absent, created |-> FALSE,
                    prunes |-> step # "pin", victims |-> {}, victim |-> r]]
    /\ UNCHANGED <<files, rd, history>>

\* Anything but a pointer to a valid revision, an owned directory or nothing is
\* refused.
BeginPublish(p, r) ==
    /\ MayWork(p)
    /\ \/ active \in {Absent, Flat}
       \/ active.kind = "own" /\ active.rev \in Whole
    /\ Start(p, "pin", r)

BeginPrune(p) ==
    /\ MayWork(p)
    /\ active.kind = "own" /\ active.rev \in Whole
    /\ Start(p, "reconcile", active.rev)

\* The identity of the entry is read after the entry was validated.
Pin(p) ==
    /\ At(p, "pin")
    /\ \/ /\ active = Absent /\ proc[p].linked
          /\ Release(p)
       \/ /\ ~ (active = Absent /\ proc[p].linked)
          /\ proc' = [proc EXCEPT ![p].expected = active,
                                  ![p].step = "reconcile"]
          /\ UNCHANGED lease
    /\ UNCHANGED <<files, rd, history>>

\* A flat directory becomes a revision; the duplicate of one is discarded.
\* Its archive is refused when a torn directory has the name.
Archived(entries) ==
    /\ shelf' = IF Flat \in entries /\ FlatRev \notin Whole \cup torn
                THEN Append(shelf, FlatRev) ELSE shelf
    /\ UNCHANGED torn

Recovered(entries) == IF FlatRev \in torn THEN {} ELSE entries \cap {Flat}

\* _reconcile_snapshot_leftovers: a container that holds a symlink is ambiguous
\* and is preserved, as is the directory of a stranger.
Reconcile(p) ==
    /\ At(p, "reconcile")
    /\ Archived(leftover)
    /\ leftover' = leftover \ Recovered(leftover)
    /\ Go(p, IF proc[p].prunes THEN "rank" ELSE "install")
    /\ UNCHANGED <<active, lease, rd, history>>

\* Mutant of Install: the refusal of a torn revision leaves the lease taken.
InstallOrStay(p) ==
    LET r == proc[p].rev IN
    /\ At(p, "install")
    /\ r \notin torn
    /\ shelf' = IF r \in Whole THEN shelf ELSE Append(shelf, r)
    /\ proc' = [proc EXCEPT ![p].created = r \notin Whole, ![p].box = Link(r),
                            ![p].step = "swap"]
    /\ UNCHANGED <<active, torn, lease, leftover, rd, history>>

\* An existing revision is reused if it is valid.  The candidate is a symlink
\* in the container.
Install(p) ==
    LET r == proc[p].rev IN
    /\ At(p, "install")
    /\ \/ /\ r \in torn
          /\ Release(p)
          /\ UNCHANGED shelf
       \/ /\ r \notin torn
          /\ shelf' = IF r \in Whole THEN shelf ELSE Append(shelf, r)
          /\ proc' = [proc EXCEPT ![p].created = r \notin Whole,
                                  ![p].box = Link(r),
                                  ![p].step = "swap"]
          /\ UNCHANGED lease
    /\ UNCHANGED <<active, torn, leftover, rd, history>>

-------------------------------------------------------------------------------
(* The exchange of the active entry.                                       *)

Exchange(p, step) ==
    /\ active' = proc[p].box
    /\ proc' = [proc EXCEPT ![p].box = active, ![p].step = step]

\* Nothing active: the candidate is renamed if the path is still free.
\* Otherwise the two entries are exchanged, whatever is active now.
Swap(p) ==
    /\ At(p, "swap")
    /\ IF (proc[p].expected = Absent) # (active = Absent)
       THEN Go(p, "undo") /\ UNCHANGED active
       ELSE Exchange(p, IF active = Absent THEN "rank" ELSE "compare")
    /\ UNCHANGED <<shelf, torn, lease, leftover, rd, history>>

Compare(p) ==
    /\ At(p, "compare")
    /\ Go(p, CASE proc[p].box # proc[p].expected -> "check"
               [] proc[p].box = proc[p].expected /\ proc[p].linked -> "rank"
               [] OTHER -> "archive")
    /\ UNCHANGED <<files, lease, rd, history>>

\* _restore_exchanged_path_or_raise: only while the candidate is active.
Check(p) ==
    /\ At(p, "check")
    /\ Go(p, IF active = Link(proc[p].rev) THEN "restore" ELSE "undo")
    /\ UNCHANGED <<files, lease, rd, history>>

\* The exchange fails when the active path has disappeared.
Restore(p) ==
    /\ At(p, "restore")
    /\ IF active = Absent
       THEN Go(p, "undo") /\ UNCHANGED active
       ELSE Exchange(p, "undo")
    /\ UNCHANGED <<shelf, torn, lease, leftover, rd, history>>

\* A revision this publisher has created is removed, file by file, and without
\* its lease.
Undo(p) ==
    LET r == proc[p].rev IN
    /\ At(p, "undo")
    /\ IF proc[p].created
       THEN /\ shelf' = Without(r)
            /\ torn' = torn \cup {r}
            /\ pulled' = pulled \cup {x \in Readers : Reading(x, r)}
            /\ Go(p, "remove")
       ELSE UNCHANGED <<shelf, torn, pulled>> /\ Go(p, "finish")
    /\ UNCHANGED <<active, lease, leftover, rd, kept, faults>>

Removed(p) ==
    /\ At(p, "remove")
    /\ torn' = torn \ {proc[p].rev}
    /\ Go(p, "finish")
    /\ UNCHANGED <<active, shelf, lease, leftover, rd, history>>

-------------------------------------------------------------------------------
(* After the commit: archive, prune, clean up.                             *)

\* A stranger's directory is not a snapshot: it stays in the container.
Archive(p) ==
    /\ At(p, "archive")
    /\ Archived({proc[p].box})
    /\ proc' = [proc EXCEPT ![p].step = "rank",
                            ![p].box = IF Recovered({@}) = {} THEN @ ELSE Absent]
    /\ UNCHANGED <<active, lease, leftover, rd, history>>

\* Mutant of Oldest: the active revision is ranked with the others.
OldestOfAll(r) ==
    {shelf[i] : i \in {j \in DOMAIN shelf : j + Retention <= Len(shelf)}}

\* The inactive revisions beyond the newest Retention - 1.
Oldest(r) ==
    LET inactive == Without(r) IN
    {inactive[i] : i \in {j \in DOMAIN inactive :
                              j + Retention - 1 <= Len(inactive)}}

\* What the preflight has read is not used any more.
Rank(p) ==
    /\ At(p, "rank")
    /\ proc' = [proc EXCEPT ![p].victims = Oldest(proc[p].rev),
                            ![p].expected = Absent, ![p].created = FALSE,
                            ![p].linked = FALSE, ![p].step = "prune"]
    /\ UNCHANGED <<files, lease, rd, history>>

\* Mutant of Leased: readers do not count.
LeasedByNobody(r) == FALSE

Leased(r) == \E x \in Readers : Reading(x, r)

\* Without waiting: a revision somebody reads is preserved.
LockVictim(p, v) ==
    /\ At(p, "prune")
    /\ v \in proc[p].victims
    /\ proc' = IF Leased(v)
               THEN [proc EXCEPT ![p].victims = @ \ {v}]
               ELSE [proc EXCEPT ![p].victims = @ \ {v}, ![p].victim = v,
                                 ![p].step = "take"]
    /\ UNCHANGED <<files, lease, rd, history>>

\* The revision leaves the store by a rename, and is deleted elsewhere.
TakeVictim(p) ==
    /\ At(p, "take")
    /\ shelf' = Without(proc[p].victim)
    /\ proc' = [proc EXCEPT ![p].victim = proc[p].rev, ![p].step = "prune"]
    /\ UNCHANGED <<active, torn, lease, leftover, rd, history>>

\* Mutant of Kept: a container is removed with what it holds.
KeptNothing(entry) == {}

\* A symlink is unlinked, and the empty container removed; a container with
\* anything else stays.
Kept(entry) == IF entry.kind \in {"absent", "own", "link"} THEN {} ELSE {entry}

Finish(p) ==
    /\ At(p, "finish") \/ (At(p, "prune") /\ proc[p].victims = {})
    /\ leftover' = leftover \cup Kept(proc[p].box)
    /\ Release(p)
    /\ UNCHANGED <<active, shelf, torn, rd, history>>

\* The process dies: the kernel releases its leases, its files stay.  (A
\* container that holds a pointer of the store stays too, for ever; nothing
\* depends on it.)
Crash(p) ==
    /\ ~At(p, "idle")
    /\ faults < MaxFaults
    /\ faults' = faults + 1
    /\ leftover' = leftover \cup {e \in {proc[p].box} : e.kind \notin {"absent", "own"}}
    /\ Release(p)
    /\ UNCHANGED <<active, shelf, torn, rd, pulled, kept>>

-------------------------------------------------------------------------------
(* Readers.                                                                *)

Resolve(x) ==
    /\ rd[x] = Away
    /\ active.kind = "own"
    /\ rd' = [rd EXCEPT ![x] = [step |-> "ask", rev |-> active.rev]]
    /\ UNCHANGED <<files, lease, proc, history>>

\* The shared lease is waited for; then the revision is looked for again.
\* If it is gone, or not whole, the reader starts over or gives up.
Ask(x) ==
    /\ rd[x].step = "ask"
    /\ ~Locked(rd[x].rev)
    /\ rd' = [rd EXCEPT ![x] = IF rd[x].rev \in Whole
                               THEN [@ EXCEPT !.step = "read"] ELSE Away]
    /\ UNCHANGED <<files, lease, proc, history>>

EndRead(x) ==
    /\ rd[x].step = "read"
    /\ rd' = [rd EXCEPT ![x] = Away]
    /\ pulled' = pulled \ {x}
    /\ UNCHANGED <<files, lease, proc, kept, faults>>

-------------------------------------------------------------------------------
(* Strangers: a restore of a backup, an older tool, the owner.             *)

StrangerPuts(kind) ==
    LET entry == Foreign(kind, faults + 1) IN
    /\ faults < MaxFaults
    /\ faults' = faults + 1
    /\ active' = entry
    /\ kept' = (kept \ {active}) \cup {entry}
    /\ UNCHANGED <<shelf, torn, leftover, lease, proc, rd, pulled>>

StrangerRemoves ==
    /\ active # Absent
    /\ faults < MaxFaults
    /\ faults' = faults + 1
    /\ active' = Absent
    /\ kept' = kept \ {active}
    /\ UNCHANGED <<shelf, torn, leftover, lease, proc, rd, pulled>>

-------------------------------------------------------------------------------
Work(p) ==
    \/ Pin(p) \/ Reconcile(p) \/ Install(p) \/ Swap(p) \/ Compare(p) \/ Check(p)
    \/ Restore(p) \/ Undo(p) \/ Removed(p) \/ Archive(p) \/ Rank(p)
    \/ TakeVictim(p) \/ Finish(p)
    \/ \E v \in Revisions : LockVictim(p, v)

Load(x) == Ask(x) \/ EndRead(x)

Next ==
    \/ \E p \in Processes : \/ Work(p) \/ BeginPrune(p) \/ Crash(p)
                            \/ \E r \in Revisions : BeginPublish(p, r)
    \/ \E x \in Readers : Resolve(x) \/ Load(x)
    \/ \E kind \in Kinds : StrangerPuts(kind)
    \/ StrangerRemoves

Spec == Init /\ [][Next]_vars

\* A publication goes on while its process lives; a reader reads on, and one
\* that waits for a revision lease is woken when it is released.
Fairness ==
    /\ \A p \in Processes : WF_vars(Work(p))
    /\ \A x \in Readers : SF_vars(Load(x))

FairSpec == Spec /\ Fairness

-------------------------------------------------------------------------------
(* Properties.                                                             *)

Steps == {"pin", "reconcile", "install", "swap", "compare", "check", "restore",
          "undo", "remove", "archive", "rank", "prune", "take", "finish"}
Job == [step : Steps, rev : Revisions, linked : BOOLEAN,
        expected : Entry \cup {Absent}, box : Entry \cup {Absent},
        created : BOOLEAN, prunes : BOOLEAN, victims : SUBSET Revisions,
        victim : Revisions]

\* The lease is held by the one process that works, and a revision is in the
\* store once: whole, or torn by a removal.
TypeOK ==
    /\ active \in Entry \cup {Absent}
    /\ Whole \subseteq Revisions
    /\ \A i, j \in DOMAIN shelf : shelf[i] = shelf[j] => i = j
    /\ torn \in SUBSET (Revisions \ Whole)
    /\ lease \in Processes \cup {Nobody}
    /\ \A p \in Processes : \/ proc[p] = Resting /\ lease # p
                            \/ proc[p] \in Job /\ lease = p
    /\ leftover \in SUBSET Entry
    /\ \A x \in Readers : \/ rd[x] = Away
                          \/ rd[x] \in [step : {"ask", "read"}, rev : Revisions]
    /\ pulled \in SUBSET Readers
    /\ kept \in SUBSET Strangers
    /\ faults \in 0 .. MaxFaults

\* "activation is one atomic pointer replacement": whenever the active path is
\* a pointer of the store, it names a complete revision, whatever publishers,
\* prunes, deaths and strangers did.
ActiveIsWhole == active.kind = "own" => active.rev \in Whole

\* "without allowing cleanup to race its files": what a reader has found under
\* its shared lease stays whole, unless its own publisher takes it back.
LeaseHolds ==
    \A x \in Readers : rd[x].step = "read" => (rd[x].rev \in Whole \/ x \in pulled)

\* "external entry preserved": a directory that a stranger puts at the active
\* path is never destroyed: it is there or in a container, through an exchange
\* that should not have taken it, a restore, a death and a reconciliation.
DirectoriesKept ==
    \A e \in kept :
        \/ e.kind = "link"
        \/ e = active
        \/ e \in leftover
        \/ \E p \in Processes : proc[p] # Resting /\ proc[p].box = e

\* No publisher holds the lease for ever, and no reader waits for ever.
EverybodyGoesOn ==
    /\ \A p \in Processes : lease = p ~> lease # p
    /\ \A x \in Readers : rd[x] # Away ~> rd[x] = Away

\* One publisher works, the store has each revision once, and the active one is
\* complete.
Safety == TypeOK /\ ActiveIsWhole
===============================================================================
