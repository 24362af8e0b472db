---------------------------- MODULE ExperiencePack ----------------------------
(***************************************************************************)
(* Installing, upgrading, disabling and removing experience packs:         *)
(* wiki_core/_experience_pack_lifecycle.py and _experience_pack_state.py.  *)
(*                                                                         *)
(* An operation writes up to three things: the bundle of a pack, a receipt *)
(* and the lock file that makes them count.  It runs under one lock of all *)
(* processes and undoes what it wrote when a write fails.  Nothing repairs *)
(* what a crash leaves.  Bundles lie in the wiki, where people edit them.  *)
(***************************************************************************)
EXTENDS Sequences, Naturals, FiniteSets

CONSTANTS
    Clients,    \* processes that operate on packs
    Sources,    \* the versions of packs in the registry
    MaxOps,     \* bound on the operations begun
    MaxFaults,  \* bound on the writes that fail
    MaxCrashes, \* bound on the crashes
    MaxEdits    \* bound on what people do to bundles

ASSUME ExperiencePackAssumption ==
    /\ \A s \in Sources : s.version \in Nat
    /\ \A s, t \in Sources : s.pack = t.pack /\ s.version = t.version => s = t
    /\ MaxOps \in Nat /\ MaxFaults \in Nat /\ MaxCrashes \in Nat /\ MaxEdits \in Nat

VARIABLES
    lock,     \* of each pack with an entry: its source, status and receipts
    bundles,  \* of each source: what lies in its directory
    receipts, \* the receipts in their files
    torn,     \* those whose file was not written to the end
    op,       \* of each client: its operation and the next step of it
    held,     \* of each client: the tree it has taken into quarantine
    left,     \* trees that stay in quarantine
    overtaken, \* history: clients that compared the lock before git restored it
    counts    \* numbers of operations, failed writes, crashes and edits

vars == <<lock, bundles, receipts, torn, op, held, left, overtaken, counts>>

Packs == {s.pack : s \in Sources}
\* What is found under a name, and what a client has in quarantine: partly
\* deleted, or edited in the very file that is compared already.
Lying == {"none", "whole", "edited"}
Trees == Lying \cup {"partial", "late"}
Idle == [step |-> "idle"]
EmptyLock == <<>>

Count(what) == counts' = [counts EXCEPT ![what] = @ + 1]
Go(c, step) == op' = [op EXCEPT ![c].step = step]
End(c) == op' = [op EXCEPT ![c] = Idle]

Init ==
    /\ lock = EmptyLock
    /\ bundles = [s \in Sources |-> "none"]
    /\ receipts = {} /\ torn = {}
    /\ op = [c \in Clients |-> Idle]
    /\ held = [c \in Clients |-> "none"]
    /\ left = {} /\ overtaken = {}
    /\ counts = [ops |-> 0, faults |-> 0, crashes |-> 0, edits |-> 0]

-------------------------------------------------------------------------------
(* The plan of an operation.                                               *)

Active(l) == {p \in DOMAIN l : l[p].status = "active"}

\* Declared conflicts, and capabilities or exclusive slots that overlap.
Clash(s, t) ==
    \/ s.pack \in t.conflicts \/ t.pack \in s.conflicts
    \/ s.claims \cap t.claims # {}

Meets(s, need) == s.pack = need.pack /\ s.version \in need.versions

\* Mutant of Composes: the packs that depend on the candidate are not asked.
ComposesForward(s, l) ==
    LET others == Active(l) \ {s.pack} IN
    /\ \A p \in others : ~Clash(s, l[p].source)
    /\ \A need \in s.needs : \E p \in others : Meets(l[p].source, need)

\* _assert_composable: the candidate against the other active packs.
Composes(s, l) ==
    LET others == Active(l) \ {s.pack} IN
    /\ \A p \in others : ~Clash(s, l[p].source)
    /\ \A need \in s.needs : \E p \in others : Meets(l[p].source, need)
    /\ \A p \in others : \A need \in l[p].source.needs :
           need.pack = s.pack => Meets(s, need)

NoDependents(p, l) ==
    \A q \in Active(l) \ {p} : \A need \in l[q].source.needs : need.pack # p

\* _lock_with_entry, with an entry and without one.
WithEntry(l, p, e) == [q \in DOMAIN l \cup {p} |-> IF q = p THEN e ELSE l[q]]
Without(l, p) == [q \in DOMAIN l \ {p} |-> l[q]]

\* _receipt_lock_projection: the lock without the chains of receipts.
Projection(l) ==
    [p \in DOMAIN l |-> [source |-> l[p].source, status |-> l[p].status]]

\* The identity of a receipt is the digest of these fields.
Receipt(action, s, before, after) ==
    [action |-> action, source |-> s, before |-> before, after |-> Projection(after)]

\* The lock with an entry whose chain ends in the receipt of this change.
Chained(action, s, e) ==
    LET r == Receipt(action, s, lock, WithEntry(lock, s.pack, e)) IN
    WithEntry(lock, s.pack, [e EXCEPT !.receipts = Append(@, r)])

Matches(s) == bundles[s] = "whole"

\* Mutant of Free: the operations of two processes are not serialized.
FreeAlways == TRUE

\* _operation_guard.
Free == \A c \in Clients : op[c] = Idle

\* The operation, with the locks before and after it and its receipt.
Plan(c, action, s, after, step) ==
    /\ Free /\ op[c] = Idle
    /\ counts.ops < MaxOps /\ Count("ops")
    /\ op' = [op EXCEPT ![c] =
           [step |-> step, action |-> action, source |-> s,
            before |-> lock, after |-> after,
            receipt |-> Receipt(action, s, lock, after),
            written |-> FALSE, undo |-> FALSE]]
    /\ UNCHANGED <<lock, bundles, receipts, torn, held, left, overtaken>>

BeginInstall(c, s) ==
    /\ s.pack \notin DOMAIN lock
    /\ Composes(s, lock)
    /\ LET e == [source |-> s, status |-> "active", receipts |-> <<>>] IN
       Plan(c, "install", s, Chained("install", s, e), "copy")

\* The new version has the status of the old one.
BeginUpgrade(c, s) ==
    /\ s.pack \in DOMAIN lock
    /\ s.version > lock[s.pack].source.version
    /\ Composes(s, lock)
    /\ Matches(lock[s.pack].source)
    /\ LET e == [lock[s.pack] EXCEPT !.source = s] IN
       Plan(c, "upgrade", s, Chained("upgrade", s, e), "copy")

BeginDisable(c, p) ==
    /\ lock[p].status = "active"
    /\ NoDependents(p, lock)
    /\ LET s == lock[p].source
           e == [lock[p] EXCEPT !.status = "disabled"]
       IN  Plan(c, "disable", s, Chained("disable", s, e), "receipt")

BeginRemove(c, p) ==
    /\ NoDependents(p, lock)
    /\ Matches(lock[p].source)
    /\ Plan(c, "remove", lock[p].source, Without(lock, p), "receipt")

-------------------------------------------------------------------------------
(* The writes.  A write that fails starts the undoing of those before it.  *)

Brings(c) == op[c].action \in {"install", "upgrade"}
\* The bundle this operation deletes when all is written.
Old(c) == op[c].before[op[c].source.pack].source

\* Undo, from the step that follows the write that failed.
Undo(c, step) ==
    IF step = "unbundle" /\ ~Brings(c)
    THEN End(c)
    ELSE op' = [op EXCEPT ![c].step = step, ![c].undo = TRUE]

Fault == counts.faults < MaxFaults /\ Count("faults")

\* A directory of that name is another's: nothing is written yet.
Copy(c) ==
    /\ op[c].step = "copy"
    /\ IF bundles[op[c].source] # "none"
       THEN End(c) /\ UNCHANGED bundles
       ELSE /\ bundles' = [bundles EXCEPT ![op[c].source] = "whole"]
            /\ Go(c, "receipt")
    /\ UNCHANGED <<lock, receipts, torn, held, left, overtaken, counts>>

\* _write_receipt: a file of that name is another's.
WriteReceipt(c) ==
    /\ op[c].step = "receipt"
    /\ IF op[c].receipt \in receipts
       THEN Undo(c, "unbundle") /\ UNCHANGED receipts
       ELSE /\ receipts' = receipts \cup {op[c].receipt}
            /\ op' = [op EXCEPT ![c].step = "compare", ![c].written = TRUE]
    /\ UNCHANGED <<lock, bundles, torn, held, left, overtaken, counts>>

\* The file was created when the write failed: it is not undone.
ReceiptFails(c) ==
    /\ op[c].step = "receipt"
    /\ op[c].receipt \notin receipts
    /\ Fault
    /\ receipts' = receipts \cup {op[c].receipt}
    /\ torn' = torn \cup {op[c].receipt}
    /\ Undo(c, "unbundle")
    /\ UNCHANGED <<lock, bundles, held, left, overtaken>>

\* _atomic_write_lock compares the file with the lock that it is to replace and
\* replaces it after that, on the way forward ("compare", "replace") and when it
\* is put back ("recompare", "putback").  git takes no lock: it may fall between.
Expected(c) == IF op[c].step = "compare" THEN op[c].before ELSE op[c].after

\* Mutant of Compares: whatever the lock says by now is replaced.
ComparesAny(c) == TRUE

Compares(c) == lock = Expected(c)

CompareLock(c) ==
    /\ op[c].step \in {"compare", "recompare"}
    /\ Compares(c)
    /\ Go(c, IF op[c].step = "compare" THEN "replace" ELSE "putback")
    /\ overtaken' = overtaken \ {c}
    /\ UNCHANGED <<lock, bundles, receipts, torn, held, left, counts>>

WriteLock(c) ==
    /\ op[c].step = "replace"
    /\ lock' = op[c].after
    /\ IF op[c].action \in {"install", "disable"} THEN End(c) ELSE Go(c, "match")
    /\ UNCHANGED <<bundles, receipts, torn, held, left, overtaken, counts>>

LockFails(c) ==
    /\ op[c].step \in {"compare", "replace"}
    /\ \/ op[c].step = "compare" /\ ~Compares(c) /\ UNCHANGED counts
       \/ Fault
    /\ Undo(c, "unreceipt")
    /\ UNCHANGED <<lock, bundles, receipts, torn, held, left, overtaken>>

-------------------------------------------------------------------------------
(* Deleting a bundle: the old one at the end, the new one when undoing.    *)

Target(c) == IF op[c].undo THEN op[c].source ELSE Old(c)

\* Mutant of Failed: the lock is not put back before the receipt goes.
FailedNoUnlock(c, tree) ==
    IF ~op[c].undo /\ tree = "whole" THEN Undo(c, "unreceipt") ELSE End(c)

\* What follows a deletion that failed, given what then lies at the name.
Failed(c, tree) ==
    IF ~op[c].undo /\ tree = "whole" THEN Undo(c, "unlock") ELSE End(c)

\* _bundle_matches_at, before the rename and once more after it.
Movable(tree) == tree = "whole"

\* An edited bundle is refused, or moved back: "match" and "move" differ in
\* what people do between them.
Match(c) ==
    /\ op[c].step = "match"
    /\ IF Movable(bundles[Target(c)]) THEN Go(c, "move")
                                      ELSE Failed(c, bundles[Target(c)])
    /\ UNCHANGED <<lock, bundles, receipts, torn, held, left, overtaken, counts>>

Move(c) ==
    /\ op[c].step = "move"
    /\ IF Movable(bundles[Target(c)])
       THEN /\ held' = [held EXCEPT ![c] = bundles[Target(c)]]
            /\ bundles' = [bundles EXCEPT ![Target(c)] = "none"]
            /\ Go(c, "wipe")
       ELSE /\ Failed(c, bundles[Target(c)])
            /\ UNCHANGED <<held, bundles>>
    /\ UNCHANGED <<lock, receipts, torn, left, overtaken, counts>>

\* _walk_open_bundle: every file is compared before it is deleted.
Owned(tree) == tree \in {"whole", "partial"}

\* What stays in quarantine: with no bundle at the name, a whole one moves back.
Abandon(c) ==
    LET back == held[c] = "whole" /\ bundles[Target(c)] = "none"
        there == IF back THEN "whole" ELSE bundles[Target(c)]
    IN  /\ bundles' = [bundles EXCEPT ![Target(c)] = there]
        /\ left' = IF back THEN left
                   ELSE left \cup {[source |-> Target(c), tree |-> held[c]]}
        /\ held' = [held EXCEPT ![c] = "none"]
        /\ Failed(c, there)

Wipe(c) ==
    /\ op[c].step = "wipe" /\ held[c] # "none"
    /\ IF Owned(held[c]) THEN Go(c, "unlink") /\ UNCHANGED <<bundles, held, left>>
                         ELSE Abandon(c)
    /\ UNCHANGED <<lock, receipts, torn, overtaken, counts>>

\* What is left when the compared file is gone, with all that was written to it.
Rest(tree) == CASE tree = "whole" -> {"partial"}
                    [] tree = "partial" -> {"none"}
                    [] tree = "late" -> {"partial", "none"}
                    [] OTHER -> {tree}

Unlink(c) ==
    /\ op[c].step = "unlink"
    /\ \E tree \in Rest(held[c]) : held' = [held EXCEPT ![c] = tree]
    /\ Go(c, "wipe")
    /\ UNCHANGED <<lock, bundles, receipts, torn, left, overtaken, counts>>

WipeFails(c) ==
    /\ op[c].step \in {"wipe", "unlink"} /\ held[c] # "none"
    /\ Fault
    /\ Abandon(c)
    /\ UNCHANGED <<lock, receipts, torn, overtaken>>

\* The name must be free at the end; the tree is gone by then.
Close(c) ==
    /\ op[c].step = "wipe" /\ held[c] = "none"
    /\ IF bundles[Target(c)] = "none" THEN End(c) ELSE Failed(c, bundles[Target(c)])
    /\ UNCHANGED <<lock, bundles, receipts, torn, held, left, overtaken, counts>>

-------------------------------------------------------------------------------
(* Undoing.  A failure here ends the operation with the rest in place.     *)

\* Only when the file still says what this operation wrote.
Unlock(c) ==
    /\ op[c].step = "unlock"
    /\ IF lock = op[c].after THEN Go(c, "recompare") ELSE Undo(c, "unreceipt")
    /\ UNCHANGED <<lock, bundles, receipts, torn, held, left, overtaken, counts>>

PutBack(c) ==
    /\ op[c].step = "putback"
    /\ lock' = op[c].before
    /\ Undo(c, "unreceipt")
    /\ UNCHANGED <<bundles, receipts, torn, held, left, overtaken, counts>>

Unreceipt(c) ==
    /\ op[c].step = "unreceipt"
    /\ receipts' = receipts \ {op[c].receipt}
    /\ Undo(c, "unbundle")
    /\ UNCHANGED <<lock, bundles, torn, held, left, overtaken, counts>>

\* Only when it is still what was copied.
Unbundle(c) ==
    /\ op[c].step = "unbundle"
    /\ IF Matches(op[c].source) THEN Go(c, "match") ELSE End(c)
    /\ UNCHANGED <<lock, bundles, receipts, torn, held, left, overtaken, counts>>

UndoFails(c) ==
    /\ op[c].step \in {"unlock", "recompare", "putback", "unreceipt"}
    /\ \/ op[c].step = "recompare" /\ ~Compares(c) /\ UNCHANGED counts
       \/ Fault
    /\ End(c)
    /\ UNCHANGED <<lock, bundles, receipts, torn, held, left, overtaken>>

-------------------------------------------------------------------------------
(* A crash, and what people do meanwhile.                                  *)

Crash(c) ==
    /\ op[c] # Idle
    /\ counts.crashes < MaxCrashes /\ Count("crashes")
    /\ left' = IF held[c] = "none" THEN left
               ELSE left \cup {[source |-> Target(c), tree |-> held[c]]}
    /\ held' = [held EXCEPT ![c] = "none"]
    /\ End(c)
    /\ UNCHANGED <<lock, bundles, receipts, torn, overtaken>>

Meddle == counts.edits < MaxEdits /\ Count("edits")

Edit(s) ==
    /\ bundles[s] = "whole"
    /\ Meddle
    /\ bundles' = [bundles EXCEPT ![s] = "edited"]
    /\ UNCHANGED <<lock, receipts, torn, op, held, left, overtaken>>

\* An editor still has a file open that was moved into quarantine, one that is
\* still to be compared ...
EditHeld(c) ==
    /\ held[c] \in {"whole", "partial", "late"}
    /\ Meddle
    /\ held' = [held EXCEPT ![c] = "edited"]
    /\ UNCHANGED <<lock, bundles, receipts, torn, op, left, overtaken>>

\* ... or the one that was just compared and is deleted next.
EditLate(c) ==
    /\ op[c].step = "unlink" /\ Owned(held[c])
    /\ Meddle
    /\ held' = [held EXCEPT ![c] = "late"]
    /\ UNCHANGED <<lock, bundles, receipts, torn, op, left, overtaken>>

\* Something else appears where a bundle was moved away.
Reoccupy(c) ==
    /\ op[c].step \in {"wipe", "unlink"}
    /\ bundles[Target(c)] = "none"
    /\ Meddle
    /\ bundles' = [bundles EXCEPT ![Target(c)] = "edited"]
    /\ UNCHANGED <<lock, receipts, torn, op, held, left, overtaken>>

\* git restores the lock file of the kit, which names no pack.
Restore ==
    /\ lock # EmptyLock
    /\ Meddle
    /\ lock' = EmptyLock
    /\ overtaken' = overtaken \cup {c \in Clients : op[c].step \in {"replace", "putback"}}
    /\ UNCHANGED <<bundles, receipts, torn, op, held, left>>

Begin(c) ==
    \/ \E s \in Sources : BeginInstall(c, s) \/ BeginUpgrade(c, s)
    \/ \E p \in DOMAIN lock : BeginDisable(c, p) \/ BeginRemove(c, p)

Write(c) ==
    \/ Copy(c) \/ WriteReceipt(c) \/ ReceiptFails(c)
    \/ CompareLock(c) \/ WriteLock(c) \/ LockFails(c)
    \/ Match(c) \/ Move(c) \/ Wipe(c) \/ Unlink(c) \/ WipeFails(c) \/ Close(c)
    \/ Unlock(c) \/ PutBack(c) \/ Unreceipt(c) \/ Unbundle(c) \/ UndoFails(c)

People(c) == EditHeld(c) \/ EditLate(c) \/ Reoccupy(c)

Next ==
    \/ \E c \in Clients : Begin(c) \/ Write(c) \/ Crash(c) \/ People(c)
    \/ \E s \in Sources : Edit(s)
    \/ Restore

Spec == Init /\ [][Next]_vars

-------------------------------------------------------------------------------
(* Properties.                                                             *)

Entries == [source : Sources, status : {"active", "disabled"}, receipts : Seq(receipts)]
Steps == {"copy", "receipt", "compare", "replace", "match", "move", "wipe", "unlink",
          "unlock", "recompare", "putback", "unreceipt", "unbundle"}

\* Every variable has its type; only a client that deletes holds a tree.
TypeOK ==
    /\ \A p \in DOMAIN lock : p \in Packs /\ lock[p] \in Entries /\ lock[p].source.pack = p
    /\ bundles \in [Sources -> Lying]
    /\ torn \subseteq receipts
    /\ \A c \in Clients : op[c] # Idle => op[c].step \in Steps /\ op[c].source \in Sources
    /\ held \in [Clients -> Trees]
    /\ \A c \in Clients : held[c] # "none" => op[c].step \in {"wipe", "unlink"}
    /\ left \subseteq [source : Sources, tree : Trees \ {"none"}]
    /\ overtaken \subseteq Clients
    /\ counts \in [ops : 0..MaxOps, faults : 0..MaxFaults,
                   crashes : 0..MaxCrashes, edits : 0..MaxEdits]

\* No two active packs of a lock clash and each finds what it needs.
Composed(l) ==
    \A p \in Active(l) :
        /\ \A q \in Active(l) \ {p} : ~Clash(l[p].source, l[q].source)
        /\ \A need \in l[p].source.needs :
               \E q \in Active(l) : Meets(l[q].source, need)

\* The active packs of the lock file compose at every moment, also half way
\* through an operation, after one that was undone and after a crash.  The checks
\* are made against a lock that upgrades, disabling and removals change in any
\* order (_assert_composable, _state_change_plan).
ActiveCompose == Composed(lock)

\* What the lock file names is on disk: its bundle, if only an edited one, and
\* every receipt of its chain, whole.  So bundle and receipt are written before
\* the lock, and undone after it, whichever write fails or crashes.
LockedIsBacked ==
    \A p \in DOMAIN lock :
        /\ bundles[lock[p].source] # "none"
        /\ \A i \in DOMAIN lock[p].receipts : lock[p].receipts[i] \in receipts \ torn

\* git restored the lock after this client compared it and before it replaces it.
Overtaken(c) == c \in overtaken /\ op[c].step \in {"replace", "putback"}

\* A lock file follows from the one before by a receipt that lies in its file, or
\* goes back by the same receipt: an operation replaces the lock that it was
\* planned against and no other, though git may restore the file meanwhile
\* (_atomic_write_lock, expected_lock).  The one exception is git's own lock when
\* it came after the comparison: that one is replaced, if only by what the receipt
\* of the operation says.
LockFollowsReceipts ==
    [][lock' # lock /\ ~Restore =>
        \E r \in receipts :
            \/ r.before = lock /\ r.after = Projection(lock')
            \/ r.before = lock' /\ r.after = Projection(lock)
            \/ /\ \E c \in Clients : Overtaken(c)
               /\ r.after = Projection(lock') \/ r.before = lock']_vars

Edited(s) ==
    \/ bundles[s] = "edited"
    \/ \E tree \in {"edited", "late"} :
           \/ [source |-> s, tree |-> tree] \in left
           \/ \E c \in Clients : held[c] = tree /\ Target(c) = s

\* The client deletes a file that was written to after the client compared it.
UnlinksEdit(c, s) ==
    op[c].step = "unlink" /\ held[c] = "late" /\ Target(c) = s /\ op'[c].step = "wipe"

\* What people wrote into a bundle or put in its place stays at its name or in
\* quarantine, at whatever step of the matching, moving and deleting they did, and
\* whichever of these fails; it goes only with a file that was written to between
\* its own comparison and its own deletion
\* (_secure_delete_quarantined_bundle, _walk_open_bundle).
EditsKept ==
    [][\A s \in Sources :
          Edited(s) => Edited(s)' \/ \E c \in Clients : UnlinksEdit(c, s)]_vars

\* An operation that is undone, where the undoing itself meets no failure (nor a lock
\* that git restores between its two comparisons, which ends it too), ends with the
\* lock as it was or as git restored it, no receipt that it wrote in full and none of
\* the bundle it brought, whichever write or deletion failed (the except clauses of
\* _install_pack_unlocked, _upgrade_pack_unlocked, _remove_pack_unlocked).
UndoneIsAsBefore ==
    [][\A c \in Clients :
        /\ op[c] # Idle /\ op'[c] = Idle
        /\ op[c].step \in {"unreceipt", "unbundle", "match", "move", "wipe"} /\ op[c].undo
        /\ counts' = counts
        => /\ lock' \in {op[c].before, EmptyLock}
           /\ op[c].written => op[c].receipt \notin receipts'
           /\ Brings(c) => bundles'[op[c].source] # "whole"]_vars

\* What the lock names is well formed and there.
Safety == TypeOK /\ LockedIsBacked

\* An operation takes from people only what they write at the last moment, and one
\* that fails leaves nothing of its own.
FailureIsClean == EditsKept /\ UndoneIsAsBefore
===============================================================================
