---------------------------- MODULE SnapshotCleanup ----------------------------
(***************************************************************************)
(* The life of one activation container of wiki_core/web/snapshot.py, from *)
(* its creation to its removal, by a publisher that may die between any    *)
(* two file operations, by the reconciliation of the next publishers, and  *)
(* beside a stranger who puts a directory of its own where the container   *)
(* was.  All of it runs under the publication lease: one process at a time.*)
(*                                                                         *)
(* The container is marked with its owner, carries an intent before it is  *)
(* renamed from its activation path to its cleanup path, and has a receipt *)
(* in the store, bound to its inode, before it loses intent and marker.    *)
(* A receipt and an intent are the inode they are bound to.                *)
(***************************************************************************)
EXTENDS FiniteSets, Naturals

CONSTANTS
    MaxDeaths,  \* bound on the publishers that die
    MaxSwaps    \* bound on the directories of strangers

ASSUME CleanupAssumption == MaxDeaths \in Nat /\ MaxSwaps \in Nat

VARIABLES
    at,       \* the directories at the activation and at the cleanup path
    receipt,  \* the inode the receipt is bound to, 0 without a receipt
    pc,       \* the step of the process that holds the lease
    pinned,   \* the identity it read before the rename
    told,     \* the receipt it works with
    deaths,
    swaps

cleanupVars == <<at, receipt, pc, pinned, told, deaths, swaps>>

Paths == {"activate", "cleanup"}
Own == 1                         \* the inode of the container
Inodes == 1 .. (MaxSwaps + 1)
Contents == {"marker", "temp", "intent", "link", "tree", "data"}
None == [ino |-> 0, has |-> {}]
Directory == [ino : Inodes, has : SUBSET Contents]

Here == at["activate"]
There == at["cleanup"]
Put(path, d) == at' = [at EXCEPT ![path] = d]
Add(path, x) == at' = [at EXCEPT ![path].has = @ \cup {x}]
Drop(path, x) == at' = [at EXCEPT ![path].has = @ \ {x}]

CleanupInit ==
    /\ at = [p \in Paths |-> None]
    /\ receipt = 0
    /\ pc = "make"
    /\ pinned = 0
    /\ told = 0
    /\ deaths = 0
    /\ swaps = 0

Still == UNCHANGED <<receipt, pinned, told, deaths, swaps>>
Becomes(step) == pc' = step

\* An owned container whose inventory is that of a cleanup.
Owned(d) == "marker" \in d.has
\* The intent can be read, and is bound to the inode of its directory.
Intent(d) == "intent" \in d.has /\ d.ino = Own
\* The receipt can be read, and is bound to the directory of its name.
Receipt == receipt # 0 /\ receipt = There.ino

-------------------------------------------------------------------------------
(* The publication.                                                        *)

Make ==
    /\ pc = "make"
    /\ Put("activate", [ino |-> Own, has |-> {}])
    /\ Becomes("mark")
    /\ Still

Mark ==
    /\ pc = "mark"
    /\ Add("activate", "marker")
    /\ Becomes("candidate")
    /\ Still

Candidate ==
    /\ pc = "candidate"
    /\ Add("activate", "link")
    /\ Becomes("activation")
    /\ Still

\* The candidate is moved out, exchanged for a pointer, for a directory of the
\* older layout or for one of a stranger, or it stays: nothing was activated.
Activation ==
    /\ pc = "activation"
    /\ \/ Drop("activate", "link")
       \/ UNCHANGED at
       \/ \E x \in {"tree", "data"} :
             at' = [at EXCEPT !["activate"].has = (@ \ {"link"}) \cup {x}]
    /\ Becomes("archive")
    /\ Still

\* The directory is archived in the store, or kept for recovery.
ArchiveTree ==
    /\ pc = "archive"
    /\ Drop("activate", "tree")
    /\ Becomes(IF "data" \in Here.has THEN "rest" ELSE "unlink")
    /\ Still

Unlink ==
    /\ pc = "unlink"
    /\ Drop("activate", "link")
    /\ Becomes("inspect")
    /\ Still

-------------------------------------------------------------------------------
(* _remove_owned_activation_container, of a container at its first path.   *)

Plain(d) == Owned(d) /\ d.has \subseteq {"marker", "intent"}

Inspect ==
    /\ pc = "inspect"
    /\ Becomes(IF Here # None /\ Plain(Here) /\ ("intent" \in Here.has => Intent(Here))
               THEN IF Intent(Here) THEN "pin" ELSE "draft"
               ELSE "rest")
    /\ UNCHANGED at
    /\ Still

\* The intent is written to a temporary file, linked, and the file unlinked.
Draft ==
    /\ pc = "draft"
    /\ Here # None
    /\ Add("activate", "temp")
    /\ Becomes("declare")
    /\ Still

Declare ==
    /\ pc = "declare"
    /\ "temp" \in Here.has
    /\ Add("activate", "intent")
    /\ Becomes("tidy")
    /\ Still

TidyDraft ==
    /\ pc = "tidy"
    /\ Drop("activate", "temp")
    /\ Becomes("pin")
    /\ Still

PinContainer ==
    /\ pc = "pin"
    /\ Here # None
    /\ pinned' = Here.ino
    /\ Becomes("rename")
    /\ UNCHANGED <<at, receipt, told, deaths, swaps>>

Rename ==
    /\ pc = "rename"
    /\ IF Here # None /\ There = None
       THEN /\ at' = [at EXCEPT !["activate"] = None, !["cleanup"] = Here]
            /\ Becomes("verify")
       ELSE UNCHANGED at /\ Becomes("rest")
    /\ Still

\* The renamed directory is looked at again; another one goes back.
Verify ==
    /\ pc = "verify"
    /\ IF /\ There.ino = pinned
          /\ There.has = {"marker", "intent"} /\ Intent(There)
       THEN UNCHANGED at /\ Becomes("attest")
       ELSE /\ Becomes("rest")
            /\ IF There # None /\ Here = None
               THEN at' = [at EXCEPT !["activate"] = There, !["cleanup"] = None]
               ELSE UNCHANGED at
    /\ Still

\* _ensure_cleanup_receipt binds the receipt to the directory it finds now.
Attest ==
    /\ pc = "attest"
    /\ There # None
    /\ IF receipt = 0
       THEN receipt' = There.ino /\ Becomes("remove")
       ELSE UNCHANGED receipt /\ Becomes(IF Receipt THEN "remove" ELSE "rest")
    /\ UNCHANGED <<at, pinned, told, deaths, swaps>>

-------------------------------------------------------------------------------
(* _remove_receipted_cleanup_directory_pinned.                             *)

\* The directory is opened, compared with the receipt, and its inventory must
\* be the marker and, if there was one, the intent.
Remove(marker, intent) ==
    /\ told' = receipt
    /\ IF /\ Receipt
          /\ There.has = (IF marker THEN {"marker"} ELSE {})
                         \cup (IF intent THEN {"intent"} ELSE {})
       THEN Becomes("unintent")
       ELSE Becomes("rest")
    /\ UNCHANGED <<at, receipt, pinned, deaths, swaps>>

\* Mutant of RemoveAttested: the tree is removed by its path.
RemoveAttestedTree ==
    /\ pc = "remove"
    /\ Put("cleanup", None)
    /\ Becomes("forget")
    /\ Still

RemoveAttested == pc = "remove" /\ Remove(TRUE, TRUE)

\* Before each unlink the path must still name the pinned directory.
Unmark(step, x, next) ==
    /\ pc = step
    /\ IF There.ino = told
       THEN Drop("cleanup", x) /\ Becomes(next)
       ELSE UNCHANGED at /\ Becomes("rest")
    /\ Still

RemoveIntent == Unmark("unintent", "intent", "unmark")

\* Mutant of RemoveMarker: the receipt goes first.
RemoveMarkerUnattested ==
    /\ pc = "unmark"
    /\ There.ino = told
    /\ Drop("cleanup", "marker")
    /\ receipt' = 0
    /\ Becomes("rmdir")
    /\ UNCHANGED <<pinned, told, deaths, swaps>>

RemoveMarker == Unmark("unmark", "marker", "rmdir")

\* The comparison and the rmdir are one step: between them the code knows a
\* window that POSIX leaves open.
RemoveDirectory ==
    /\ pc = "rmdir"
    /\ IF There.ino = told /\ There.has = {}
       THEN Put("cleanup", None) /\ Becomes("forget")
       ELSE UNCHANGED at /\ Becomes("rest")
    /\ Still

RemoveReceipt ==
    /\ pc = "forget"
    /\ receipt' = 0
    /\ Becomes("rest")
    /\ UNCHANGED <<at, pinned, told, deaths, swaps>>

-------------------------------------------------------------------------------
(* _reconcile_snapshot_leftovers, by the next publisher or prune.          *)

\* Mutant of Recoverable: only an empty container is recovered.
RecoverableEmpty(d) == d.has = {"marker"}

\* A container at the activation path: empty, with a valid intent, or with the
\* directory of the older layout.
Recoverable(d) ==
    \/ d.has = {"marker"}
    \/ d.has = {"marker", "intent"} /\ Intent(d)

ReconcileContainer ==
    /\ pc = "rest"
    /\ Here # None
    /\ \/ Recoverable(Here) /\ Becomes("inspect")
       \/ \E x \in {"tree", "data"} :
             Here.has = {"marker", x} /\ Here.ino = Own /\ Becomes("archive")
    /\ UNCHANGED at
    /\ Still

\* A container at the cleanup path: with its receipt it is empty or marked;
\* without one it must have marker and intent.
ReconcileTombstone ==
    /\ pc = "rest"
    /\ There # None
    /\ \/ Receipt /\ There.has = {} /\ Remove(FALSE, FALSE)
       \/ Receipt /\ There.has = {"marker"} /\ Remove(TRUE, FALSE)
       \/ /\ There.has = {"marker", "intent"} /\ Intent(There)
          /\ Becomes("attest")
          /\ UNCHANGED <<at, receipt, pinned, told, deaths, swaps>>

\* A receipt whose container is at neither path.
ReconcileReceipt ==
    /\ pc = "rest"
    /\ receipt # 0
    /\ Here = None
    /\ There = None
    /\ Becomes("forget")
    /\ UNCHANGED at
    /\ Still

-------------------------------------------------------------------------------
\* The process ends; the next one reconciles before it publishes.
Die ==
    /\ pc # "rest"
    /\ deaths < MaxDeaths
    /\ deaths' = deaths + 1
    /\ Becomes("rest")
    /\ UNCHANGED <<at, receipt, pinned, told, swaps>>

\* A file operation on a path that is gone raises.
Fails ==
    /\ \/ pc \in {"draft", "pin"} /\ Here = None
       \/ pc = "declare" /\ "temp" \notin Here.has
       \/ pc = "attest" /\ There = None
    /\ Becomes("rest")
    /\ UNCHANGED at
    /\ Still

\* A stranger moves the directory away and puts one of its own there.
SwapDirectory(path, has) ==
    /\ at[path] # None
    /\ pc \notin {"make", "mark", "candidate", "activation", "archive", "unlink"}
    /\ swaps < MaxSwaps
    /\ swaps' = swaps + 1
    /\ Put(path, [ino |-> swaps + 2, has |-> has])
    /\ UNCHANGED <<receipt, pc, pinned, told, deaths>>

Publish ==
    Make \/ Mark \/ Candidate \/ Activation \/ ArchiveTree \/ Unlink

Cleanup ==
    \/ Inspect \/ Draft \/ Declare \/ TidyDraft \/ PinContainer \/ Rename \/ Verify
    \/ Attest \/ RemoveAttested \/ RemoveIntent \/ RemoveMarker
    \/ RemoveDirectory \/ RemoveReceipt

ReconcileLeftovers == ReconcileContainer \/ ReconcileTombstone \/ ReconcileReceipt

CleanupWork == Publish \/ Cleanup \/ ReconcileLeftovers \/ Fails

CleanupNext ==
    \/ CleanupWork \/ Die
    \/ \E path \in Paths, has \in {{}, {"data"}} : SwapDirectory(path, has)

CleanupSpec == CleanupInit /\ [][CleanupNext]_cleanupVars

\* A process works on; somebody publishes or prunes again.
FairCleanup == CleanupSpec /\ WF_cleanupVars(CleanupWork)

-------------------------------------------------------------------------------
(* Properties.                                                             *)

CleanupSteps == {"make", "mark", "candidate", "activation", "archive", "unlink",
                 "inspect", "draft", "declare", "tidy", "pin", "rename", "verify",
                 "attest", "remove", "unintent", "unmark", "rmdir", "forget", "rest"}

\* One directory per inode, and at most one path for the container.
CleanupTypeOK ==
    /\ at \in [Paths -> Directory \cup {None}]
    /\ Here.ino = There.ino => Here = None
    /\ receipt \in Inodes \cup {0}
    /\ pc \in CleanupSteps
    /\ pinned \in Inodes \cup {0}
    /\ told \in Inodes \cup {0}
    /\ deaths \in 0 .. MaxDeaths
    /\ swaps \in 0 .. MaxSwaps

\* "To avoid losing ownership between marker unlink and rmdir": a container
\* that has lost its intent or its marker on the way out has a receipt bound to
\* its inode, whenever the process dies.
NeverUnattested ==
    (There.ino = Own /\ There.has # {"marker", "intent"}) => receipt = Own

\* "preserve everything ambiguous": what a stranger has filled, a directory put
\* at one of the paths or displaced into the container, is there for ever.
StrangersStay ==
    [][\A p \in Paths : "data" \in at[p].has =>
           \/ \E q \in Paths : at'[q].ino = at[p].ino /\ "data" \in at'[q].has
           \/ swaps' > swaps]_cleanupVars

\* What a death leaves and no reconciliation touches: a container without its
\* marker, with a pointer, a stranger's directory or the draft of an intent.
Ambiguous ==
    Here.ino = Own /\ ("marker" \notin Here.has \/ "link" \in Here.has
                       \/ Here.has \cap {"temp", "data"} # {})

Gone == Here.ino # Own /\ There.ino # Own /\ receipt # Own

\* "Recover publisher-owned crash leftovers": without strangers, whatever the
\* number of deaths and wherever they strike, the container and its receipt are
\* gone in the end, or the container is one of the ambiguous ones.
ContainerRecovered == <>[](Gone \/ Ambiguous \/ swaps > 0)

\* The container is at one path, and always one that can be told from others.
CleanupSafety == CleanupTypeOK /\ NeverUnattested
===============================================================================
