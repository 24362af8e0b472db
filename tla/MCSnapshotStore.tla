---------------------------- MODULE MCSnapshotStore ----------------------------
(* Small instances of SnapshotStore: values for the constants. *)
EXTENDS SnapshotStore

CONSTANTS p1, p2, x1, r1, r2, r3

MCProcesses == {p1, p2}
MCReaders == {x1}
MCRevisions == {r1, r2, r3}
===============================================================================
