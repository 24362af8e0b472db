--------------------------- MODULE MCSnapshotCleanup ---------------------------
(* Small instances of SnapshotCleanup: the cfg gives the bounds. *)
EXTENDS SnapshotCleanup
===============================================================================
