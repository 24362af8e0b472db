----------------------------- MODULE MCSourceJobs -----------------------------
(* Small instances of SourceJobs. *)
EXTENDS SourceJobs, TLC

CONSTANTS a, b
MCConditions == {a, b}
MCSymmetry == Permutations(MCConditions)
===============================================================================
