---------------------------- MODULE MCOperatorServer ----------------------------
(* OperatorServer for TLC. *)
EXTENDS OperatorServer, TLC

CONSTANTS t1, t2, k1, k2, i1, i2

MCThreads == {t1, t2}
MCKeys == {k1, k2}
MCInputs == {i1, i2}
Symmetric == Permutations(MCThreads) \cup Permutations(MCKeys) \cup Permutations(MCInputs)
===============================================================================
