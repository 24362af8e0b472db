------------------------------ MODULE MCAdminPlan ------------------------------
(* Small instances of AdminPlan for TLC.                                   *)
EXTENDS AdminPlan, TLC

CONSTANTS t1, t2, page

MCThreads == {t1, t2}
MCPages == {page}
NoFiles == {}

Symmetry == Permutations(MCThreads)
===============================================================================
