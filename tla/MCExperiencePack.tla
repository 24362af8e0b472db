--------------------------- MODULE MCExperiencePack ---------------------------
(* A small registry: b needs the first version of a and conflicts with c,   *)
(* and the second version of a claims what c claims.                        *)
EXTENDS ExperiencePack, TLC

CONSTANTS p, q

Plain(pack, version) ==
    [pack |-> pack, version |-> version, needs |-> {}, conflicts |-> {}, claims |-> {}]

MCSources ==
    {Plain("a", 1), [Plain("a", 2) EXCEPT !.claims = {"home"}],
     [Plain("c", 1) EXCEPT !.conflicts = {"b"}, !.claims = {"home"}],
     [Plain("b", 1) EXCEPT !.needs = {[pack |-> "a", versions |-> {1}]}]}

MCClients == {p, q}
MCSymmetry == Permutations(MCClients)
===============================================================================
