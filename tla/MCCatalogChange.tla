--------------------------- MODULE MCCatalogChange ---------------------------
(***************************************************************************)
(* An instance for TLC: two commands on two sites, each with one object    *)
(* that has two definitions and does not exist at first.                   *)
(***************************************************************************)
EXTENDS CatalogChange, TLC

CONSTANTS p1, p2, s1, s2, t1, d1, d2

MCProc == {p1, p2}
MCSite == {s1, s2}
MCObject == {t1}
MCDef == {d1, d2}
MCSymmetry ==
    Permutations(MCProc) \cup Permutations(MCSite) \cup Permutations(MCDef)

MCInit ==
    /\ Init
    /\ \A s \in Site : catalog[s] = [o \in Object |-> None]
MCSpec == MCInit /\ [][Next]_vars
=============================================================================
