------------------------------ MODULE MCApiKeys ------------------------------
(***************************************************************************)
(* Instance for TLC: two keys that may share a name or be called by the    *)
(* other's ID, two workspaces, and the owner and a member.                 *)
(***************************************************************************)
EXTENDS ApiKeys, TLC

CONSTANTS k1, k2, n1, w1, w2, u1, u2

MCId == {k1, k2}
MCName == {n1, k1}
MCSite == {w1, w2}
MCUser == {u1, u2}
MCSymmetry == Permutations(MCSite)
=============================================================================
