---------------------------- MODULE MCAuthManager ----------------------------
(* Instance for TLC: two processes and one or two grants. *)
EXTENDS AuthManager, TLC

CONSTANTS p1, p2, g1, g2

MCProc == {p1, p2}
MCGrant == {g1, g2}
MCOneGrant == {g1}
MCSymmetry == Permutations(MCProc) \cup Permutations(MCGrant)
=============================================================================
