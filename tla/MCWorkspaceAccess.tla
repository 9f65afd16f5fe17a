-------------------------- MODULE MCWorkspaceAccess --------------------------
(***************************************************************************)
(* Instance for TLC: two processes, two workspaces of the account, two    *)
(* logins, and a CI job in a workspace of its own.                         *)
(***************************************************************************)
EXTENDS WorkspaceAccess, TLC

CONSTANTS p1, p2, w1, w2

MCProc == {p1, p2}
MCWorkspace == {w1, w2}
MCSymmetry == Permutations(MCProc) \cup Permutations(MCWorkspace)
=============================================================================
