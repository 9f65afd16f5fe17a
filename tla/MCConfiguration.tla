--------------------------- MODULE MCConfiguration ---------------------------
(***************************************************************************)
(* Instance for TLC: two terminals and two servers.                        *)
(***************************************************************************)
EXTENDS Configuration

CONSTANTS p1, p2, s1, s2

MCProc == {p1, p2}
MCServer == {s1, s2}
=============================================================================
