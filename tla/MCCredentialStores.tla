------------------------- MODULE MCCredentialStores -------------------------
(***************************************************************************)
(* Instance for TLC: three logins, so that a leftover, a replaced and a new *)
(* one can exist together; one renewal of each.                             *)
(***************************************************************************)
EXTENDS CredentialStores, TLC

CONSTANTS l1, l2, l3

MCLogin == {l1, l2, l3}
MCSymmetry == Permutations(MCLogin)
=============================================================================
