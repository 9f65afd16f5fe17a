--------------------------- MODULE MCQueryExecution ---------------------------
(***************************************************************************)
(* Instance for TLC: a user who runs a statement up to three times.        *)
(***************************************************************************)
EXTENDS QueryExecution
=============================================================================
