--------------------------- MODULE MCLoopbackLogin ---------------------------
(***************************************************************************)
(* Instance for TLC: three connections, one more than the channel and the  *)
(* login can take; all answers of the server, the denial of an earlier     *)
(* login and the code of another server.                                   *)
(***************************************************************************)
EXTENDS LoopbackLogin

CONSTANTS c1, c2, c3

MCConn == {c1, c2, c3}
MCCallback ==
    {[own |-> TRUE, issuer |-> TRUE, answer |-> a] : a \in Brought}
    \cup {[own |-> FALSE, issuer |-> TRUE, answer |-> "denied"],
          [own |-> TRUE, issuer |-> FALSE, answer |-> "code"]}
=============================================================================
