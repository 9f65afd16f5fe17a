-------------------------- MODULE CredentialRecord --------------------------
(***************************************************************************)
(* internal/credential/store.go: the record one control plane has, as far  *)
(* as the two credential stores tell records apart: the login it belongs   *)
(* to and how often its access token was renewed.                          *)
(***************************************************************************)
EXTENDS Naturals

CONSTANTS
    Login,      \* identities of logins (one interactive authorization each)
    MaxRev,     \* bound: how often the access token of one login is renewed
    None,       \* no record
    Invalid,    \* a record that cannot be decoded or fails validation
    Cleared     \* the logout marker: hides the keyring, holds no tokens

Record == [login : Login, rev : 0..MaxRev]

ASSUME RecordAssumption ==
    /\ MaxRev \in Nat
    /\ None \notin Record /\ Invalid \notin Record /\ Cleared \notin Record
    /\ None # Invalid /\ None # Cleared /\ Invalid # Cleared
=============================================================================
