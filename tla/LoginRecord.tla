----------------------------- MODULE LoginRecord -----------------------------
(***************************************************************************)
(* What internal/auth/manager.go promises to the commands: one credential  *)
(* record, whatever the processes do at the same time and whatever fails.  *)
(* A new login is installed once; its record then only moves to the next   *)
(* token pair, goes away, or is undone by the login that installed it,     *)
(* while it still is the very record that login wrote.                     *)
(*                                                                         *)
(* So a record that was removed stays removed, a token pair never moves    *)
(* back, and the record of one login never turns into that of another.     *)
(***************************************************************************)
EXTENDS Naturals

CONSTANTS
    Grant,      \* what one interactive authorization creates
    MaxGen,     \* bound: rotations per grant
    None,       \* no record
    Invalid     \* a record that cannot be used

VARIABLES
    record,     \* the record: grant and generation, None or Invalid
    fresh,      \* grants whose login may still be installed
    undo        \* grant -> the record its installation may put back, if any

recordVars == <<record, fresh, undo>>

Pair == [grant : Grant, gen : 0..MaxGen]
FirstPair(g) == [grant |-> g, gen |-> 0]

(* What there was before a login was installed. *)
Replaced == IF record \in Pair THEN record ELSE None

RecordInit ==
    /\ record \in {None, Invalid}
    /\ fresh = Grant
    /\ undo = [g \in Grant |-> {}]

(* SaveLogin.  A keyring that cannot be read counts as no record. *)
Install(g) ==
    /\ g \in fresh
    /\ fresh' = fresh \ {g}
    /\ record' = FirstPair(g)
    /\ \/ UNCHANGED undo
       \/ \E r \in {Replaced, None} : undo' = [undo EXCEPT ![g] = {r}]

(* The login never comes: its tokens do not arrive, another one is stored, *)
(* or installing it fails, which may cost the record that was there.       *)
Forgo(g) ==
    /\ g \in fresh
    /\ fresh' = fresh \ {g}
    /\ record' \in {record, None}
    /\ UNCHANGED undo

(* refresh: the next pair of the login that is stored. *)
Renew ==
    /\ record \in Pair
    /\ record.gen < MaxGen
    /\ record' = [record EXCEPT !.gen = @ + 1]
    /\ UNCHANGED <<fresh, undo>>

(* Logout, and a refresh that finds the login has ended. *)
Remove ==
    /\ record' = None
    /\ UNCHANGED <<fresh, undo>>

(* RestoreLogin, which can do so once. *)
Undo(g) ==
    /\ record = FirstPair(g)
    /\ record' \in undo[g]
    /\ undo' = [undo EXCEPT ![g] = {}]
    /\ UNCHANGED fresh

(* The login is there to stay, or its rollback came too late or failed. *)
Settle(g) ==
    /\ UNCHANGED <<record, fresh>>
    /\ undo' = [undo EXCEPT ![g] = {}]

RecordNext ==
    \/ \E g \in Grant : Settle(g) \/ Undo(g) \/ Install(g) \/ Forgo(g)
    \/ Renew
    \/ Remove

RecordSpec == RecordInit /\ [][RecordNext]_recordVars
=============================================================================
