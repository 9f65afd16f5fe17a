--------------------------- MODULE CredentialSlot ---------------------------
(***************************************************************************)
(* What internal/credential promises to the auth manager: one record per   *)
(* control plane, whatever the number of places it is kept in.  A call     *)
(* holds the manager's file lock, so calls do not overlap; a call may fail *)
(* or be killed at any point.  The record only ever changes from what it   *)
(* was before the call to what the call asked for.  The one exception is a *)
(* new login whose installation fails half way: it may leave no record.    *)
(***************************************************************************)
EXTENDS CredentialRecord

VARIABLES
    slot,       \* the record Load returns
    call,       \* the call in progress: what kind it is and what it installs
    result      \* how the last call ended

slotVars == <<slot, call, result>>

Idle == [op |-> "idle", target |-> None]

Calls ==
    [op : {"save", "replace", "restore"}, target : Record]
        \cup [op : {"delete"}, target : {None}]

SlotInit ==
    /\ slot \in {None, Invalid}
    /\ call = Idle
    /\ result = "none"

(* Save rewrites the record that is there; it never installs another login. *)
Call(c) ==
    /\ call = Idle
    /\ c.op = "save" => slot \in Record /\ slot.login = c.target.login
    /\ call' = c
    /\ UNCHANGED <<slot, result>>

Commit ==
    /\ call # Idle
    /\ slot' = call.target
    /\ UNCHANGED <<call, result>>

(* Store.Replace removes the new login again when it cannot finish. *)
GiveUp ==
    /\ call.op = "replace"
    /\ slot' = None
    /\ UNCHANGED <<call, result>>

(* A call that reports success has installed its target. *)
Return(r) ==
    /\ call # Idle
    /\ r = "ok" => slot = call.target
    /\ call' = Idle
    /\ result' = r
    /\ UNCHANGED slot

(* The last store access of a call and its return are one step. *)
CommitAndReturn(r) ==
    /\ call # Idle
    /\ slot' = call.target
    /\ call' = Idle
    /\ result' = r

GiveUpAndReturn ==
    /\ call.op = "replace"
    /\ slot' = None
    /\ call' = Idle
    /\ result' = "error"

SlotNext ==
    \/ \E c \in Calls : Call(c)
    \/ Commit
    \/ GiveUp
    \/ \E r \in {"ok", "error", "crash"} : Return(r) \/ CommitAndReturn(r)
    \/ GiveUpAndReturn

SlotSpec == SlotInit /\ [][SlotNext]_slotVars
=============================================================================
