------------------------ MODULE WorkspaceAccessProofs ------------------------
(***************************************************************************)
(* Proofs about WorkspaceAccess, for any number of processes, workspaces,  *)
(* logins and refreshes: types, which workspace and whose token a query    *)
(* ends up with, and that no snapshot is written back over newer state.    *)
(*                                                                         *)
(* Two facts carry them: what the lock holder read is still the record,    *)
(* and every data token, stored or in a snapshot, belongs to the login it  *)
(* is kept with.                                                           *)
(***************************************************************************)
EXTENDS WorkspaceAccess, TLAPS

Owned(r) == r.data # None => r.data.login = r.login

(* Steps with a record to work with, and with a workspace resolved. *)
Working == {"account", "account2", "refresh", "refresh2", "refreshX",
            "send", "send2", "sendX", "workspace", "exchange", "exchange2",
            "saveData"}
Resolved == {"refreshX", "sendX", "workspace", "exchange", "exchange2", "saveData"}

IdleOK(p) ==
    pc[p] = "idle" => p \notin sawLogin /\ target[p] = None /\ access[p] = None

SnapshotOK(p) ==
    /\ pc[p] \in Working => state[p] \in Record
    /\ state[p] \in Record => Owned(state[p])

TargetOK(p) ==
    /\ pc[p] \in Resolved => target[p] \in Target
    /\ cmd[p] # "query" \/ pc[p] \in {"clear", "select"} =>
          target[p] \in Optional(Workspace)

HolderOK(p) == pc[p] \in Locked => lock = p /\ record = state[p]

OidcOK(p) ==
    /\ pc[p] = "oidc" => /\ p \notin sawLogin /\ cmd[p] = "query"
                         /\ OidcWorkspace # None
    /\ p \in sawLogin /\ access[p] # None => access[p].login # Oidc

TokenOK(p) ==
    /\ pc[p] = "saveData" => /\ access[p] \in DataToken
                             /\ access[p].login = state[p].login
                             /\ access[p].ws = target[p]
    /\ pc[p] = "deliver" => access[p].ws = target[p]

(* What a login that is being installed wrote, and what it may put back.   *)
RollbackOK(p) ==
    pc[p] \in Installed =>
        /\ state[p] \in Record /\ state[p].gen = 0 /\ state[p].login <= logins
        /\ previous[p] # None => /\ Owned(previous[p])
                                 /\ previous[p].login <= logins

StageOK(p) ==
    /\ IdleOK(p) /\ SnapshotOK(p) /\ TargetOK(p) /\ HolderOK(p)
    /\ OidcOK(p) /\ TokenOK(p) /\ RollbackOK(p)

RecordOK == record # None => Owned(record) /\ record.login <= logins

IInv == TypeOK /\ RecordOK /\ \A p \in Proc : StageOK(p)

-----------------------------------------------------------------------------
(* The steps of refresh *)

LEMMA RefreshSteps ==
    /\ Waiting = {"refresh", "refresh2", "refreshX"}
    /\ \A w \in Waiting : Sending[w] \in Locked /\ Resume[w] \in Working
    /\ Sending["refreshX"] = "sendX" /\ Sending["refresh"] = "send"
    /\ Sending["refresh2"] = "send2"
    /\ Resume["refresh"] = "account" /\ Resume["refresh2"] = "account2"
    /\ Resume["refreshX"] = "exchange2"
    /\ After("send") = "account" /\ After("send2") = "account2"
    /\ After("sendX") = "exchange2"
<1>1. Waiting = {"refresh", "refresh2", "refreshX"}
  BY DEF Waiting, Resume
<1>2. /\ Sending["refreshX"] = "sendX" /\ Sending["refresh"] = "send"
      /\ Sending["refresh2"] = "send2"
      /\ Resume["refresh"] = "account" /\ Resume["refresh2"] = "account2"
      /\ Resume["refreshX"] = "exchange2"
  BY DEF Sending, Resume
<1>3. /\ (CHOOSE r \in Waiting : Sending[r] = "send") = "refresh"
      /\ (CHOOSE r \in Waiting : Sending[r] = "send2") = "refresh2"
      /\ (CHOOSE r \in Waiting : Sending[r] = "sendX") = "refreshX"
  BY <1>1, <1>2
<1> QED
  BY <1>1, <1>2, <1>3 DEF After, Locked, Working

(* What a command remembers of a record. *)
LEMMA KeptRecord ==
    ASSUME NEW p \in Proc, NEW q \in Record, Owned(q)
    PROVE  /\ Kept(p, q) \in Record /\ Owned(Kept(p, q))
           /\ Kept(p, q).login = q.login /\ Kept(p, q).gen = q.gen
           /\ Kept(p, q).ws = q.ws
<1>1. CASE cmd[p] = "query"
  BY <1>1 DEF Kept
<1>2. CASE cmd[p] # "query"
  <2>1. Kept(p, q) = [q EXCEPT !.data = None]
    BY <1>2 DEF Kept
  <2>2. None \in Optional(DataToken)
    BY DEF Optional
  <2> QED
    BY <2>1, <2>2 DEF Record, Owned
<1> QED
  BY <1>1, <1>2

(* Only p moves; it writes when it holds the lock or nobody does. *)
Moves(p) ==
    \A q \in Proc \ {p} :
        /\ UNCHANGED <<pc[q], cmd[q], state[q], target[q], access[q], previous[q]>>
        /\ q \in sawLogin' <=> q \in sawLogin

LEMMA OthersKeep ==
    ASSUME IInv, NEW p \in Proc, Moves(p), TypeOK', RecordOK', StageOK(p)',
           \/ record' = record /\ lock' = lock
           \/ lock \in {None, p},
           logins' \in {logins, logins + 1}
    PROVE  IInv'
<1>0. logins \in Nat
  BY WorkspaceAssumption DEF IInv, TypeOK
<1>1. ASSUME NEW q \in Proc, q # p
      PROVE  StageOK(q)'
  <2>1. /\ UNCHANGED <<pc[q], cmd[q], state[q], target[q], access[q], previous[q]>>
        /\ q \in sawLogin' <=> q \in sawLogin
        /\ \/ record' = record /\ lock' = lock
           \/ lock \in {None, p}
    BY <1>1 DEF Moves
  <2>2. StageOK(q)
    BY DEF IInv
  <2>3. HolderOK(q)'
    <3>1. CASE record' = record /\ lock' = lock
      BY <2>1, <2>2, <3>1 DEF StageOK, HolderOK
    <3>2. CASE lock \in {None, p}
      <4>1. lock # q
        BY <1>1, <3>2, WorkspaceAssumption
      <4> QED
        BY <2>1, <2>2, <4>1 DEF StageOK, HolderOK
    <3> QED
      BY <2>1, <3>1, <3>2
  <2>4. IdleOK(q)' /\ SnapshotOK(q)' /\ TargetOK(q)'
    BY <2>1, <2>2 DEF StageOK, IdleOK, SnapshotOK, TargetOK, Owned
  <2>5. OidcOK(q)' /\ TokenOK(q)'
    BY <2>1, <2>2 DEF StageOK, OidcOK, TokenOK
  <2>6. RollbackOK(q)'
    <3>1. ASSUME NEW n \in Nat, n <= logins PROVE n <= logins'
      BY <1>0, <3>1
    <3>2. ASSUME NEW t \in Record PROVE t.login \in Nat
      BY WorkspaceAssumption DEF Record, Login
    <3>3. previous[q] \in Optional(Record)
      BY DEF IInv, TypeOK
    <3> QED
      BY <2>1, <2>2, <3>1, <3>2, <3>3 DEF StageOK, RollbackOK, Owned, Optional
  <2> QED
    BY <2>3, <2>4, <2>5, <2>6 DEF StageOK
<1> QED
  BY <1>1 DEF IInv

(* A command that ends, whatever it does to the record. *)
LEMMA DoneKeeps ==
    ASSUME IInv, NEW p \in Proc, Done(p),
           \/ record' = record /\ lock' = lock
           \/ lock \in {None, p},
           lock' \in {lock, None}, UNCHANGED <<logins, open>>,
           record' \in Optional(Record), RecordOK'
    PROVE  IInv'
<1>1. /\ pc' = [pc EXCEPT ![p] = "idle"]
      /\ cmd' = [cmd EXCEPT ![p] = "query"]
      /\ state' = [state EXCEPT ![p] = None]
      /\ target' = [target EXCEPT ![p] = None]
      /\ access' = [access EXCEPT ![p] = None]
      /\ previous' = [previous EXCEPT ![p] = None]
      /\ sawLogin' = sawLogin \ {p}
  BY DEF Done, Goto
<1>2. TypeOK
  BY DEF IInv
<1>3. TypeOK'
  BY <1>1, <1>2 DEF TypeOK, PC, Commands, Optional
<1>4. /\ pc'[p] = "idle" /\ cmd'[p] = "query" /\ target'[p] = None
      /\ state'[p] = None /\ access'[p] = None /\ p \notin sawLogin'
  BY <1>1, <1>2 DEF TypeOK
<1>5. /\ IdleOK(p)' /\ TargetOK(p)' /\ HolderOK(p)' /\ OidcOK(p)' /\ TokenOK(p)'
      /\ RollbackOK(p)'
  BY <1>4 DEF IdleOK, TargetOK, HolderOK, OidcOK, TokenOK, RollbackOK, Installed, Resolved, Locked
<1>6. SnapshotOK(p)'
  BY <1>4, WorkspaceAssumption DEF SnapshotOK, Working
<1>7. Moves(p)
  BY <1>1, <1>2 DEF Moves, TypeOK
<1> QED
  BY <1>3, <1>5, <1>6, <1>7, OthersKeep DEF StageOK

LEMMA FailsKeep ==
    ASSUME IInv, NEW p \in Proc, Fails(p)
    PROVE  IInv'
<1>1. Done(p) /\ UNCHANGED <<record, lock, logins, open>>
  BY DEF Fails
<1>2. record' \in Optional(Record) /\ RecordOK'
  BY <1>1 DEF IInv, TypeOK, RecordOK, Owned
<1> QED
  BY <1>1, <1>2, DoneKeeps

(* An action of p that leaves the record and the lock alone.               *)
LEMMA LocalKeeps ==
    ASSUME IInv, NEW p \in Proc, OnlyLocal, Moves(p), TypeOK', StageOK(p)'
    PROVE  IInv'
<1>1. UNCHANGED <<record, lock, logins, open>>
  BY DEF OnlyLocal
<1>2. RecordOK'
  BY <1>1 DEF IInv, RecordOK, Owned
<1> QED
  BY <1>1, <1>2, OthersKeep

-----------------------------------------------------------------------------
(* Every step preserves the invariant *)

LEMMA StartQueryInv ==
    ASSUME IInv, NEW p \in Proc, StartQuery(p)
    PROVE  IInv'
<1>1. /\ pc[p] = "idle" /\ TypeOK /\ StageOK(p)
      /\ p \notin sawLogin /\ target[p] = None /\ access[p] = None
  BY DEF IInv, StartQuery, StageOK, IdleOK
<1>2. PICK l \in {"oidc", "load"} :
         /\ pc' = [pc EXCEPT ![p] = l]
         /\ cmd' = [cmd EXCEPT ![p] = "query"]
         /\ UNCHANGED <<state, target, access, previous>> /\ OnlyLocal
         /\ l = "oidc" => OidcWorkspace # None /\ sawLogin' = sawLogin
         /\ l = "load" => sawLogin' = sawLogin \cup {p}
  BY DEF StartQuery, Goto
<1>3. UNCHANGED <<record, lock, logins, open>>
  BY <1>2 DEF OnlyLocal
<1>4. TypeOK'
  BY <1>1, <1>2, <1>3 DEF TypeOK, PC, Commands
<1>5. pc'[p] = l /\ cmd'[p] = "query"
  BY <1>1, <1>2 DEF TypeOK
<1>6. StageOK(p)'
  BY <1>1, <1>2, <1>5 DEF StageOK, IdleOK, SnapshotOK, TargetOK, HolderOK, OidcOK,
         TokenOK, RollbackOK, Installed, Working, Resolved, Locked, Owned
<1>7. Moves(p)
  BY <1>1, <1>2 DEF Moves, TypeOK
<1> QED
  BY <1>2, <1>4, <1>6, <1>7, LocalKeeps

LEMMA StartSelectInv ==
    ASSUME IInv, NEW p \in Proc,
           StartStatus(p) \/ \E w \in Workspace : StartUse(p, w)
    PROVE  IInv'
<1>1. /\ pc[p] = "idle" /\ TypeOK /\ StageOK(p)
      /\ p \notin sawLogin /\ target[p] = None /\ access[p] = None
  BY DEF IInv, StartStatus, StartUse, StageOK, IdleOK
<1>2. PICK c \in {"use", "status"}, t \in Optional(Workspace) :
         /\ pc' = [pc EXCEPT ![p] = "load"]
         /\ cmd' = [cmd EXCEPT ![p] = c]
         /\ target' = [target EXCEPT ![p] = t]
         /\ UNCHANGED <<state, access, previous, sawLogin>> /\ OnlyLocal
  <2>1. CASE StartStatus(p)
    <3>1. target' = [target EXCEPT ![p] = None] /\ None \in Optional(Workspace)
      BY <1>1, <2>1 DEF StartStatus, TypeOK, Optional
    <3> QED
      BY <2>1, <3>1 DEF StartStatus, Goto
  <2>2. ASSUME NEW w \in Workspace, StartUse(p, w)
        PROVE  \E c \in {"use", "status"}, t \in Optional(Workspace) :
                  /\ pc' = [pc EXCEPT ![p] = "load"]
                  /\ cmd' = [cmd EXCEPT ![p] = c]
                  /\ target' = [target EXCEPT ![p] = t]
                  /\ UNCHANGED <<state, access, previous, sawLogin>> /\ OnlyLocal
    BY <2>2 DEF StartUse, Goto, Optional
  <2> QED
    BY <2>1, <2>2
<1>3. UNCHANGED <<record, lock, logins, open>>
  BY <1>2 DEF OnlyLocal
<1>4. t \in Optional(Target)
  BY DEF Optional, Target
<1>5. TypeOK'
  BY <1>1, <1>2, <1>3, <1>4 DEF TypeOK, PC, Commands
<1>6. pc'[p] = "load" /\ cmd'[p] = c /\ target'[p] = t
  BY <1>1, <1>2 DEF TypeOK
<1>7. StageOK(p)'
  BY <1>1, <1>2, <1>6 DEF StageOK, IdleOK, SnapshotOK, TargetOK, HolderOK, OidcOK,
         TokenOK, RollbackOK, Installed, Working, Resolved, Locked, Owned
<1>8. Moves(p)
  BY <1>1, <1>2 DEF Moves, TypeOK
<1> QED
  BY <1>2, <1>5, <1>7, <1>8, LocalKeeps

(* The record a new login writes. *)
LEMMA NewLoginRecord ==
    ASSUME IInv, logins < MaxLogin, NEW before \in {record, None}
    PROVE  /\ NewLogin(before) \in Record /\ NewLogin(before) # None
           /\ NewLogin(before).login = logins + 1 /\ NewLogin(before).gen = 0
           /\ NewLogin(before).data = None
           /\ NewLogin(before).ws = IF before = None THEN None ELSE before.ws
           /\ logins \in Nat /\ logins + 1 \in Login /\ logins + 1 \in 0..MaxLogin
<1>1. logins \in Nat /\ logins + 1 \in Login /\ logins + 1 \in 0..MaxLogin
  BY WorkspaceAssumption DEF IInv, TypeOK, Login
<1>2. (IF before = None THEN None ELSE before.ws) \in Optional(Workspace)
  BY DEF IInv, TypeOK, Optional, Record
<1>3. 0 \in 0..MaxGen /\ None \in Optional(DataToken)
  BY WorkspaceAssumption DEF Optional
<1>4. NewLogin(before) \in Record
  BY <1>1, <1>2, <1>3 DEF NewLogin, Record
<1>5. NewLogin(before) # None
  BY <1>4, WorkspaceAssumption
<1> QED
  BY <1>1, <1>4, <1>5 DEF NewLogin

LEMMA StartLoginInv ==
    ASSUME IInv, NEW p \in Proc, NEW t \in Optional(Workspace), StartLogin(p, t)
    PROVE  IInv'
<1>1. /\ pc[p] = "idle" /\ TypeOK /\ StageOK(p) /\ RecordOK
      /\ p \notin sawLogin /\ target[p] = None /\ access[p] = None
  BY DEF IInv, StartLogin, StageOK, IdleOK
<1>2. /\ lock = None /\ lock' = lock /\ open' = open
      /\ logins < MaxLogin /\ logins' = logins + 1
  BY DEF StartLogin
<1>3. PICK b \in {record, None} :
         \/ \E c \in {"login", "loginTo"} :
              /\ record' = NewLogin(b)
              /\ state' = [state EXCEPT ![p] = NewLogin(b)]
              /\ previous' = [previous EXCEPT ![p] = b]
              /\ pc' = [pc EXCEPT ![p] = "config"]
              /\ cmd' = [cmd EXCEPT ![p] = c]
              /\ target' = [target EXCEPT ![p] = t]
              /\ UNCHANGED <<access, sawLogin>>
         \/ record' \in {record, None, NewLogin(b)} /\ UNCHANGED local
  BY DEF StartLogin, Goto
<1> DEFINE r == NewLogin(b)
<1>4. /\ r \in Record /\ r.login = logins + 1 /\ r.gen = 0 /\ r.data = None
      /\ logins \in Nat /\ logins + 1 \in Login /\ logins + 1 \in 0..MaxLogin
  BY <1>2, NewLoginRecord
<1> HIDE DEF r
<1>5. t \in Optional(Target) /\ b \in Optional(Record)
  BY <1>1 DEF Optional, Target, TypeOK
<1>6. /\ Owned(r)
      /\ record # None => Owned(record) /\ record.login <= logins + 1
      /\ b # None => Owned(b) /\ b.login <= logins + 1
  <2>1. record # None => /\ Owned(record) /\ record.login <= logins
                         /\ record.login \in Nat
    BY <1>1, WorkspaceAssumption DEF RecordOK, TypeOK, Optional, Record, Login
  <2>2. record # None => record.login <= logins + 1
    BY <1>4, <2>1
  <2> QED
    BY <1>4, <2>1, <2>2 DEF Owned
<1>7. CASE /\ record' = r
           /\ state' = [state EXCEPT ![p] = r]
           /\ previous' = [previous EXCEPT ![p] = b]
           /\ pc' = [pc EXCEPT ![p] = "config"]
           /\ \E c \in {"login", "loginTo"} : cmd' = [cmd EXCEPT ![p] = c]
           /\ target' = [target EXCEPT ![p] = t]
           /\ UNCHANGED <<access, sawLogin>>
  <2>1. PICK c \in {"login", "loginTo"} : cmd' = [cmd EXCEPT ![p] = c]
    BY <1>7
  <2>2. TypeOK'
    BY <1>1, <1>2, <1>4, <1>5, <1>7, <2>1 DEF TypeOK, PC, Commands, Optional
  <2>3. RecordOK'
    BY <1>2, <1>4, <1>6, <1>7 DEF RecordOK, Owned
  <2>4. /\ pc'[p] = "config" /\ cmd'[p] = c /\ target'[p] = t
        /\ state'[p] = r /\ previous'[p] = b
    BY <1>1, <1>7, <2>1 DEF TypeOK
  <2>5. RollbackOK(p)'
    BY <1>2, <1>4, <1>6, <2>4 DEF RollbackOK, Owned
  <2>6. StageOK(p)'
    BY <1>1, <1>4, <1>6, <1>7, <2>4, <2>5 DEF StageOK, IdleOK, SnapshotOK, TargetOK,
       HolderOK, OidcOK, TokenOK, Working, Resolved, Locked, Owned
  <2>7. Moves(p)
    BY <1>1, <1>7, <2>1 DEF Moves, TypeOK
  <2> QED
    BY <1>2, <2>2, <2>3, <2>6, <2>7, OthersKeep
<1>8. CASE record' \in {record, None, r} /\ UNCHANGED local
  <2>1. UNCHANGED <<pc, cmd, state, target, access, previous, sawLogin>>
    BY <1>8 DEF local
  <2>2. TypeOK'
    BY <1>1, <1>2, <1>4, <1>8, <2>1 DEF TypeOK, Optional
  <2>3. RecordOK'
    BY <1>2, <1>4, <1>6, <1>8 DEF RecordOK, Owned
  <2>4. StageOK(p)'
    BY <1>1, <2>1 DEF StageOK, IdleOK, SnapshotOK, TargetOK, HolderOK, OidcOK,
       TokenOK, RollbackOK, Installed, Working, Resolved, Locked, Owned
  <2>5. Moves(p)
    BY <2>1 DEF Moves
  <2> QED
    BY <1>2, <2>2, <2>3, <2>4, <2>5, OthersKeep
<1> QED
  BY <1>3, <1>7, <1>8 DEF r

LEMMA LoginInv ==
    ASSUME IInv, NEW p \in Proc, LoginStep(p)
    PROVE  IInv'
<1>1. TypeOK /\ StageOK(p) /\ RecordOK
  BY DEF IInv
<1>2. CASE RestoreFails(p)
  BY <1>2, FailsKeep DEF RestoreFails
<1>3. CASE RestoreLogin(p)
  <2>1. /\ pc[p] \in Installed /\ lock = None /\ Done(p)
        /\ record' \in {record, previous[p]} /\ UNCHANGED <<lock, logins, open>>
    BY <1>3 DEF RestoreLogin, Installed
  <2>2. /\ record' \in Optional(Record)
        /\ previous[p] # None => Owned(previous[p]) /\ previous[p].login <= logins
    BY <1>1, <2>1 DEF TypeOK, StageOK, RollbackOK
  <2>3. RecordOK'
    BY <1>1, <2>1, <2>2 DEF RecordOK, Owned
  <2> QED
    BY <2>1, <2>2, <2>3, DoneKeeps
<1>4. CASE SaveConfig(p)
  <2>1. PICK l \in {"load", "restore"}, x \in {None, state[p]}, y \in {None, previous[p]} :
           /\ pc[p] = "config" /\ pc' = [pc EXCEPT ![p] = l]
           /\ state' = [state EXCEPT ![p] = x]
           /\ previous' = [previous EXCEPT ![p] = y]
           /\ l = "restore" => x = state[p] /\ y = previous[p]
           /\ l = "load" => x = None /\ y = None
           /\ UNCHANGED <<cmd, target, access, sawLogin>> /\ OnlyLocal
    <3>1. /\ state = [state EXCEPT ![p] = state[p]]
          /\ previous = [previous EXCEPT ![p] = previous[p]]
      BY <1>1 DEF TypeOK
    <3> QED
      BY <1>4, <3>1 DEF SaveConfig, Goto
  <2>2. UNCHANGED <<record, lock, logins, open>>
    BY <2>1 DEF OnlyLocal
  <2>3. TypeOK'
    BY <1>1, <2>1, <2>2 DEF TypeOK, PC, Optional
  <2>4. pc'[p] = l /\ state'[p] = x /\ previous'[p] = y
    BY <1>1, <2>1 DEF TypeOK
  <2>5. StageOK(p)'
    BY <1>1, <2>1, <2>2, <2>4, WorkspaceAssumption DEF StageOK, IdleOK, SnapshotOK,
       TargetOK, HolderOK, OidcOK, TokenOK, RollbackOK, Installed, Working, Resolved,
       Locked, Owned
  <2>6. Moves(p)
    BY <1>1, <2>1 DEF Moves, TypeOK
  <2> QED
    BY <2>1, <2>3, <2>5, <2>6, LocalKeeps
<1> QED
  BY <1>2, <1>3, <1>4 DEF LoginStep

LEMMA AccountInv ==
    ASSUME IInv, NEW p \in Proc, AccountStep(p)
    PROVE  IInv'
<1>1. TypeOK /\ StageOK(p) /\ RecordOK
  BY DEF IInv
<1>2. CASE LoadFails(p) \/ AccountFails(p)
  BY <1>2, FailsKeep DEF LoadFails, AccountFails
<1>3. CASE Load(p)
  <2>1. PICK l \in {"account", "refresh"} :
           /\ pc[p] = "load" /\ record # None
           /\ pc' = [pc EXCEPT ![p] = l]
           /\ state' = [state EXCEPT ![p] = Kept(p, record)]
           /\ UNCHANGED <<cmd, target, access, previous, sawLogin>> /\ OnlyLocal
    BY <1>3 DEF Load, Goto
  <2>2. UNCHANGED <<record, lock, logins, open>>
    BY <2>1 DEF OnlyLocal
  <2>a. record \in Record /\ Owned(record)
    BY <1>1, <2>1 DEF TypeOK, Optional, RecordOK
  <2>b. Kept(p, record) \in Record /\ Owned(Kept(p, record))
    BY <2>a, KeptRecord
  <2>3. TypeOK'
    BY <1>1, <2>1, <2>2, <2>b DEF TypeOK, PC, Optional
  <2>4. pc'[p] = l /\ state'[p] = Kept(p, record)
    BY <1>1, <2>1 DEF TypeOK
  <2>5. StageOK(p)'
    BY <1>1, <2>1, <2>4, <2>b DEF StageOK, IdleOK, SnapshotOK, TargetOK, HolderOK, OidcOK,
         TokenOK, RollbackOK, Installed, Working, Resolved, Locked, Owned
  <2>6. Moves(p)
    BY <1>1, <2>1 DEF Moves, TypeOK
  <2> QED
    BY <2>1, <2>3, <2>5, <2>6, LocalKeeps
<1>4. CASE AccountUnauthorized(p)
  <2>1. /\ pc[p] = "account" /\ pc' = [pc EXCEPT ![p] = "refresh2"]
        /\ UNCHANGED <<cmd, state, target, access, previous, sawLogin>> /\ OnlyLocal
    BY <1>4 DEF AccountUnauthorized, Goto
  <2>2. UNCHANGED <<record, lock, logins, open>>
    BY <2>1 DEF OnlyLocal
  <2>3. TypeOK' /\ pc'[p] = "refresh2"
    BY <1>1, <2>1, <2>2 DEF TypeOK, PC
  <2>4. StageOK(p)'
    BY <1>1, <2>1, <2>3 DEF StageOK, IdleOK, SnapshotOK, TargetOK, HolderOK, OidcOK,
         TokenOK, RollbackOK, Installed, Working, Resolved, Locked, Owned
  <2>5. Moves(p)
    BY <1>1, <2>1 DEF Moves, TypeOK
  <2> QED
    BY <2>1, <2>3, <2>4, <2>5, LocalKeeps
<1>5. CASE QueryAccount(p)
  <2>1. /\ pc[p] \in {"account", "account2"} /\ cmd[p] = "query" /\ OnlyLocal
        /\ state[p].ws \in open
        /\ target' = [target EXCEPT ![p] = state[p].ws]
        /\ pc' = [pc EXCEPT ![p] = "workspace"]
        /\ UNCHANGED <<cmd, state, access, previous, sawLogin>>
    BY <1>5 DEF QueryAccount, Accounted, RequireWorkspace, Goto
  <2>2. UNCHANGED <<record, lock, logins, open>>
    BY <2>1 DEF OnlyLocal
  <2>3. state[p].ws \in Target /\ state[p].ws \in Optional(Target)
    BY <1>1, <2>1 DEF TypeOK, Target, Optional
  <2>4. TypeOK'
    BY <1>1, <2>1, <2>2, <2>3 DEF TypeOK, PC
  <2>5. pc'[p] = "workspace" /\ target'[p] = state[p].ws
    BY <1>1, <2>1 DEF TypeOK
  <2>6. StageOK(p)'
    BY <1>1, <2>1, <2>3, <2>5 DEF StageOK, IdleOK, SnapshotOK, TargetOK, HolderOK, OidcOK,
         TokenOK, RollbackOK, Installed, Working, Resolved, Locked, Owned
  <2>7. Moves(p)
    BY <1>1, <2>1 DEF Moves, TypeOK
  <2> QED
    BY <2>1, <2>4, <2>6, <2>7, LocalKeeps
<1>6. ASSUME OnlyLocal, Done(p) PROVE IInv'
  BY <1>6, FailsKeep DEF Fails, OnlyLocal
<1>7. ASSUME NEW l \in {"clear", "select"}, NEW s \in {None, state[p]},
             NEW t \in Optional(Workspace), pc[p] \in {"account", "account2"},
             OnlyLocal,
             pc' = [pc EXCEPT ![p] = l],
             state' = [state EXCEPT ![p] = s],
             target' = [target EXCEPT ![p] = t],
             UNCHANGED <<cmd, access, previous, sawLogin>>
      PROVE  IInv'
  <2>1. UNCHANGED <<record, lock, logins, open>>
    BY <1>7 DEF OnlyLocal
  <2>2. t \in Optional(Target) /\ s \in Optional(Record)
    BY <1>1 DEF Optional, Target, TypeOK
  <2>3. TypeOK'
    BY <1>1, <1>7, <2>1, <2>2 DEF TypeOK, PC
  <2>4. pc'[p] = l /\ state'[p] = s /\ target'[p] = t
    BY <1>1, <1>7 DEF TypeOK
  <2>5. StageOK(p)'
    BY <1>1, <1>7, <2>4, WorkspaceAssumption DEF StageOK, IdleOK, SnapshotOK, TargetOK,
       HolderOK, OidcOK,
         TokenOK, RollbackOK, Installed, Working, Resolved, Locked, Owned
  <2>6. Moves(p)
    BY <1>1, <1>7 DEF Moves, TypeOK
  <2> QED
    BY <1>7, <2>3, <2>5, <2>6, LocalKeeps
<1>8. pc[p] \in {"account", "account2"} /\ cmd[p] # "query" => target[p] \in Optional(Workspace)
  BY <1>1 DEF StageOK, TargetOK
<1>9. /\ state = [state EXCEPT ![p] = state[p]]
      /\ target = [target EXCEPT ![p] = target[p]]
  BY <1>1 DEF TypeOK
<1>10. CASE UseAccount(p)
  BY <1>6, <1>7, <1>8, <1>9, <1>10 DEF UseAccount, Accounted, Goto
<1>11. CASE StatusAccount(p)
  BY <1>6, <1>7, <1>8, <1>9, <1>11 DEF StatusAccount, Accounted, Goto
<1>12. CASE LoginAccount(p)
  <2>1. open \subseteq Optional(Workspace)
    BY <1>1 DEF TypeOK, Optional
  <2>2. PICK w \in Optional(Workspace), l \in {"clear", "select"} :
           /\ pc[p] \in {"account", "account2"} /\ OnlyLocal
           /\ \/ /\ Goto(p, l)
                 /\ target' = [target EXCEPT ![p] = w]
                 /\ UNCHANGED <<cmd, state, access, previous, sawLogin>>
              \/ Done(p)
    BY <1>12, <2>1 DEF LoginAccount, Accounted, Optional
  <2> QED
    BY <1>6, <1>7, <1>9, <2>2 DEF Goto
<1> QED
  BY <1>2, <1>3, <1>4, <1>5, <1>10, <1>11, <1>12 DEF AccountStep

LEMMA RefreshInv ==
    ASSUME IInv, NEW p \in Proc, RefreshStep(p)
    PROVE  IInv'
<1>1. TypeOK /\ StageOK(p) /\ RecordOK
  BY DEF IInv
<1>2. CASE RefreshUnavailable(p)
  BY <1>2, FailsKeep DEF RefreshUnavailable
<1>3. CASE RefreshAdopts(p)
  <2>1. PICK l \in {"account", "account2", "exchange2"} :
           /\ pc[p] \in {"refresh", "refresh2", "refreshX"}
           /\ l = "exchange2" => pc[p] = "refreshX"
           /\ record # None
           /\ pc' = [pc EXCEPT ![p] = l]
           /\ state' = [state EXCEPT ![p] = Kept(p, record)]
           /\ UNCHANGED <<cmd, target, access, previous, sawLogin>> /\ OnlyLocal
    BY <1>3, RefreshSteps DEF RefreshAdopts, Goto
  <2>2. UNCHANGED <<record, lock, logins, open>>
    BY <2>1 DEF OnlyLocal
  <2>a. record \in Record /\ Owned(record)
    BY <1>1, <2>1 DEF TypeOK, Optional, RecordOK
  <2>b. Kept(p, record) \in Record /\ Owned(Kept(p, record))
    BY <2>a, KeptRecord
  <2>3. TypeOK'
    BY <1>1, <2>1, <2>2, <2>b DEF TypeOK, PC, Optional
  <2>4. pc'[p] = l /\ state'[p] = Kept(p, record)
    BY <1>1, <2>1 DEF TypeOK
  <2>5. StageOK(p)'
    BY <1>1, <2>1, <2>4, <2>b DEF StageOK, IdleOK, SnapshotOK, TargetOK, HolderOK, OidcOK,
         TokenOK, RollbackOK, Installed, Working, Resolved, Locked, Owned
  <2>6. Moves(p)
    BY <1>1, <2>1 DEF Moves, TypeOK
  <2> QED
    BY <2>1, <2>3, <2>5, <2>6, LocalKeeps
<1>4. CASE RefreshBegins(p)
  <2>1. PICK l \in {"send", "send2", "sendX"} :
           /\ pc[p] \in {"refresh", "refresh2", "refreshX"}
           /\ l = "sendX" => pc[p] = "refreshX"
           /\ lock = None /\ record # None /\ lock' = p
           /\ pc' = [pc EXCEPT ![p] = l]
           /\ state' = [state EXCEPT ![p] = record]
           /\ UNCHANGED <<record, logins, open, cmd, target, access, previous, sawLogin>>
    BY <1>4, RefreshSteps DEF RefreshBegins, ReadLocked, Goto
  <2>2. TypeOK'
    BY <1>1, <2>1 DEF TypeOK, PC, Optional
  <2>3. pc'[p] = l /\ state'[p] = record /\ record \in Record /\ Owned(record)
    BY <1>1, <2>1 DEF TypeOK, Optional, RecordOK
  <2>4. StageOK(p)'
    BY <1>1, <2>1, <2>3 DEF StageOK, IdleOK, SnapshotOK, TargetOK, HolderOK, OidcOK,
         TokenOK, RollbackOK, Installed, Working, Resolved, Locked, Owned
  <2>5. Moves(p) /\ RecordOK'
    BY <1>1, <2>1 DEF Moves, TypeOK, RecordOK, Owned
  <2> QED
    BY <2>1, <2>2, <2>4, <2>5, OthersKeep
<1>5. CASE RefreshSaves(p)
  <2> DEFINE r == [state[p] EXCEPT !.gen = state[p].gen + 1]
  <2>1. PICK l \in {"account", "account2", "exchange2"} :
           /\ pc[p] \in Locked /\ (l = "exchange2" => pc[p] = "sendX")
           /\ state[p].gen < MaxGen
           /\ record' = r /\ state' = [state EXCEPT ![p] = Kept(p, r)] /\ lock' = None
           /\ pc' = [pc EXCEPT ![p] = l]
           /\ UNCHANGED <<logins, open, cmd, target, access, previous, sawLogin>>
    BY <1>5, RefreshSteps DEF RefreshSaves, Goto, Locked
  <2>2. /\ state[p] \in Record /\ Owned(state[p])
        /\ lock = p /\ record = state[p]
    BY <1>1, <2>1 DEF StageOK, SnapshotOK, HolderOK, Working, Locked
  <2>3. state[p].gen + 1 \in 0..MaxGen
    BY <2>1, <2>2, WorkspaceAssumption DEF Record
  <2>4. r \in Record /\ r.login = record.login /\ r.data = record.data
    BY <2>2, <2>3 DEF Record
  <2> HIDE DEF r
  <2>7. Owned(r) /\ record # None
    BY <2>2, <2>4, WorkspaceAssumption DEF Owned
  <2>a. Kept(p, r) \in Record /\ Owned(Kept(p, r))
    BY <2>4, <2>7, KeptRecord
  <2>5. TypeOK'
    BY <1>1, <2>1, <2>4, <2>a DEF TypeOK, PC, Optional
  <2>6. pc'[p] = l /\ state'[p] = Kept(p, r)
    BY <1>1, <2>1 DEF TypeOK
  <2>8. StageOK(p)'
    BY <1>1, <2>1, <2>6, <2>a DEF StageOK, IdleOK, SnapshotOK, TargetOK, HolderOK,
       OidcOK,
         TokenOK, RollbackOK, Installed, Working, Resolved, Locked, Owned
  <2>9. RecordOK'
    BY <1>1, <2>1, <2>4, <2>7 DEF RecordOK, Owned
  <2>10. Moves(p)
    BY <1>1, <2>1 DEF Moves, TypeOK
  <2> QED
    BY <2>1, <2>2, <2>5, <2>8, <2>9, <2>10, OthersKeep
<1>6. CASE RefreshFails(p)
  <2>1. /\ Done(p) /\ lock' = None /\ UNCHANGED <<logins, open>>
        /\ record' \in {record, None} /\ pc[p] \in Locked
    BY <1>6 DEF RefreshFails
  <2>2. lock = p
    BY <1>1, <2>1 DEF StageOK, HolderOK
  <2>3. record' \in Optional(Record) /\ RecordOK'
    BY <1>1, <2>1 DEF TypeOK, Optional, RecordOK, Owned
  <2> QED
    BY <2>1, <2>2, <2>3, DoneKeeps
<1> QED
  BY <1>2, <1>3, <1>4, <1>5, <1>6 DEF RefreshStep

LEMMA AccessInv ==
    ASSUME IInv, NEW p \in Proc, AccessStep(p)
    PROVE  IInv'
<1>1. TypeOK /\ StageOK(p) /\ RecordOK
  BY DEF IInv
<1>2. CASE AccessFails(p) \/ Deliver(p)
  BY <1>2, FailsKeep DEF AccessFails, Deliver
<1>3. CASE WorkspaceReady(p) /\ Cached(p) /\ pc' = [pc EXCEPT ![p] = "deliver"]
  <2>1. /\ pc[p] = "workspace" /\ OnlyLocal
        /\ state[p].data # None /\ state[p].data.ws = target[p]
        /\ UNCHANGED <<cmd, target, previous, sawLogin>>
    BY <1>3 DEF WorkspaceReady, Cached
  <2>2. /\ access' = [access EXCEPT ![p] = state[p].data]
        /\ state' = [state EXCEPT ![p] = None]
    <3>1. pc' # [pc EXCEPT ![p] = "exchange"]
      <4>1. pc'[p] = "deliver"
        BY <1>1, <1>3 DEF TypeOK
      <4> QED
        BY <1>1, <4>1 DEF TypeOK
    <3> QED
      BY <1>3, <3>1 DEF WorkspaceReady, Goto
  <2>3. /\ state[p] \in Record /\ Owned(state[p])
    BY <1>1, <2>1 DEF StageOK, SnapshotOK, Working
  <2>4. /\ state[p].data \in DataToken /\ state[p].data.login \in Login
    BY <2>1, <2>3 DEF Record, Optional, Owned
  <2>5. state[p].data.login # Oidc
    BY <2>4, WorkspaceAssumption DEF Login, Oidc
  <2>6. UNCHANGED <<record, lock, logins, open>>
    BY <2>1 DEF OnlyLocal
  <2>7. TypeOK'
    BY <1>1, <1>3, <2>1, <2>2, <2>4, <2>6 DEF TypeOK, PC, Optional
  <2>8. pc'[p] = "deliver" /\ access'[p] = state[p].data /\ state'[p] = None
    BY <1>1, <1>3, <2>2 DEF TypeOK
  <2>9. StageOK(p)'
    BY <1>1, <2>1, <2>5, <2>8, WorkspaceAssumption DEF StageOK, IdleOK, SnapshotOK,
       TargetOK, HolderOK, OidcOK,
         TokenOK, RollbackOK, Installed, Working, Resolved, Locked, Owned
  <2>10. Moves(p)
    BY <1>1, <1>3, <2>1, <2>2 DEF Moves, TypeOK
  <2> QED
    BY <2>1, <2>7, <2>9, <2>10, LocalKeeps
<1>4. ASSUME NEW l \in {"exchange", "refreshX"}, pc[p] \in {"workspace", "exchange"},
             pc' = [pc EXCEPT ![p] = l],
             UNCHANGED <<cmd, state, target, access, previous, sawLogin>>, OnlyLocal
      PROVE  IInv'
  <2>1. UNCHANGED <<record, lock, logins, open>>
    BY <1>4 DEF OnlyLocal
  <2>2. TypeOK' /\ pc'[p] = l
    BY <1>1, <1>4, <2>1 DEF TypeOK, PC
  <2>3. StageOK(p)'
    BY <1>1, <1>4, <2>2 DEF StageOK, IdleOK, SnapshotOK, TargetOK, HolderOK, OidcOK,
         TokenOK, RollbackOK, Installed, Working, Resolved, Locked, Owned
  <2>4. Moves(p)
    BY <1>1, <1>4 DEF Moves, TypeOK
  <2> QED
    BY <1>4, <2>2, <2>3, <2>4, LocalKeeps
<1>5. CASE WorkspaceReady(p)
  BY <1>3, <1>4, <1>5 DEF WorkspaceReady, Goto
<1>6. CASE ExchangeUnauthorized(p)
  BY <1>4, <1>6 DEF ExchangeUnauthorized, Goto
<1>7. CASE Exchange(p)
  <2> DEFINE a == [login |-> state[p].login, ws |-> target[p]]
  <2>1. /\ pc[p] \in {"exchange", "exchange2"} /\ OnlyLocal
        /\ access' = [access EXCEPT ![p] = a]
        /\ pc' = [pc EXCEPT ![p] = "saveData"]
        /\ UNCHANGED <<cmd, state, target, previous, sawLogin>>
    BY <1>7 DEF Exchange, Goto
  <2>2. /\ state[p] \in Record /\ target[p] \in Target
    BY <1>1, <2>1 DEF StageOK, SnapshotOK, TargetOK, Working, Resolved
  <2>3. /\ a \in DataToken /\ a.login = state[p].login /\ a.ws = target[p]
        /\ a.login \in Login
    BY <2>2 DEF DataToken, Record
  <2>4. a.login # Oidc
    BY <2>3, WorkspaceAssumption DEF Login, Oidc
  <2> HIDE DEF a
  <2>5. UNCHANGED <<record, lock, logins, open>>
    BY <2>1 DEF OnlyLocal
  <2>6. TypeOK'
    BY <1>1, <2>1, <2>3, <2>5 DEF TypeOK, PC, Optional
  <2>7. pc'[p] = "saveData" /\ access'[p] = a
    BY <1>1, <2>1 DEF TypeOK
  <2>8. StageOK(p)'
    BY <1>1, <2>1, <2>2, <2>3, <2>4, <2>7 DEF StageOK, IdleOK, SnapshotOK, TargetOK,
       HolderOK, OidcOK,
         TokenOK, RollbackOK, Installed, Working, Resolved, Locked, Owned
  <2>9. Moves(p)
    BY <1>1, <2>1 DEF Moves, TypeOK
  <2> QED
    BY <2>1, <2>6, <2>8, <2>9, LocalKeeps
<1>8. CASE SaveDataToken(p)
  <2>1. /\ pc[p] = "saveData" /\ lock = None
        /\ record' = IF record # None /\ SameToken(record, state[p])
                       THEN [record EXCEPT !.data = access[p]] ELSE record
        /\ pc' = [pc EXCEPT ![p] = "deliver"]
        /\ state' = [state EXCEPT ![p] = None]
        /\ UNCHANGED <<lock, logins, open, cmd, target, access, previous, sawLogin>>
    BY <1>8 DEF SaveDataToken, Goto
  <2>2. /\ access[p] \in DataToken /\ access[p].login = state[p].login
        /\ access[p].ws = target[p]
    BY <1>1, <2>1 DEF StageOK, TokenOK
  <2>3. record' \in Optional(Record) /\ RecordOK'
    <3>1. CASE record # None /\ SameToken(record, state[p])
      <4>1. record \in Record
        BY <1>1, <3>1 DEF TypeOK, Optional
      <4>2. /\ record' \in Record /\ record'.login = record.login
            /\ record'.data = access[p]
        BY <2>1, <2>2, <3>1, <4>1 DEF Record, Optional
      <4>3. record.login = state[p].login
        BY <3>1 DEF SameToken
      <4> QED
        BY <1>1, <2>1, <2>2, <3>1, <4>2, <4>3 DEF RecordOK, Owned, Optional
    <3>2. CASE ~(record # None /\ SameToken(record, state[p]))
      BY <1>1, <2>1, <3>2 DEF TypeOK, RecordOK, Owned
    <3> QED
      BY <3>1, <3>2
  <2>4. TypeOK'
    BY <1>1, <2>1, <2>3 DEF TypeOK, PC, Optional
  <2>5. pc'[p] = "deliver" /\ state'[p] = None
    BY <1>1, <2>1 DEF TypeOK
  <2>6. StageOK(p)'
    BY <1>1, <2>1, <2>2, <2>5, WorkspaceAssumption DEF StageOK, IdleOK, SnapshotOK,
       TargetOK, HolderOK, OidcOK,
         TokenOK, RollbackOK, Installed, Working, Resolved, Locked, Owned
  <2>7. Moves(p)
    BY <1>1, <2>1 DEF Moves, TypeOK
  <2> QED
    BY <2>1, <2>3, <2>4, <2>6, <2>7, OthersKeep
<1>9. CASE ExchangeOidc(p)
  <2> DEFINE a == [login |-> Oidc, ws |-> OidcWorkspace]
  <2>1. /\ pc[p] = "oidc" /\ OnlyLocal
        /\ access' = [access EXCEPT ![p] = a]
        /\ target' = [target EXCEPT ![p] = OidcWorkspace]
        /\ pc' = [pc EXCEPT ![p] = "deliver"]
        /\ UNCHANGED <<cmd, state, previous, sawLogin>>
    BY <1>9 DEF ExchangeOidc, Goto
  <2>2. p \notin sawLogin /\ cmd[p] = "query" /\ OidcWorkspace # None
    BY <1>1, <2>1 DEF StageOK, OidcOK
  <2>3. OidcWorkspace \in Target /\ a \in DataToken /\ a.ws = OidcWorkspace
    BY <2>2 DEF Target, DataToken
  <2> HIDE DEF a
  <2>4. UNCHANGED <<record, lock, logins, open>>
    BY <2>1 DEF OnlyLocal
  <2>5. TypeOK'
    BY <1>1, <2>1, <2>3, <2>4 DEF TypeOK, PC, Optional
  <2>6. pc'[p] = "deliver" /\ access'[p] = a /\ target'[p] = OidcWorkspace
    BY <1>1, <2>1 DEF TypeOK
  <2>7. StageOK(p)'
    BY <1>1, <2>1, <2>2, <2>3, <2>6 DEF StageOK, IdleOK, SnapshotOK, TargetOK,
       HolderOK, OidcOK,
         TokenOK, RollbackOK, Installed, Working, Resolved, Locked, Owned
  <2>8. Moves(p)
    BY <1>1, <2>1 DEF Moves, TypeOK
  <2> QED
    BY <2>1, <2>5, <2>7, <2>8, LocalKeeps
<1> QED
  BY <1>2, <1>5, <1>6, <1>7, <1>8, <1>9 DEF AccessStep

LEMMA SelectInv ==
    ASSUME IInv, NEW p \in Proc, SelectStep(p)
    PROVE  IInv'
<1>1. TypeOK /\ StageOK(p) /\ RecordOK
  BY DEF IInv
<1>2. ASSUME NEW w \in Optional(Workspace), record # None, Selected(w),
             UNCHANGED <<lock, logins, open>>
      PROVE  record' \in Optional(Record) /\ RecordOK'
  <2>1. record \in Record
    BY <1>1, <1>2 DEF TypeOK, Optional
  <2>2. CASE record.ws = w
    BY <1>1, <1>2, <2>1, <2>2 DEF Selected, Optional, RecordOK, Owned
  <2>3. CASE record.ws # w
    <3>1. record' = [record EXCEPT !.ws = w, !.data = None]
      BY <1>2, <2>3 DEF Selected
    <3>2. /\ record' \in Record /\ record'.login = record.login
          /\ record'.data = None
      BY <2>1, <3>1 DEF Record, Optional
    <3> QED
      BY <1>1, <1>2, <3>2 DEF RecordOK, Owned, Optional
  <2> QED
    BY <2>2, <2>3
<1>3. CASE SelectFails(p)
  BY <1>3, FailsKeep DEF SelectFails
<1>4. CASE Select(p)
  <2>1. /\ pc[p] = "select" /\ lock = None /\ record # None /\ Selected(target[p])
        /\ Done(p) /\ UNCHANGED <<lock, logins, open>>
    BY <1>4 DEF Select
  <2>2. target[p] \in Optional(Workspace)
    BY <1>1, <2>1 DEF StageOK, TargetOK
  <2>3. record' \in Optional(Record) /\ RecordOK'
    BY <1>2, <2>1, <2>2
  <2> QED
    BY <2>1, <2>3, DoneKeeps
<1>5. CASE Clear(p)
  <2>1. /\ pc[p] = "clear" /\ lock = None /\ record # None /\ Selected(None)
        /\ UNCHANGED <<lock, logins, open>>
    BY <1>5 DEF Clear
  <2>2. record' \in Optional(Record) /\ RecordOK'
    BY <1>2, <2>1 DEF Optional
  <2>3. CASE Done(p)
    BY <2>1, <2>2, <2>3, DoneKeeps
  <2>4. CASE /\ pc' = [pc EXCEPT ![p] = "select"]
             /\ UNCHANGED <<cmd, state, target, access, previous, sawLogin>>
    <3>1. TypeOK' /\ pc'[p] = "select"
      BY <1>1, <2>1, <2>2, <2>4 DEF TypeOK, PC
    <3>2. StageOK(p)'
      BY <1>1, <2>1, <2>4, <3>1 DEF StageOK, IdleOK, SnapshotOK, TargetOK, HolderOK,
         OidcOK,
         TokenOK, RollbackOK, Installed, Working, Resolved, Locked, Owned
    <3>3. Moves(p)
      BY <1>1, <2>4 DEF Moves, TypeOK
    <3> QED
      BY <2>1, <2>2, <3>1, <3>2, <3>3, OthersKeep
  <2> QED
    BY <1>5, <2>3, <2>4 DEF Clear, Goto
<1> QED
  BY <1>3, <1>4, <1>5 DEF SelectStep

LEMMA CrashInv ==
    ASSUME IInv, NEW p \in Proc, Crash(p)
    PROVE  IInv'
<1>1. /\ Done(p) /\ UNCHANGED <<record, logins, open>>
      /\ lock' = IF lock = p THEN None ELSE lock
  BY DEF Crash
<1>2. record' \in Optional(Record) /\ RecordOK'
  BY <1>1 DEF IInv, TypeOK, RecordOK, Owned
<1>3. \/ record' = record /\ lock' = lock
      \/ lock \in {None, p}
  BY <1>1
<1>4. lock' \in {lock, None}
  BY <1>1
<1> QED
  BY <1>1, <1>2, <1>3, <1>4, DoneKeeps

(* Steps that no process makes. *)
LEMMA OutsideInv ==
    ASSUME IInv,
           \/ Logout
           \/ \E w \in Workspace : OpenChanges(w)
           \/ UNCHANGED vars
    PROVE  IInv'
<1>1. /\ UNCHANGED <<lock, logins, pc, cmd, state, target, access, previous, sawLogin>>
      /\ open' \subseteq Workspace
      /\ record' = record \/ (record' = None /\ lock = None)
  BY DEF IInv, TypeOK, Logout, OpenChanges, vars, local
<1>2. TypeOK' /\ RecordOK'
  BY <1>1 DEF IInv, TypeOK, RecordOK, Owned, Optional
<1>3. ASSUME NEW p \in Proc PROVE StageOK(p)'
  <2>1. StageOK(p)
    BY DEF IInv
  <2>2. HolderOK(p)'
    BY <1>1, <2>1, WorkspaceAssumption DEF StageOK, HolderOK
  <2> QED
    BY <1>1, <2>1, <2>2
    DEF StageOK, IdleOK, SnapshotOK, TargetOK, OidcOK, TokenOK, RollbackOK, Owned
<1> QED
  BY <1>2, <1>3 DEF IInv

LEMMA InitInv == Init => IInv
<1> SUFFICES ASSUME Init PROVE IInv
  OBVIOUS
<1>1. TypeOK
  BY WorkspaceAssumption DEF Init, TypeOK, PC, Commands, Optional
<1>2. RecordOK
  BY DEF Init, RecordOK
<1>3. \A p \in Proc : StageOK(p)
  BY WorkspaceAssumption DEF Init, StageOK, IdleOK, SnapshotOK, TargetOK, HolderOK,
     OidcOK,
         TokenOK, RollbackOK, Installed, Working, Resolved, Locked
<1> QED
  BY <1>1, <1>2, <1>3 DEF IInv

LEMMA NextInv ==
    ASSUME IInv, [Next]_vars
    PROVE  IInv'
<1>1. ASSUME NEW p \in Proc,
             \/ StartStep(p) \/ LoginStep(p) \/ AccountStep(p)
             \/ RefreshStep(p) \/ AccessStep(p) \/ SelectStep(p) \/ Crash(p)
      PROVE  IInv'
  BY <1>1, StartQueryInv, StartSelectInv, StartLoginInv, LoginInv, AccountInv,
     RefreshInv, AccessInv, SelectInv, CrashInv DEF StartStep
<1> QED
  BY <1>1, OutsideInv DEF Next

(* The invariant the results follow from: what a process has at each step, *)
(* that the lock holder's snapshot is the record, and whose tokens are kept. *)
THEOREM InductiveInvariant == Spec => []IInv
<1>1. IInv /\ [Next]_vars => IInv'
  BY NextInv
<1> QED
  BY <1>1, InitInv, PTL DEF Spec

(* Type correctness: the record, the lock and what a process remembers.    *)
THEOREM TypeCorrect == Spec => []TypeOK
<1>1. IInv => TypeOK
  BY DEF IInv
<1> QED
  BY <1>1, InductiveInvariant, PTL

(* AccessMatchesTarget: a query goes to the workspace it resolved.         *)
THEOREM AccessMatchesTargetHolds == Spec => []AccessMatchesTarget
<1>1. IInv => AccessMatchesTarget
  BY DEF IInv, StageOK, TokenOK, AccessMatchesTarget
<1> QED
  BY <1>1, InductiveInvariant, PTL

(* CachedTokenBelongs: the cached data token is one of the stored login.   *)
THEOREM CachedTokenBelongsHolds == Spec => []CachedTokenBelongs
<1>1. IInv => CachedTokenBelongs
  BY DEF IInv, RecordOK, Owned, CachedTokenBelongs
<1> QED
  BY <1>1, InductiveInvariant, PTL

(* NoOidcAfterLogin: a query that read a stored login at first is not taken *)
(* over by the CI job's identity, whatever happens to that login later      *)
(* (manager.go:357-366).                                                    *)
THEOREM NoOidcAfterLoginHolds == Spec => []NoOidcAfterLogin
<1>1. IInv => NoOidcAfterLogin
  BY DEF IInv, StageOK, OidcOK, NoOidcAfterLogin
<1> QED
  BY <1>1, InductiveInvariant, PTL

-----------------------------------------------------------------------------
(* Writers merge *)

(* Two logins that are being installed are different ones. *)
Apart ==
    \A p, q \in Proc :
        p # q /\ pc[p] \in Installed /\ pc[q] \in Installed
            => state[p].login # state[q].login

RInv == IInv /\ Apart

(* What a step does to the tokens the record holds, and to the selection.  *)
TokenMoves == [Tokens!RecordNext]_(Tokens!recordVars)

SelectionMoves ==
    record # None /\ record' # None /\ record'.ws # record.ws =>
        StartsUnselected \/ \E p \in Proc : Selects(p) \/ RollsBack(p)

(* q is installing the same login as before, if any. *)
Same(q) ==
    /\ pc'[q] \in Installed <=> pc[q] \in Installed
    /\ pc[q] \in Installed => state'[q] = state[q] /\ previous'[q] = previous[q]

(* The same of the next state. *)
InstallsNext(q, l) == pc'[q] \in Installed /\ state'[q].login = l

LEMMA RestorableNext ==
    Restorable' = [l \in Login |->
        {TokensOf(previous'[p]) : p \in {q \in Proc : InstallsNext(q, l)}}]
BY DEF Restorable, TokensOf, Installing, InstallsNext

LEMMA RestorableKept ==
    ASSUME \A q \in Proc : Same(q)
    PROVE  Restorable' = Restorable
<1>1. ASSUME NEW l
      PROVE  /\ {q \in Proc : InstallsNext(q, l)} = {q \in Proc : Installing(q, l)}
             /\ \A q \in Proc : Installing(q, l) => previous'[q] = previous[q]
  BY DEF Installing, InstallsNext, Same
<1>2. ASSUME NEW l
      PROVE  {TokensOf(previous'[p]) : p \in {q \in Proc : InstallsNext(q, l)}}
                = {TokensOf(previous[p]) : p \in {q \in Proc : Installing(q, l)}}
  BY <1>1
<1> QED
  BY <1>2, RestorableNext DEF Restorable

(* The installation of a login ends: there is nothing left to put back.    *)
LEMMA RestorableLeft ==
    ASSUME RInv, NEW p \in Proc, \A q \in Proc \ {p} : Same(q),
           pc[p] \in Installed, pc'[p] \notin Installed
    PROVE  /\ state[p].login \in Login
           /\ Restorable' = [Restorable EXCEPT ![state[p].login] = {}]
<1>1. state[p].login \in Login
  BY DEF RInv, IInv, StageOK, RollbackOK, Record
<1>2. ASSUME NEW l \in Login, l # state[p].login
      PROVE  {TokensOf(previous'[q]) : q \in {x \in Proc : InstallsNext(x, l)}}
                = Restorable[l]
  <2>1. /\ {q \in Proc : InstallsNext(q, l)} = {q \in Proc : Installing(q, l)}
        /\ \A q \in Proc : Installing(q, l) => previous'[q] = previous[q]
    BY <1>2 DEF Installing, InstallsNext, Same
  <2> QED
    BY <2>1 DEF Restorable
<1>3. {q \in Proc : InstallsNext(q, state[p].login)} = {}
  BY DEF InstallsNext, Same, RInv, Apart
<1>4. \A l \in Login :
          {TokensOf(previous'[q]) : q \in {x \in Proc : InstallsNext(x, l)}}
             = IF l = state[p].login THEN {} ELSE Restorable[l]
  BY <1>2, <1>3
<1> QED
  BY <1>1, <1>4, RestorableNext DEF Restorable

(* A new login is installed. *)
LEMMA RestorableCame ==
    ASSUME RInv, NEW p \in Proc, \A q \in Proc \ {p} : Same(q),
           pc[p] \notin Installed, pc'[p] \in Installed,
           logins + 1 \in Login, state'[p].login = logins + 1
    PROVE  Restorable' = [Restorable EXCEPT ![logins + 1] = {TokensOf(previous'[p])}]
<1>1. ASSUME NEW q \in Proc, pc[q] \in Installed PROVE state[q].login # logins + 1
  <2>1. /\ state[q].login \in Nat /\ logins \in Nat /\ state[q].login <= logins
    BY <1>1, WorkspaceAssumption
       DEF RInv, IInv, TypeOK, StageOK, RollbackOK, Record, Login
  <2> QED
    BY <2>1
<1>2. ASSUME NEW l \in Login, l # logins + 1
      PROVE  {TokensOf(previous'[q]) : q \in {x \in Proc : InstallsNext(x, l)}}
                = Restorable[l]
  <2>1. /\ {q \in Proc : InstallsNext(q, l)} = {q \in Proc : Installing(q, l)}
        /\ \A q \in Proc : Installing(q, l) => previous'[q] = previous[q]
    BY <1>2 DEF Installing, InstallsNext, Same
  <2> QED
    BY <2>1 DEF Restorable
<1>3. {q \in Proc : InstallsNext(q, logins + 1)} = {p}
  BY <1>1 DEF InstallsNext, Same
<1>4. \A l \in Login :
          {TokensOf(previous'[q]) : q \in {x \in Proc : InstallsNext(x, l)}}
             = IF l = logins + 1 THEN {TokensOf(previous'[p])} ELSE Restorable[l]
  BY <1>2, <1>3
<1> QED
  BY <1>4, RestorableNext DEF Restorable

(* A step that installs and ends no installation, and leaves the tokens    *)
(* alone or removes the record.                                            *)
LEMMA SameTokens ==
    ASSUME \A q \in Proc : Same(q), logins' = logins,
           \/ record' \in {record, None}
           \/ /\ record # None /\ record' # None
              /\ record'.login = record.login /\ record'.gen = record.gen
    PROVE  TokenMoves
<1>1. Restorable' = Restorable
  BY RestorableKept
<1>2. CASE TokensOf(record)' = TokensOf(record)
  BY <1>1, <1>2 DEF TokenMoves, Tokens!recordVars
<1>3. CASE record' = None
  BY <1>1, <1>3 DEF TokenMoves, Tokens!RecordNext, Tokens!Remove, TokensOf
<1> QED
  BY <1>2, <1>3 DEF TokensOf


LEMMA RemoveMoves ==
    ASSUME \A q \in Proc : Same(q), logins' = logins, record' = None
    PROVE  TokenMoves /\ SelectionMoves
BY SameTokens DEF SelectionMoves

(* The end of an installation, with or without its rollback. *)
LEMMA SettleMoves ==
    ASSUME RInv, NEW p \in Proc, \A q \in Proc \ {p} : Same(q),
           pc[p] \in Installed, pc'[p] \notin Installed,
           logins' = logins, record' = record
    PROVE  TokenMoves /\ SelectionMoves
<1>1. /\ state[p].login \in Login
      /\ Restorable' = [Restorable EXCEPT ![state[p].login] = {}]
  BY RestorableLeft
<1>2. Tokens!Settle(state[p].login)
  BY <1>1 DEF Tokens!Settle, TokensOf
<1> QED
  BY <1>1, <1>2 DEF TokenMoves, Tokens!RecordNext, SelectionMoves

LEMMA DoneLeaves ==
    ASSUME TypeOK, NEW p \in Proc, Done(p)
    PROVE  pc'[p] \notin Installed /\ \A q \in Proc \ {p} : Same(q)
BY DEF TypeOK, Done, Goto, Installed, Same

LEMMA RestoreMoves ==
    ASSUME RInv, NEW p \in Proc, RestoreLogin(p)
    PROVE  TokenMoves /\ SelectionMoves
<1>1. /\ pc[p] = "restore" /\ pc[p] \in Installed /\ logins' = logins
      /\ pc'[p] \notin Installed /\ \A q \in Proc \ {p} : Same(q)
  BY DoneLeaves DEF RestoreLogin, RInv, IInv, Installed
<1>2. CASE record' = record
  BY <1>1, <1>2, SettleMoves
<1>3. CASE record' # record
  <2>1. record # None /\ SameToken(record, state[p]) /\ record' = previous[p]
    BY <1>3 DEF RestoreLogin
  <2>2. /\ state[p].login \in Login
        /\ Restorable' = [Restorable EXCEPT ![state[p].login] = {}]
    BY <1>1, RestorableLeft
  <2>3. TokensOf(record) = [grant |-> state[p].login, gen |-> 0]
    BY <1>1, <2>1 DEF TokensOf, SameToken, RInv, IInv, StageOK, RollbackOK
  <2>4. TokensOf(previous[p]) \in Restorable[state[p].login]
    BY <1>1, <2>2 DEF Restorable, Installing
  <2>5. Tokens!Undo(state[p].login)
    BY <1>1, <2>1, <2>2, <2>3, <2>4 DEF Tokens!Undo, Tokens!FirstPair, TokensOf
  <2>6. SelectionMoves
    <3>1. pc'[p] # pc[p]
      BY <1>1
    <3> QED
      BY <1>1, <2>1, <3>1 DEF SelectionMoves, RollsBack
  <2> QED
    BY <2>2, <2>5, <2>6 DEF TokenMoves, Tokens!RecordNext
<1> QED
  BY <1>2, <1>3

(* A new login takes a number nobody had, and keeps the selection of the    *)
(* record it could read.                                                   *)
LEMMA StartLoginMoves ==
    ASSUME RInv, NEW p \in Proc, NEW w \in Optional(Workspace), StartLogin(p, w)
    PROVE  TokenMoves /\ SelectionMoves
<1>1. pc[p] = "idle" /\ logins < MaxLogin /\ logins' = logins + 1
  BY DEF StartLogin
<1>2. IInv /\ TypeOK
  BY DEF RInv, IInv
<1>3. ASSUME NEW b \in {record, None}
      PROVE  /\ NewLogin(b) # None
             /\ TokensOf(NewLogin(b)) = [grant |-> logins + 1, gen |-> 0]
             /\ NewLogin(b).login = logins + 1
             /\ NewLogin(b).ws = IF b = None THEN None ELSE b.ws
             /\ logins \in Nat /\ logins + 1 \in Login
  BY <1>1, <1>2, NewLoginRecord DEF TokensOf
<1>4. /\ logins \in Nat /\ logins + 1 \in Login /\ logins + 1 \in Login \ 1..logins
      /\ logins + 1 \notin 1..logins
      /\ Login \ 1..logins' = (Login \ 1..logins) \ {logins + 1}
  BY <1>1, <1>3 DEF Login
<1>5. ASSUME NEW b \in {record, None}, record' = NewLogin(b)
      PROVE  SelectionMoves
  BY <1>3, <1>4, <1>5 DEF SelectionMoves, StartsUnselected
<1>6. PICK b \in {record, None} :
         \/ /\ record' = NewLogin(b)
            /\ state' = [state EXCEPT ![p] = NewLogin(b)]
            /\ previous' = [previous EXCEPT ![p] = b]
            /\ pc' = [pc EXCEPT ![p] = "config"]
         \/ record' \in {record, None, NewLogin(b)} /\ UNCHANGED local
  BY DEF StartLogin, Goto
<1>7. CASE /\ record' = NewLogin(b)
           /\ state' = [state EXCEPT ![p] = NewLogin(b)]
           /\ previous' = [previous EXCEPT ![p] = b]
           /\ pc' = [pc EXCEPT ![p] = "config"]
  <2>1. /\ pc[p] \notin Installed /\ pc'[p] \in Installed
        /\ state'[p].login = logins + 1 /\ previous'[p] = b
        /\ \A q \in Proc \ {p} : Same(q)
    BY <1>1, <1>2, <1>3, <1>7 DEF TypeOK, Installed, Same
  <2>2. Restorable' = [Restorable EXCEPT ![logins + 1] = {TokensOf(b)}]
    BY <1>4, <2>1, RestorableCame
  <2>3. TokensOf(b) \in {IF TokensOf(record) \in Tokens!Pair THEN TokensOf(record)
                                                        ELSE None, None}
    <3>1. CASE b = None
      BY <3>1 DEF TokensOf
    <3>2. CASE b # None
      <4>1. b = record /\ record \in Record
        BY <1>2, <3>2 DEF TypeOK, Optional
      <4>2. TokensOf(record) \in Tokens!Pair
        BY <3>2, <4>1 DEF TokensOf, Tokens!Pair, Record
      <4> QED
        BY <4>1, <4>2
    <3> QED
      BY <3>1, <3>2
  <2>4. TokensOf(record)' = [grant |-> logins + 1, gen |-> 0]
    BY <1>3, <1>7 DEF TokensOf
  <2>5. Tokens!Install(logins + 1)
    BY <1>4, <2>2, <2>3, <2>4 DEF Tokens!Install, Tokens!FirstPair, Tokens!Replaced
  <2> QED
    BY <1>4, <1>5, <1>7, <2>5 DEF TokenMoves, Tokens!RecordNext
<1>8. CASE record' \in {record, None, NewLogin(b)} /\ UNCHANGED local
  <2>1. Restorable' = Restorable
    <3>1. \A q \in Proc : Same(q)
      BY <1>8 DEF local, Same
    <3> QED
      BY <3>1, RestorableKept
  <2>2. CASE record' \in {record, None}
    <3>1. Tokens!Forgo(logins + 1)
      BY <1>4, <2>1, <2>2 DEF Tokens!Forgo, TokensOf
    <3> QED
      BY <1>4, <2>2, <3>1 DEF TokenMoves, Tokens!RecordNext, SelectionMoves
  <2>3. CASE record' = NewLogin(b)
    <3>1. TokensOf(record)' = [grant |-> logins + 1, gen |-> 0]
      BY <1>3, <2>3 DEF TokensOf
    <3>2. Tokens!Install(logins + 1)
      BY <1>4, <2>1, <3>1 DEF Tokens!Install, Tokens!FirstPair
    <3> QED
      BY <1>4, <1>5, <2>3, <3>2 DEF TokenMoves, Tokens!RecordNext
  <2> QED
    BY <1>8, <2>2, <2>3
<1> QED
  BY <1>6, <1>7, <1>8

(* A refresh writes the next pair of the login that is stored: the record  *)
(* it read under the lock is still there.                                  *)
LEMMA RefreshSavesMoves ==
    ASSUME IInv, \A q \in Proc : Same(q), NEW p \in Proc, RefreshSaves(p)
    PROVE  TokenMoves /\ SelectionMoves
<1>1. /\ record = state[p] /\ record \in Record /\ record # None
      /\ record.gen < MaxGen /\ logins' = logins
      /\ record' = [record EXCEPT !.gen = @ + 1]
  <2>1. record = state[p] /\ pc[p] \in Working
    BY DEF IInv, StageOK, HolderOK, RefreshSaves, Locked, Working
  <2>2. state[p] \in Record
    BY <2>1 DEF IInv, StageOK, SnapshotOK
  <2> QED
    BY <2>1, <2>2, WorkspaceAssumption DEF RefreshSaves
<1>2. /\ record.login \in Login /\ record.gen \in 0..MaxGen
      /\ record'.login = record.login /\ record'.gen = record.gen + 1
      /\ record'.ws = record.ws
  BY <1>1 DEF Record
<1>3. record' # None
  <2>1. record' \in Record
    <3>1. record.gen + 1 \in 0..MaxGen
      BY <1>1, <1>2, WorkspaceAssumption
    <3> QED
      BY <1>1, <3>1 DEF Record
  <2> QED
    BY <2>1, WorkspaceAssumption
<1>4. Restorable' = Restorable
  BY RestorableKept
<1>5. /\ TokensOf(record) = [grant |-> record.login, gen |-> record.gen]
      /\ TokensOf(record)' = [grant |-> record.login, gen |-> record.gen + 1]
  BY <1>1, <1>2, <1>3 DEF TokensOf
<1>6. Tokens!Renew
  BY <1>1, <1>2, <1>4, <1>5 DEF Tokens!Renew, Tokens!Pair
<1> QED
  BY <1>2, <1>6 DEF TokenMoves, Tokens!RecordNext, SelectionMoves

(* The other writers keep the tokens, and all but the selecting ones the   *)
(* selection.                                                              *)
LEMMA MergeMoves ==
    ASSUME IInv, \A q \in Proc : Same(q), NEW p \in Proc,
           SaveDataToken(p) \/ Clear(p) \/ Select(p)
    PROVE  TokenMoves /\ SelectionMoves
<1>1. record \in Optional(Record)
  BY DEF IInv, TypeOK
<1>2. ASSUME record # None, NEW r \in Optional(Workspace), NEW d \in Optional(DataToken),
             \/ record' = [record EXCEPT !.data = d]
             \/ record' = [record EXCEPT !.ws = r, !.data = None]
      PROVE  /\ record' # None
             /\ record'.login = record.login /\ record'.gen = record.gen
  <2>1. record \in Record
    BY <1>1, <1>2 DEF Optional
  <2>2. /\ record' \in Record
        /\ record'.login = record.login /\ record'.gen = record.gen
    BY <1>2, <2>1 DEF Record, Optional
  <2> QED
    BY <2>2, WorkspaceAssumption
<1>3. CASE SaveDataToken(p)
  <2>1. access[p] \in Optional(DataToken) /\ logins' = logins
    BY <1>3 DEF IInv, TypeOK, SaveDataToken
  <2>2. CASE record' = record
    BY <2>1, <2>2, SameTokens DEF SelectionMoves
  <2>3. CASE record # None /\ record' = [record EXCEPT !.data = access[p]]
    <3>1. TokenMoves
      <4>1. None \in Optional(Workspace)
        BY DEF Optional
      <4> QED
        BY <1>2, <2>1, <2>3, <4>1, SameTokens
    <3>2. record'.ws = record.ws
      BY <1>1, <2>3 DEF Optional, Record
    <3> QED
      BY <3>1, <3>2 DEF SelectionMoves
  <2> QED
    BY <1>3, <2>2, <2>3 DEF SaveDataToken
<1>4. CASE Clear(p) \/ Select(p)
  <2>1. /\ record # None /\ logins' = logins
        /\ \E r \in Optional(Workspace) : Selected(r)
    <3>1. pc[p] = "select" => target[p] \in Optional(Workspace)
      BY DEF IInv, StageOK, TargetOK
    <3> QED
      BY <1>4, <3>1 DEF Clear, Select, Optional
  <2>2. TokenMoves
    <3>1. PICK r \in Optional(Workspace) : Selected(r)
      BY <2>1
    <3>2. \/ record' = record
          \/ record' = [record EXCEPT !.ws = r, !.data = None]
      BY <3>1 DEF Selected
    <3> QED
      BY <1>2, <2>1, <3>2, SameTokens DEF Optional
  <2>3. pc[p] \in {"clear", "select"} /\ pc'[p] # pc[p]
    <3>1. \/ pc[p] = "select" /\ pc' = [pc EXCEPT ![p] = "idle"]
          \/ pc[p] = "clear" /\ \E l \in {"idle", "select"} : pc' = [pc EXCEPT ![p] = l]
      BY <1>4 DEF Clear, Select, Done, Goto
    <3> QED
      BY <3>1 DEF IInv, TypeOK
  <2> QED
    BY <2>2, <2>3 DEF SelectionMoves, Selects
<1> QED
  BY <1>3, <1>4

(* Every other step of a command installs nothing. *)
Outside(p) ==
    \/ StartQuery(p) \/ StartStatus(p) \/ \E w \in Workspace : StartUse(p, w)
    \/ AccountStep(p) \/ RefreshStep(p) \/ AccessStep(p) \/ SelectStep(p)

LEMMA OutsideSame ==
    ASSUME IInv, NEW p \in Proc, Outside(p)
    PROVE  logins' = logins /\ \A q \in Proc : Same(q)
<1>1. TypeOK
  BY DEF IInv
<1> SUFFICES /\ logins' = logins
             /\ pc[p] \notin Installed /\ pc'[p] \notin Installed
             /\ \A q \in Proc \ {p} : pc'[q] = pc[q] /\ state'[q] = state[q]
                                      /\ previous'[q] = previous[q]
  BY DEF Same
<1> USE <1>1 DEF TypeOK, Installed, Goto, OnlyLocal, Done, Fails
<1>2. CASE StartQuery(p)
  BY <1>2 DEF StartQuery
<1>3. CASE StartStatus(p) \/ \E w \in Workspace : StartUse(p, w)
  BY <1>3 DEF StartStatus, StartUse
<1>4. CASE AccountStep(p)
  <2>1. CASE Load(p) \/ LoadFails(p) \/ AccountUnauthorized(p) \/ AccountFails(p)
    BY <2>1 DEF Load, LoadFails, AccountUnauthorized, AccountFails
  <2>2. CASE QueryAccount(p) \/ UseAccount(p) \/ StatusAccount(p)
    BY <2>2 DEF QueryAccount, UseAccount, StatusAccount, Accounted
  <2>3. CASE LoginAccount(p)
    BY <2>3 DEF LoginAccount, Accounted
  <2> QED
    BY <1>4, <2>1, <2>2, <2>3 DEF AccountStep
<1>5. CASE RefreshStep(p)
  <2>1. CASE RefreshAdopts(p)
    BY <2>1, RefreshSteps DEF RefreshAdopts
  <2>2. CASE RefreshBegins(p)
    BY <2>2, RefreshSteps DEF RefreshBegins, ReadLocked
  <2>3. CASE RefreshSaves(p)
    BY <2>3, RefreshSteps DEF RefreshSaves, Locked
  <2>4. CASE RefreshUnavailable(p) \/ RefreshFails(p)
    BY <2>4, RefreshSteps DEF RefreshUnavailable, RefreshFails, Locked
  <2> QED
    BY <1>5, <2>1, <2>2, <2>3, <2>4 DEF RefreshStep
<1>6. CASE AccessStep(p)
  BY <1>6 DEF AccessStep, WorkspaceReady, ExchangeUnauthorized, Exchange, AccessFails,
     SaveDataToken, ExchangeOidc, Deliver
<1>7. CASE SelectStep(p)
  BY <1>7 DEF SelectStep, Clear, Select, SelectFails
<1> QED
  BY <1>2, <1>3, <1>4, <1>5, <1>6, <1>7 DEF Outside

(* A step of a login that is being installed, and the end of any command.  *)
LEMMA InstallSteps ==
    ASSUME IInv, NEW p \in Proc,
           SaveConfig(p) \/ RestoreLogin(p) \/ RestoreFails(p) \/ Crash(p)
    PROVE  /\ logins' = logins /\ \A q \in Proc \ {p} : Same(q)
           /\ Same(p) \/ (pc[p] \in Installed /\ pc'[p] \notin Installed)
           /\ record' = record \/ RestoreLogin(p)
<1>1. TypeOK
  BY DEF IInv
<1>2. CASE SaveConfig(p)
  BY <1>1, <1>2 DEF SaveConfig, TypeOK, Installed, Goto, OnlyLocal, Same
<1>3. CASE RestoreLogin(p) \/ RestoreFails(p) \/ Crash(p)
  <2>1. /\ logins' = logins /\ Done(p)
        /\ record' = record \/ RestoreLogin(p)
    BY <1>3 DEF RestoreLogin, RestoreFails, Crash, Fails
  <2> QED
    BY <1>1, <2>1, DoneLeaves DEF Same
<1> QED
  BY <1>2, <1>3

(* The steps by what they do to the logins that are being installed.       *)
Leaves(p) ==
    /\ \A q \in Proc \ {p} : Same(q)
    /\ pc[p] \in Installed /\ pc'[p] \notin Installed
    /\ logins' = logins
    /\ record' = record \/ RestoreLogin(p)

Settled == logins' = logins /\ \A q \in Proc : Same(q)

LEMMA StepKinds ==
    ASSUME IInv, [Next]_vars
    PROVE  \/ \E p \in Proc : \E w \in Optional(Workspace) : StartLogin(p, w)
           \/ Settled
           \/ \E p \in Proc : Leaves(p)
<1>1. ASSUME NEW p \in Proc,
             SaveConfig(p) \/ RestoreLogin(p) \/ RestoreFails(p) \/ Crash(p)
      PROVE  Settled \/ Leaves(p)
  BY <1>1, InstallSteps DEF Settled, Leaves
<1>2. ASSUME Logout \/ (\E w \in Workspace : OpenChanges(w)) \/ UNCHANGED vars
      PROVE  Settled
  BY <1>2 DEF Logout, OpenChanges, vars, local, Same, Settled
<1>3. ASSUME NEW p \in Proc, Outside(p)
      PROVE  Settled
  BY <1>3, OutsideSame DEF Settled
<1> QED
  BY <1>1, <1>2, <1>3 DEF Next, StartStep, LoginStep, Outside

LEMMA ApartStep ==
    ASSUME RInv, [Next]_vars
    PROVE  Apart'
<1>0. IInv /\ TypeOK
  BY DEF RInv, IInv
<1>1. CASE Settled
  BY <1>1 DEF RInv, Apart, Same, Settled
<1>2. ASSUME NEW p \in Proc, Leaves(p)
      PROVE  Apart'
  BY <1>2 DEF RInv, Apart, Same, Leaves
<1>3. ASSUME NEW p \in Proc, NEW w \in Optional(Workspace), StartLogin(p, w)
      PROVE  Apart'
  <2>1. PICK b \in {record, None} :
           \/ /\ state' = [state EXCEPT ![p] = NewLogin(b)]
              /\ previous' = [previous EXCEPT ![p] = b]
              /\ pc' = [pc EXCEPT ![p] = "config"]
           \/ UNCHANGED local
    BY <1>3 DEF StartLogin, Goto
  <2>2. CASE UNCHANGED local
    BY <2>2 DEF local, RInv, Apart
  <2>3. CASE /\ state' = [state EXCEPT ![p] = NewLogin(b)]
             /\ previous' = [previous EXCEPT ![p] = b]
             /\ pc' = [pc EXCEPT ![p] = "config"]
    <3>1. state'[p].login = logins + 1 /\ \A q \in Proc \ {p} : Same(q)
      BY <1>0, <2>3 DEF TypeOK, NewLogin, Same
    <3>2. ASSUME NEW q \in Proc, pc[q] \in Installed PROVE state[q].login # logins + 1
      <4>1. /\ state[q].login \in Nat /\ logins \in Nat /\ state[q].login <= logins
        BY <1>0, <3>2, WorkspaceAssumption DEF IInv, TypeOK, StageOK, RollbackOK, Record, Login
      <4> QED
        BY <4>1
    <3> QED
      BY <3>1, <3>2 DEF RInv, Apart, Same
  <2> QED
    BY <2>1, <2>2, <2>3
<1> QED
  BY <1>0, <1>1, <1>2, <1>3, StepKinds

LEMMA NextMoves ==
    ASSUME RInv, [Next]_vars
    PROVE  TokenMoves /\ SelectionMoves
<1>0. IInv
  BY DEF RInv
<1>1. \/ record' \in {record, None}
      \/ \E p \in Proc : \/ \E w \in Optional(Workspace) : StartLogin(p, w)
                         \/ RestoreLogin(p)
                         \/ RefreshSaves(p) \/ SaveDataToken(p)
                         \/ Clear(p) \/ Select(p)
  BY DEF Next, StartStep, LoginStep, StartQuery, StartUse, StartStatus, AccountStep,
     Load, LoadFails, AccountUnauthorized, AccountFails, QueryAccount, UseAccount,
     StatusAccount, LoginAccount, Accounted, RefreshStep, RefreshAdopts, RefreshBegins,
     RefreshUnavailable, RefreshFails, AccessStep, WorkspaceReady,
     ExchangeUnauthorized, Exchange, AccessFails, ExchangeOidc, Deliver, SelectStep,
     SelectFails, Fails, Crash, Logout, OpenChanges, OnlyLocal, vars, SaveConfig,
     RestoreFails
<1>2. ASSUME NEW p \in Proc, SaveDataToken(p) \/ Clear(p) \/ Select(p) \/ RefreshSaves(p)
      PROVE  TokenMoves /\ SelectionMoves
  <2>1. \A q \in Proc : Same(q)
    BY <1>0, <1>2, OutsideSame DEF Outside, AccessStep, SelectStep, RefreshStep
  <2> QED
    BY <1>0, <1>2, <2>1, MergeMoves, RefreshSavesMoves
<1>3. CASE Settled
  <2>1. CASE record' \in {record, None}
    BY <1>3, <2>1, SameTokens DEF SelectionMoves, Settled
  <2> QED
    BY <1>1, <1>2, <2>1, StartLoginMoves, RestoreMoves
<1>4. ASSUME NEW p \in Proc, Leaves(p)
      PROVE  TokenMoves /\ SelectionMoves
  <2>1. CASE record' = record
    BY <1>4, <2>1, SettleMoves DEF Leaves
  <2> QED
    BY <1>4, <2>1, RestoreMoves DEF Leaves
<1> QED
  BY <1>0, <1>3, <1>4, StartLoginMoves, StepKinds

(* Nothing is being installed at first. *)
LEMMA Initially == Init => Tokens!RecordInit /\ Apart
<1> SUFFICES ASSUME Init PROVE Tokens!RecordInit /\ Apart
  OBVIOUS
<1>1. Apart
  BY DEF Init, Apart, Installed
<1>2. Restorable = [l \in Login |-> {}]
  <2>1. \A l \in Login : {q \in Proc : Installing(q, l)} = {}
    BY DEF Init, Installing, Installed
  <2> QED
    BY <2>1 DEF Restorable
<1>3. Login \ 1..logins = Login /\ TokensOf(record) = None
  BY WorkspaceAssumption DEF Init, Login, TokensOf
<1> QED
  BY <1>1, <1>2, <1>3 DEF Tokens!RecordInit

(* NoRevert: the tokens are the single record of LoginRecord, whoever       *)
(* writes the record for another reason.  The selection of a stored record  *)
(* changes in three ways only: a command selects, a login that could not    *)
(* read what it replaced starts without one, or the rollback of a login     *)
(* brings back the record it replaced with the selection of that time       *)
(* (manager.go:173-185, 192-216).                                           *)
THEOREM NoRevertHolds == Spec => NoRevert
<1>1. RInv /\ [Next]_vars => [Tokens!RecordNext]_(Tokens!recordVars)
  BY NextMoves DEF TokenMoves
<1>2. RInv /\ [Next]_vars => [SelectionMoves]_vars
  BY NextMoves
<1>3. RInv /\ [Next]_vars => Apart'
  BY ApartStep
<1>4. Spec => []RInv
  BY <1>3, Initially, InductiveInvariant, PTL DEF Spec, RInv
<1>5. Tokens!RecordSpec /\ [][SelectionMoves]_vars => NoRevert
  BY PTL DEF NoRevert, SelectionMoves
<1> QED
  BY <1>1, <1>2, <1>4, <1>5, Initially, PTL
  DEF Spec, Tokens!RecordSpec
=============================================================================
