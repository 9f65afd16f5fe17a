-------------------------- MODULE AuthManagerProofs --------------------------
(***************************************************************************)
(* Proofs about AuthManager, for any number of processes, grants and       *)
(* rotations: types, RecordUsable, NoReuse, NoOrphan, and that the         *)
(* processes implement the one record of LoginRecord.                      *)
(*                                                                         *)
(* The inductive invariant says what a process in a locked section knows   *)
(* about the record (it cannot have changed since it was read), and that a *)
(* grant is in one place only: in the record, in the record a login may    *)
(* restore, or in the hands of the login that obtained it.                 *)
(***************************************************************************)
EXTENDS AuthManager, TLAPS

Holds(p, g) == held[p] \in Token /\ held[p].grant = g
Restores(p, g) == previous[p] \in Token /\ previous[p].grant = g

(* The lock and the program counters agree. *)
LockInv ==
    \A p \in Proc : pc[p] \in LockedPC <=> lock = p

(* Every step but the first ones of a command works with a token pair. *)
HeldTyped ==
    \A p \in Proc :
        pc[p] \in LockedPC \cup LoginPC \cup {"account", "refresh"}
            => held[p] \in Token

TypeInv == TypeOK /\ HeldTyped

(* What the process in a locked section works with. *)
HeldInv ==
    \A p \in Proc :
        /\ pc[p] \in {"send", "expired", "revokeLogout", "delete"}
             => slot = held[p]
        /\ pc[p] = "saveRefresh"
             => /\ slot \in Token
                /\ slot.grant = held[p].grant
                /\ held[p].gen = gen[held[p].grant]
        /\ pc[p] = "expired" => status[held[p].grant] = "ended"
        /\ pc[p] = "delete" /\ attempt[p] # 1
             => status[held[p].grant] = "ended"

(* While a refresh token is being sent, a rotation it caused can still be  *)
(* fetched again.                                                          *)
SendInv ==
    \A p \in Proc :
        pc[p] = "send" /\ status[held[p].grant] = "active" /\ Superseded(held[p])
            => held[p].grant \in lost \/ Recoverable(held[p])

(* Token pairs only exist for grants the server issued. *)
IssuedInv ==
    \A g \in Grant : status[g] = "none" =>
        /\ gen[g] = 0
        /\ g \notin GrantOf(slot)
        /\ \A p \in Proc : ~Holds(p, g) /\ ~Restores(p, g)

(* A grant a login is about to save is nowhere else yet; a record that may *)
(* be restored is not the stored one; nobody shares either.                *)
PlaceInv ==
    /\ \A p \in Proc : pc[p] = "saveLogin" =>
          /\ held[p].gen = gen[held[p].grant]
          /\ held[p].grant \notin GrantOf(slot)
          /\ \A q \in Proc : ~Restores(q, held[p].grant)
    /\ \A p, q \in Proc : p # q /\ pc[p] \in LoginPC /\ pc[q] \in LoginPC
          => held[p].grant # held[q].grant
    /\ \A p \in Proc : previous[p] \in Token =>
          /\ previous[p].grant \notin GrantOf(slot)
          /\ \A q \in Proc \ {p} : ~Restores(q, previous[p].grant)
          /\ status[previous[p].grant] = "active" => previous[p].grant \in lost

(* Once saved, a login that is still active is in the record, or its loss  *)
(* is known.                                                               *)
KeptInv ==
    \A p \in Proc :
        pc[p] \in {"saveConfig", "restore"} /\ status[held[p].grant] = "active"
            => \/ held[p].grant \in GrantOf(slot) \cup lost
               \/ adrift[held[p].grant] # "no"

IInv ==
    /\ TypeInv
    /\ LockInv
    /\ HeldInv
    /\ SendInv
    /\ IssuedInv
    /\ PlaceInv
    /\ KeptInv
    /\ RecordUsable
    /\ NoOrphan

-----------------------------------------------------------------------------
(* Types *)

(* The parts of a token pair. *)
LEMMA TokenFields ==
    \A t \in Token : t.grant \in Grant /\ t.gen \in 0..MaxGen
BY DEF Token

(* The first pair of a grant is a token pair. *)
LEMMA TokenZero == \A g \in Grant : [grant |-> g, gen |-> 0] \in Token
BY AuthAssumption DEF Token

(* The pair an answered refresh brings is within the bound. *)
LEMMA NextToken ==
    ASSUME SharedType, HeldTyped, NEW p \in Proc, SendAnswered(p)
    PROVE  [held[p] EXCEPT !.gen = @ + 1] \in Token
<1>1. held[p] \in Token
  BY DEF HeldTyped, LockedPC, Refreshing, LoginPC, SendAnswered
<1>2. held[p].gen \in 0..MaxGen /\ held[p].gen + 1 \in 0..MaxGen
  BY <1>1, TokenFields, AuthAssumption
      DEF SendAnswered, Rotates, ServesAgain, Recoverable, SharedType
<1>3. QED BY <1>1, <1>2 DEF Token

(* A command that ends leaves well-typed memory behind. *)
LEMMA DoneType ==
    ASSUME LocalType, NEW p \in Proc, Done(p)
    PROVE  LocalType'
<1>1. pc' \in [Proc -> PC]
  BY DEF LocalType, Done, PC
<1>2. held' \in [Proc -> Token \cup {None}] /\ previous' \in [Proc -> Token \cup {None}]
  BY DEF LocalType, Done
<1>3. attempt' \in [Proc -> 0..refreshRetryLimit]
  BY DEF LocalType, Done, refreshRetryLimit
<1>4. retried' \subseteq Proc /\ purpose' \in [Proc -> {"use", "secondLogin"}]
  BY DEF LocalType, Done
<1>5. QED BY <1>1, <1>2, <1>3, <1>4 DEF LocalType

(* So does a failed Account. *)
LEMMA FailType ==
    ASSUME LocalType, NEW p \in Proc, NEW gone \in BOOLEAN, AccountFails(p, gone)
    PROVE  LocalType'
<1>1. CASE Done(p)
  BY <1>1, DoneType
<1>2. CASE ~Done(p)
  <2>1. pc' \in [Proc -> PC]
    BY <1>2 DEF LocalType, AccountFails, Goto, PC
  <2>2. held' \in [Proc -> Token \cup {None}] /\ previous' \in [Proc -> Token \cup {None}]
    BY <1>2 DEF LocalType, AccountFails, Keep
  <2>3. attempt' \in [Proc -> 0..refreshRetryLimit]
    BY <1>2 DEF LocalType, AccountFails, refreshRetryLimit
  <2>4. retried' \subseteq Proc /\ purpose' \in [Proc -> {"use", "secondLogin"}]
    BY <1>2 DEF LocalType, AccountFails
  <2>5. QED BY <2>1, <2>2, <2>3, <2>4 DEF LocalType
<1>3. QED BY <1>1, <1>2

(* The initial states are well typed. *)
LEMMA TypeInit == Init => TypeInv
BY AuthAssumption
    DEF Init, TypeInv, TypeOK, SharedType, LocalType, HeldTyped, PC, LockedPC,
        Refreshing, LoginPC, Idle, refreshRetryLimit, Token

(* Every step keeps the types of the record, the lock and the server. *)
LEMMA SharedTypeStep == TypeInv /\ [Next]_vars => SharedType'
<1> SUFFICES ASSUME SharedType, LocalType, HeldTyped, [Next]_vars
             PROVE  SharedType'
    BY DEF TypeInv, TypeOK
<1> USE AuthAssumption
<1> USE DEF TakeLock, ReleaseLock, Reload, StillWritten, MayRetry, SetAdrift
<1>1. ASSUME NEW p \in Proc, Start(p) PROVE SharedType'
  <2>1. CASE StartUse(p)
    BY <2>1 DEF SharedType, StartUse, Idle, LoadAccess, server, history
  <2>2. CASE StartLogin(p)
    BY <2>2 DEF SharedType, StartLogin, Idle, server, history
  <2>3. CASE StartLogout(p)
    BY <2>3 DEF SharedType, StartLogout, Idle, server, history
  <2>4. CASE CleanLogout(p)
    BY <2>4 DEF SharedType, CleanLogout, Idle, AfterDelete, server, history
  <2>5. QED BY <1>1, <2>1, <2>2, <2>3, <2>4 DEF Start
<1>2. ASSUME NEW p \in Proc, AccountStep(p) PROVE SharedType'
  <2>1. CASE AccountOk(p)
    BY <2>1 DEF SharedType, AccountOk, server, history
  <2>2. CASE AccountUnauthorized(p)
    BY <2>2 DEF SharedType, AccountUnauthorized, server, history
  <2>3. CASE AccountError(p)
    BY <2>3 DEF SharedType, AccountError, server, history
  <2>4. QED BY <1>2, <2>1, <2>2, <2>3 DEF AccountStep
<1>3. ASSUME NEW p \in Proc, RefreshStep(p) PROVE SharedType'
  <2>1. CASE RefreshBegin(p)
    BY <2>1 DEF SharedType, RefreshBegin, server, history
  <2>2. CASE RefreshUnavailable(p)
    BY <2>2 DEF SharedType, RefreshUnavailable, server, history
  <2>3. CASE SendAnswered(p)
      <3>1. held[p] \in Token
        BY <2>3 DEF HeldTyped, LockedPC, Refreshing, LoginPC, SendAnswered
      <3>2. QED
        BY <2>3, <3>1, TokenFields DEF SharedType, SendAnswered, Rotates,
            ServesAgain, history, server
  <2>4. CASE SendRefused(p)
      <3>1. held[p] \in Token
        BY <2>4 DEF HeldTyped, LockedPC, Refreshing, LoginPC, SendRefused
      <3>2. QED
        BY <2>4, <3>1, TokenFields DEF SharedType, SendRefused, Refuses,
            history, Reuse, server
  <2>5. CASE SendRetried(p)
      <3>1. held[p] \in Token
        BY <2>5 DEF HeldTyped, LockedPC, Refreshing, LoginPC, SendRetried
      <3>2. QED
        BY <2>5, <3>1, TokenFields DEF SharedType, SendRetried,
            refreshRetryLimit, Unanswered, history, Rotates, ServesAgain,
            Refuses, server, Reuse
  <2>6. CASE SendFails(p)
      <3>1. held[p] \in Token
        BY <2>6 DEF HeldTyped, LockedPC, Refreshing, LoginPC, SendFails
      <3>2. QED
        BY <2>6, <3>1, TokenFields DEF SharedType, SendFails, Unanswered,
            MarkLost, Rotates, ServesAgain, Refuses, server, Reuse
  <2>7. CASE SaveRefresh(p)
      <3>1. held[p] \in Token
        BY <2>7 DEF HeldTyped, LockedPC, Refreshing, LoginPC, SaveRefresh
      <3>2. QED
        BY <2>7, <3>1, TokenFields DEF SharedType, SaveRefresh, server
  <2>8. CASE RefreshExpired(p)
    BY <2>8 DEF SharedType, RefreshExpired, AfterDelete, server, history
  <2>9. QED BY <1>3, <2>1, <2>2, <2>3, <2>4, <2>5, <2>6, <2>7, <2>8 DEF RefreshStep,
      SendStep
<1>4. ASSUME NEW p \in Proc, LoginStep(p) PROVE SharedType'
  <2>1. CASE SecondLogin(p)
    BY <2>1 DEF SharedType, SecondLogin, LoadAccess, server, history
  <2>2. CASE CheckError(p)
    BY <2>2 DEF SharedType, CheckError, server, history
  <2>3. CASE \E g \in Grant : Authorize(p, g)
    BY <2>3 DEF SharedType, Authorize, history
  <2>4. CASE AuthorizeFails(p)
    BY <2>4 DEF SharedType, AuthorizeFails, server, history
  <2>5. CASE SaveLogin(p)
      <3>1. held[p] \in Token
        BY <2>5 DEF HeldTyped, LockedPC, Refreshing, LoginPC, SaveLogin
      <3>2. QED
        BY <2>5, <3>1, TokenFields DEF SharedType, SaveLogin, ReplaceRecord,
            server, history, AfterFailedReplace
  <2>6. CASE SaveLoginUnreadable(p)
      <3>1. held[p] \in Token
        BY <2>6 DEF HeldTyped, LoginPC, SaveLoginUnreadable
      <3>2. \A r : GrantOf(r) \subseteq Grant
        BY TokenFields DEF GrantOf
      <3>3. QED
        BY <2>6, <3>1, <3>2 DEF SharedType, SaveLoginUnreadable, ReplaceRecord,
            AfterFailedReplace, server
  <2>7. CASE SaveLoginFails(p)
    BY <2>7 DEF SharedType, SaveLoginFails, server, history
  <2>8. CASE SaveConfig(p)
    BY <2>8 DEF SharedType, SaveConfig, server, history
  <2>9. CASE RestoreLogin(p)
    BY <2>9 DEF SharedType, LocalType, RestoreLogin, AfterRestore,
        AfterDelete, server, history
  <2>10. CASE RestoreFails(p)
    BY <2>10 DEF SharedType, RestoreFails, server, history
  <2>11. CASE RevokeIssued(p)
      <3>1. held[p] \in Token
        BY <2>11 DEF HeldTyped, LockedPC, Refreshing, LoginPC, RevokeIssued
      <3>2. QED
        BY <2>11, <3>1, TokenFields DEF SharedType, RevokeIssued, EndGrant,
            history
  <2>12. QED BY <1>4, <2>1, <2>2, <2>3, <2>4, <2>5, <2>6, <2>7, <2>8, <2>9, <2>10, <2>11
      DEF LoginStep
<1>5. ASSUME NEW p \in Proc, LogoutStep(p) PROVE SharedType'
  <2>1. CASE RevokeLogout(p)
      <3>1. held[p] \in Token
        BY <2>1 DEF HeldTyped, LockedPC, Refreshing, LoginPC, RevokeLogout
      <3>2. QED
        BY <2>1, <3>1, TokenFields DEF SharedType, RevokeLogout, EndGrant,
            history
  <2>2. CASE DeleteLogout(p)
      <3>1. held[p] \in Token
        BY <2>2 DEF HeldTyped, LockedPC, Refreshing, LoginPC, DeleteLogout
      <3>2. QED
        BY <2>2, <3>1, TokenFields DEF SharedType, DeleteLogout, AfterDelete,
            server
  <2>3. QED BY <1>5, <2>1, <2>2 DEF LogoutStep
<1>6. ASSUME NEW p \in Proc, Crash(p) PROVE SharedType'
  <2>1. pc[p] \in LockedPC \cup LoginPC => held[p].grant \in Grant
    BY TokenFields DEF HeldTyped
  <2>2. QED
    BY <1>6, <2>1 DEF SharedType, LockedPC, Refreshing, LoginPC, Crash, server
<1>7. ASSUME NEW g \in Grant, GrantEnds(g) PROVE SharedType'
  BY <1>7 DEF SharedType, GrantEnds, EndGrant, history
<1>8. ASSUME NEW g \in Grant, WindowCloses(g) PROVE SharedType'
  BY <1>8 DEF SharedType, WindowCloses, history
<1>9. CASE UNCHANGED vars
  BY <1>9 DEF SharedType, vars, server, local, history
<1>10. QED BY <1>1, <1>2, <1>3, <1>4, <1>5, <1>6, <1>7, <1>8, <1>9 DEF Next, Step,
    Environment

(* Every step keeps the types of the processes' memory. *)
LEMMA LocalTypeStep == TypeInv /\ [Next]_vars => LocalType'
<1> SUFFICES ASSUME SharedType, LocalType, HeldTyped, [Next]_vars
             PROVE  LocalType'
    BY DEF TypeInv, TypeOK
<1> USE AuthAssumption
<1> USE DEF TakeLock, ReleaseLock, Reload, StillWritten, MayRetry, SetAdrift
<1>1. ASSUME NEW p \in Proc, Start(p) PROVE LocalType'
  <2>1. CASE StartUse(p)
    BY <2>1 DEF LocalType, PC, LockedPC, Refreshing, LoginPC, Idle, StartUse,
        LoadAccess, Keep, Goto
  <2>2. CASE StartLogin(p)
    BY <2>2 DEF LocalType, PC, LockedPC, Refreshing, LoginPC, Idle,
        StartLogin, Goto
  <2>3. CASE StartLogout(p)
    BY <2>3 DEF LocalType, PC, LockedPC, Refreshing, LoginPC, Idle,
        StartLogout, Keep, Goto
  <2>4. CASE CleanLogout(p)
    BY <2>4 DEF LocalType, PC, LockedPC, Refreshing, LoginPC, Idle,
        CleanLogout, local
  <2>5. QED BY <1>1, <2>1, <2>2, <2>3, <2>4 DEF Start
<1>2. ASSUME NEW p \in Proc, AccountStep(p) PROVE LocalType'
  <2>1. CASE AccountOk(p)
    BY <2>1, DoneType DEF LocalType, PC, LockedPC, Refreshing, LoginPC, Idle,
        AccountOk
  <2>2. CASE AccountUnauthorized(p)
    BY <2>2 DEF LocalType, PC, LockedPC, Refreshing, LoginPC, Idle,
        AccountUnauthorized, Goto
  <2>3. CASE AccountError(p)
    BY <2>3, FailType DEF LocalType, PC, LockedPC, Refreshing, LoginPC, Idle,
        AccountError
  <2>4. QED BY <1>2, <2>1, <2>2, <2>3 DEF AccountStep
<1>3. ASSUME NEW p \in Proc, RefreshStep(p) PROVE LocalType'
  <2>1. CASE RefreshBegin(p)
      <3>1. CASE AccountFails(p, TRUE)
        BY <3>1, FailType
      <3>2. CASE ~AccountFails(p, TRUE)
        <4>1. pc' \in [Proc -> PC]
          BY <2>1, <3>2 DEF LocalType, PC, LockedPC, Refreshing, RefreshBegin, Goto
        <4>a. attempt' = attempt \/ attempt' = [attempt EXCEPT ![p] = 0]
          BY <2>1, <3>2 DEF RefreshBegin
        <4>2. attempt' \in [Proc -> 0..refreshRetryLimit]
          BY <4>a DEF LocalType, refreshRetryLimit
        <4>3. held' \in [Proc -> Token \cup {None}]
          BY <2>1, <3>2 DEF LocalType, RefreshBegin, Keep
        <4>4. QED
          BY <2>1, <3>2, <4>1, <4>2, <4>3 DEF LocalType, RefreshBegin
      <3>3. QED BY <3>1, <3>2
  <2>2. CASE RefreshUnavailable(p)
    BY <2>2, FailType DEF LocalType, PC, LockedPC, Refreshing, LoginPC, Idle,
        RefreshUnavailable
  <2>3. CASE SendAnswered(p)
    BY <2>3, NextToken DEF LocalType, PC, LockedPC, Refreshing, LoginPC, Idle,
        SendAnswered, Keep, Goto
  <2>4. CASE SendRefused(p)
    BY <2>4 DEF LocalType, PC, LockedPC, Refreshing, LoginPC, Idle,
        SendRefused, Goto
  <2>5. CASE SendRetried(p)
    BY <2>5 DEF LocalType, PC, LockedPC, Refreshing, LoginPC, Idle,
        refreshRetryLimit, SendRetried
  <2>6. CASE SendFails(p)
    BY <2>6, FailType DEF LocalType, PC, LockedPC, Refreshing, LoginPC, Idle,
        SendFails
  <2>7. CASE SaveRefresh(p)
      <3>1. CASE AccountFails(p, FALSE)
        BY <3>1, FailType
      <3>2. CASE ~AccountFails(p, FALSE)
        <4>1. pc' \in [Proc -> PC]
          BY <2>7, <3>2 DEF LocalType, PC, LockedPC, Refreshing, SaveRefresh, Goto
        <4>a. attempt' = attempt \/ attempt' = [attempt EXCEPT ![p] = 0]
          BY <2>7, <3>2 DEF SaveRefresh
        <4>2. attempt' \in [Proc -> 0..refreshRetryLimit]
          BY <4>a DEF LocalType, refreshRetryLimit
        <4>3. held' \in [Proc -> Token \cup {None}]
          BY <2>7, <3>2 DEF LocalType, SaveRefresh, Keep
        <4>4. QED
          BY <2>7, <3>2, <4>1, <4>2, <4>3 DEF LocalType, SaveRefresh
      <3>3. QED BY <3>1, <3>2
  <2>8. CASE RefreshExpired(p)
    BY <2>8, FailType DEF LocalType, PC, LockedPC, Refreshing, LoginPC, Idle,
        RefreshExpired
  <2>9. QED BY <1>3, <2>1, <2>2, <2>3, <2>4, <2>5, <2>6, <2>7, <2>8 DEF RefreshStep,
      SendStep
<1>4. ASSUME NEW p \in Proc, LoginStep(p) PROVE LocalType'
  <2>1. CASE SecondLogin(p)
    BY <2>1 DEF LocalType, PC, LockedPC, Refreshing, LoginPC, Idle,
        SecondLogin, LoadAccess, Goto, Keep
  <2>2. CASE CheckError(p)
    BY <2>2, DoneType DEF LocalType, PC, LockedPC, Refreshing, LoginPC, Idle,
        CheckError
  <2>3. CASE \E g \in Grant : Authorize(p, g)
    BY <2>3, DoneType DEF LocalType, PC, LockedPC, Refreshing, LoginPC, Idle,
        Token, Authorize, Keep, Goto
  <2>4. CASE AuthorizeFails(p)
    BY <2>4, DoneType DEF LocalType, PC, LockedPC, Refreshing, LoginPC, Idle,
        AuthorizeFails
  <2>5. CASE SaveLogin(p)
    BY <2>5 DEF LocalType, PC, LockedPC, Refreshing, LoginPC, Idle, SaveLogin,
        ReplaceRecord, Goto
  <2>6. CASE SaveLoginUnreadable(p)
    BY <2>6 DEF LocalType, PC, LockedPC, Refreshing, LoginPC, Idle,
        SaveLoginUnreadable, ReplaceRecord, Goto
  <2>7. CASE SaveLoginFails(p)
    BY <2>7 DEF LocalType, PC, LockedPC, Refreshing, LoginPC, Idle,
        SaveLoginFails, Goto
  <2>8. CASE SaveConfig(p)
    BY <2>8, DoneType DEF LocalType, PC, LockedPC, Refreshing, LoginPC, Idle,
        SaveConfig, Goto
  <2>9. CASE RestoreLogin(p)
    BY <2>9 DEF LocalType, PC, LockedPC, Refreshing, LoginPC, Idle,
        RestoreLogin, Goto
  <2>10. CASE RestoreFails(p)
    BY <2>10 DEF LocalType, PC, LockedPC, Refreshing, LoginPC, Idle,
        RestoreFails, Goto
  <2>11. CASE RevokeIssued(p)
    BY <2>11, DoneType DEF LocalType, PC, LockedPC, Refreshing, LoginPC, Idle,
        RevokeIssued
  <2>12. QED BY <1>4, <2>1, <2>2, <2>3, <2>4, <2>5, <2>6, <2>7, <2>8, <2>9, <2>10, <2>11
      DEF LoginStep
<1>5. ASSUME NEW p \in Proc, LogoutStep(p) PROVE LocalType'
  <2>1. CASE RevokeLogout(p)
    BY <2>1 DEF LocalType, PC, LockedPC, Refreshing, LoginPC, Idle,
        refreshRetryLimit, RevokeLogout, Goto
  <2>2. CASE DeleteLogout(p)
    BY <2>2, DoneType DEF LocalType, PC, LockedPC, Refreshing, LoginPC, Idle,
        DeleteLogout
  <2>3. QED BY <1>5, <2>1, <2>2 DEF LogoutStep
<1>6. ASSUME NEW p \in Proc, Crash(p) PROVE LocalType'
  BY <1>6, DoneType DEF LocalType, PC, LockedPC, Refreshing, LoginPC, Idle,
      Crash
<1>7. ASSUME NEW g \in Grant, GrantEnds(g) PROVE LocalType'
  BY <1>7 DEF LocalType, PC, LockedPC, Refreshing, LoginPC, Idle, GrantEnds,
      local
<1>8. ASSUME NEW g \in Grant, WindowCloses(g) PROVE LocalType'
  BY <1>8 DEF LocalType, PC, LockedPC, Refreshing, LoginPC, Idle,
      WindowCloses, local
<1>9. CASE UNCHANGED vars
  BY <1>9 DEF LocalType, PC, LockedPC, Refreshing, LoginPC, Idle, vars,
      server, local, history
<1>10. QED BY <1>1, <1>2, <1>3, <1>4, <1>5, <1>6, <1>7, <1>8, <1>9 DEF Next, Step,
    Environment

(* Every step leaves a token pair where one is needed. *)
LEMMA HeldTypedStep == TypeInv /\ [Next]_vars => HeldTyped'
<1> SUFFICES ASSUME SharedType, LocalType, HeldTyped, [Next]_vars
             PROVE  HeldTyped'
    BY DEF TypeInv, TypeOK
<1> USE DEF TakeLock, ReleaseLock, Reload, StillWritten, MayRetry, SetAdrift
<1>1. ASSUME NEW p \in Proc, Start(p) PROVE HeldTyped'
  <2>1. CASE StartUse(p)
    BY <2>1 DEF LocalType, HeldTyped, PC, LockedPC, Refreshing, LoginPC, Idle,
        StartUse, LoadAccess, Keep, Goto
  <2>2. CASE StartLogin(p)
    BY <2>2 DEF LocalType, HeldTyped, PC, LockedPC, Refreshing, LoginPC, Idle,
        StartLogin, Goto
  <2>3. CASE StartLogout(p)
    BY <2>3 DEF LocalType, HeldTyped, PC, LockedPC, Refreshing, LoginPC, Idle,
        StartLogout, Keep, Goto
  <2>4. CASE CleanLogout(p)
    BY <2>4 DEF LocalType, HeldTyped, PC, LockedPC, Refreshing, LoginPC, Idle,
        CleanLogout, local
  <2>5. QED BY <1>1, <2>1, <2>2, <2>3, <2>4 DEF Start
<1>2. ASSUME NEW p \in Proc, AccountStep(p) PROVE HeldTyped'
  <2>1. CASE AccountOk(p)
    BY <2>1 DEF LocalType, HeldTyped, PC, LockedPC, Refreshing, LoginPC, Idle,
        AccountOk, Done
  <2>2. CASE AccountUnauthorized(p)
    BY <2>2 DEF LocalType, HeldTyped, PC, LockedPC, Refreshing, LoginPC, Idle,
        AccountUnauthorized, Goto
  <2>3. CASE AccountError(p)
    BY <2>3 DEF LocalType, HeldTyped, PC, LockedPC, Refreshing, LoginPC, Idle,
        AccountError, AccountFails, Goto, Keep, Done
  <2>4. QED BY <1>2, <2>1, <2>2, <2>3 DEF AccountStep
<1>3. ASSUME NEW p \in Proc, RefreshStep(p) PROVE HeldTyped'
  <2>1. CASE RefreshBegin(p)
    BY <2>1 DEF LocalType, HeldTyped, PC, LockedPC, Refreshing, LoginPC, Idle,
        RefreshBegin, AccountFails, Keep, Goto, Done
  <2>2. CASE RefreshUnavailable(p)
    BY <2>2 DEF LocalType, HeldTyped, PC, LockedPC, Refreshing, LoginPC, Idle,
        RefreshUnavailable, AccountFails, Goto, Keep, Done
  <2>3. CASE SendAnswered(p)
      <3>1. held'[p] \in Token
        BY <2>3, NextToken DEF LocalType, SendAnswered, Keep
      <3>2. QED
        BY <2>3, <3>1 DEF LocalType, HeldTyped, LockedPC, Refreshing, LoginPC, SendAnswered, Keep, Goto
  <2>4. CASE SendRefused(p)
    BY <2>4 DEF LocalType, HeldTyped, PC, LockedPC, Refreshing, LoginPC, Idle,
        SendRefused, Goto
  <2>5. CASE SendRetried(p)
    BY <2>5 DEF LocalType, HeldTyped, PC, LockedPC, Refreshing, LoginPC, Idle,
        SendRetried, refreshRetryLimit
  <2>6. CASE SendFails(p)
    BY <2>6 DEF LocalType, HeldTyped, PC, LockedPC, Refreshing, LoginPC, Idle,
        SendFails, AccountFails, Goto, Keep, Done
  <2>7. CASE SaveRefresh(p)
    BY <2>7 DEF LocalType, HeldTyped, PC, LockedPC, Refreshing, LoginPC, Idle,
        SaveRefresh, Goto, AccountFails, Keep, Done
  <2>8. CASE RefreshExpired(p)
    BY <2>8 DEF LocalType, HeldTyped, PC, LockedPC, Refreshing, LoginPC, Idle,
        RefreshExpired, AccountFails, Goto, Keep, Done
  <2>9. QED BY <1>3, <2>1, <2>2, <2>3, <2>4, <2>5, <2>6, <2>7, <2>8 DEF RefreshStep,
      SendStep
<1>4. ASSUME NEW p \in Proc, LoginStep(p) PROVE HeldTyped'
  <2>1. CASE SecondLogin(p)
    BY <2>1 DEF LocalType, HeldTyped, PC, LockedPC, Refreshing, LoginPC, Idle,
        SecondLogin, LoadAccess, Goto, Keep
  <2>2. CASE CheckError(p)
    BY <2>2 DEF LocalType, HeldTyped, PC, LockedPC, Refreshing, LoginPC, Idle,
        CheckError, Done
  <2>3. CASE \E g \in Grant : Authorize(p, g)
    BY <2>3, AuthAssumption, TokenZero DEF LocalType, HeldTyped, PC, LockedPC,
        Refreshing, LoginPC, Idle, Authorize, Keep, Goto, Done
  <2>4. CASE AuthorizeFails(p)
    BY <2>4 DEF LocalType, HeldTyped, PC, LockedPC, Refreshing, LoginPC, Idle,
        AuthorizeFails, Done
  <2>5. CASE SaveLogin(p)
    BY <2>5 DEF LocalType, HeldTyped, PC, LockedPC, Refreshing, LoginPC, Idle,
        SaveLogin, ReplaceRecord, Goto
  <2>6. CASE SaveLoginUnreadable(p)
    BY <2>6 DEF LocalType, HeldTyped, PC, LockedPC, Refreshing, LoginPC, Idle,
        SaveLoginUnreadable, ReplaceRecord, Goto
  <2>7. CASE SaveLoginFails(p)
    BY <2>7 DEF LocalType, HeldTyped, PC, LockedPC, Refreshing, LoginPC, Idle,
        SaveLoginFails, Goto
  <2>8. CASE SaveConfig(p)
    BY <2>8 DEF LocalType, HeldTyped, PC, LockedPC, Refreshing, LoginPC, Idle,
        SaveConfig, Done, Goto
  <2>9. CASE RestoreLogin(p)
    BY <2>9 DEF LocalType, HeldTyped, PC, LockedPC, Refreshing, LoginPC, Idle,
        RestoreLogin, Goto
  <2>10. CASE RestoreFails(p)
    BY <2>10 DEF LocalType, HeldTyped, PC, LockedPC, Refreshing, LoginPC,
        Idle, RestoreFails, Goto
  <2>11. CASE RevokeIssued(p)
    BY <2>11 DEF LocalType, HeldTyped, PC, LockedPC, Refreshing, LoginPC,
        Idle, RevokeIssued, Done
  <2>12. QED BY <1>4, <2>1, <2>2, <2>3, <2>4, <2>5, <2>6, <2>7, <2>8, <2>9, <2>10, <2>11
      DEF LoginStep
<1>5. ASSUME NEW p \in Proc, LogoutStep(p) PROVE HeldTyped'
  <2>1. CASE RevokeLogout(p)
    BY <2>1 DEF LocalType, HeldTyped, PC, LockedPC, Refreshing, LoginPC, Idle,
        RevokeLogout, Goto
  <2>2. CASE DeleteLogout(p)
    BY <2>2 DEF LocalType, HeldTyped, PC, LockedPC, Refreshing, LoginPC, Idle,
        DeleteLogout, Done
  <2>3. QED BY <1>5, <2>1, <2>2 DEF LogoutStep
<1>6. ASSUME NEW p \in Proc, Crash(p) PROVE HeldTyped'
  BY <1>6 DEF LocalType, HeldTyped, PC, LockedPC, Refreshing, LoginPC, Idle,
      Crash, Done
<1>7. ASSUME NEW g \in Grant, GrantEnds(g) PROVE HeldTyped'
  BY <1>7 DEF LocalType, HeldTyped, PC, LockedPC, Refreshing, LoginPC, Idle,
      GrantEnds, local
<1>8. ASSUME NEW g \in Grant, WindowCloses(g) PROVE HeldTyped'
  BY <1>8 DEF LocalType, HeldTyped, PC, LockedPC, Refreshing, LoginPC, Idle,
      WindowCloses, local
<1>9. CASE UNCHANGED vars
  BY <1>9 DEF LocalType, HeldTyped, PC, LockedPC, Refreshing, LoginPC, Idle,
      vars, server, local, history
<1>10. QED BY <1>1, <1>2, <1>3, <1>4, <1>5, <1>6, <1>7, <1>8, <1>9 DEF Next, Step,
    Environment

-----------------------------------------------------------------------------
(* Steps *)

(* A command that ends, or a login check that leads to authorization,      *)
(* forgets the token pair it worked with.                                  *)
Others(p) ==
    \A q \in Proc \ {p} :
        /\ pc'[q] = pc[q] /\ held'[q] = held[q]
        /\ previous'[q] = previous[q] /\ attempt'[q] = attempt[q]

Forgets(p) ==
    /\ pc'[p] \in {Idle, "authorize"}
    /\ held'[p] = None
    /\ previous'[p] \in {None, previous[p]}
    /\ Others(p)

Shared == <<slot, lock, status, gen, window, lost, adrift>>

(* Steps that only move a process between the stages in which it neither   *)
(* holds the lock nor a grant of its own.                                  *)
Quiet(p) ==
    /\ UNCHANGED Shared
    /\ Others(p)
    /\ pc[p] \notin LockedPC \cup LoginPC
    /\ pc'[p] \notin LockedPC \cup LoginPC
    /\ held'[p] \in {None, held[p], slot}
    /\ previous'[p] \in {None, previous[p]}

TakesLock(p) ==
    /\ pc[p] = "refresh" /\ lock = None /\ slot \in Token
    /\ lock' = p
    /\ Others(p)
    /\ pc'[p] = "send" /\ held'[p] = slot /\ previous'[p] = previous[p]
    /\ UNCHANGED <<slot, status, gen, window, lost, adrift>>

(* The two ends of SaveRefresh. *)
Saves(p) ==
    /\ pc[p] = "saveRefresh" /\ lock' = None
    /\ slot' = held[p]
    /\ lost' = lost \ {held[p].grant}
    /\ Others(p)
    /\ pc'[p] = "account" /\ held'[p] = held[p] /\ previous'[p] = previous[p]
    /\ UNCHANGED <<status, gen, window, adrift>>

SaveFails(p) ==
    /\ pc[p] = "saveRefresh" /\ lock' = None
    /\ lost' = lost \cup {held[p].grant}
    /\ Forgets(p)
    /\ UNCHANGED <<slot, status, gen, window, adrift>>

(* Steps of login that end in the attempt to revoke what was issued. *)
Abandons(p) ==
    /\ UNCHANGED Shared
    /\ pc[p] \in {"saveLogin", "restore"} /\ pc'[p] = "revokeIssued"
    /\ held'[p] = held[p] /\ previous'[p] \in {None, previous[p]}
    /\ Others(p)

(* A new grant is nowhere yet; its tokens arrive or not. *)
Authorizes(p, g) ==
    /\ pc[p] = "authorize" /\ status[g] = "none" /\ gen[g] = 0
    /\ g \notin GrantOf(slot)
    /\ \A q \in Proc : ~Holds(q, g) /\ ~Restores(q, g)
    /\ status' = [status EXCEPT ![g] = "active"]
    /\ UNCHANGED <<slot, lock, gen, window, lost>>
    /\ Others(p)
    /\ \/ /\ pc'[p] = "saveLogin" /\ held'[p] = [grant |-> g, gen |-> 0]
          /\ previous'[p] = previous[p] /\ adrift' = adrift
       \/ Forgets(p) /\ SetAdrift({g}, "stranded")

(* A command that ends holds nothing, and disturbs nobody. *)
LEMMA DoneForgets ==
    ASSUME LocalType, NEW p \in Proc, Done(p)
    PROVE  Forgets(p)
BY DEF LocalType, Done, Forgets, Others

(* So does one whose Account failed. *)
LEMMA FailForgets ==
    ASSUME LocalType, NEW p \in Proc, NEW gone \in BOOLEAN, AccountFails(p, gone)
    PROVE  Forgets(p)
<1>1. CASE Done(p)
  BY <1>1, DoneForgets
<1>2. CASE ~Done(p)
  BY <1>2 DEF LocalType, AccountFails, Goto, Keep, Forgets, Others
<1>3. QED BY <1>1, <1>2

(* The steps that only move one process. *)
LEMMA QuietSteps ==
    ASSUME LocalType, NEW p \in Proc,
           \/ StartUse(p) \/ StartLogin(p) \/ AccountStep(p)
           \/ RefreshUnavailable(p) \/ SecondLogin(p) \/ CheckError(p)
           \/ AuthorizeFails(p)
    PROVE  Quiet(p)
<1> USE DEF Quiet, Shared, Others, Idle, LockedPC, Refreshing, LoginPC,
            server, history, LocalType
<1> USE DEF TakeLock, ReleaseLock, Reload, StillWritten, MayRetry, SetAdrift
<1>1. CASE StartUse(p)
  BY <1>1 DEF StartUse, LoadAccess, Keep, Goto
<1>2. CASE StartLogin(p)
  BY <1>2 DEF StartLogin, Goto
<1>3. CASE AccountOk(p)
  BY <1>3, DoneForgets DEF AccountOk, Forgets
<1>4. CASE AccountUnauthorized(p)
  BY <1>4 DEF AccountUnauthorized, Goto
<1>5. CASE AccountError(p)
  BY <1>5, FailForgets DEF AccountError, Forgets
<1>6. CASE RefreshUnavailable(p)
  BY <1>6, FailForgets DEF RefreshUnavailable, Forgets
<1>7. CASE SecondLogin(p)
  BY <1>7 DEF SecondLogin, LoadAccess, Goto, Keep
<1>8. CASE CheckError(p)
  BY <1>8, DoneForgets DEF CheckError, Forgets
<1>9. CASE AuthorizeFails(p)
  BY <1>9, DoneForgets DEF AuthorizeFails, Forgets
<1>10. QED
  BY <1>1, <1>2, <1>3, <1>4, <1>5, <1>6, <1>7, <1>8, <1>9 DEF AccountStep

(* RefreshBegin takes the lock or only moves its process. *)
LEMMA BeginSteps ==
    ASSUME LocalType, NEW p \in Proc, RefreshBegin(p)
    PROVE  Quiet(p) \/ TakesLock(p)
<1> USE DEF Others, Idle, LockedPC, Refreshing, LoginPC, server, history,
            LocalType
<1> USE DEF TakeLock, ReleaseLock, Reload, StillWritten, MayRetry, SetAdrift
<1>1. CASE slot \notin Token
  BY <1>1, FailForgets DEF RefreshBegin, Forgets, Quiet, Shared
<1>2. CASE slot \in Token /\ lock' = lock
  BY <1>2, AuthAssumption DEF RefreshBegin, Keep, Goto, Quiet, Shared
<1>3. CASE slot \in Token /\ lock' # lock
  BY <1>3 DEF RefreshBegin, Keep, Goto, TakesLock
<1>4. QED BY <1>1, <1>2, <1>3

(* SaveRefresh records the new pair or loses it. *)
LEMMA SaveSteps ==
    ASSUME LocalType, NEW p \in Proc, SaveRefresh(p)
    PROVE  Saves(p) \/ SaveFails(p)
BY FailForgets
    DEF SaveRefresh, Goto, Saves, SaveFails, Others, server, LocalType,
        ReleaseLock

(* The failures of login before it revokes. *)
LEMMA AbandonSteps ==
    ASSUME LocalType, NEW p \in Proc, SaveLoginFails(p) \/ RestoreFails(p)
    PROVE  Abandons(p)
BY DEF SaveLoginFails, RestoreFails, Goto, Abandons, Shared, Others, server,
       history, LocalType

(* Authorize creates a grant that is nowhere yet. *)
LEMMA AuthorizeSteps ==
    ASSUME LocalType, IssuedInv, NEW p \in Proc, NEW g \in Grant, Authorize(p, g)
    PROVE  Authorizes(p, g)
<1>1. /\ pc[p] = "authorize" /\ status[g] = "none" /\ gen[g] = 0
      /\ g \notin GrantOf(slot)
      /\ \A q \in Proc : ~Holds(q, g) /\ ~Restores(q, g)
      /\ status' = [status EXCEPT ![g] = "active"]
      /\ UNCHANGED <<slot, lock, gen, window, lost>>
  BY DEF Authorize, IssuedInv, history
<1>2. CASE Done(p) /\ SetAdrift({g}, "stranded")
  BY <1>1, <1>2, DoneForgets DEF Authorizes, Forgets
<1>3. CASE /\ Keep(p, [grant |-> g, gen |-> 0])
           /\ Goto(p, "saveLogin")
           /\ UNCHANGED <<previous, attempt, retried, purpose>>
           /\ UNCHANGED history
  BY <1>1, <1>3 DEF Authorizes, Keep, Goto, Others, LocalType, history
<1>4. QED BY <1>2, <1>3 DEF Authorize

(* Every step is one of these. *)
ProcessEffect(p) ==
    \/ Quiet(p)
    \/ TakesLock(p)
    \/ SendAnswered(p)
    \/ SendRefused(p)
    \/ SendRetried(p)
    \/ SendFails(p)
    \/ Saves(p)
    \/ SaveFails(p)
    \/ RefreshExpired(p)
    \/ \E g \in Grant : Authorizes(p, g)
    \/ SaveLogin(p)
    \/ SaveLoginUnreadable(p)
    \/ Abandons(p)
    \/ SaveConfig(p)
    \/ RestoreLogin(p)
    \/ RevokeIssued(p)
    \/ StartLogout(p)
    \/ CleanLogout(p)
    \/ RevokeLogout(p)
    \/ DeleteLogout(p)
    \/ Crash(p)

(* Every step has one of the effects above. *)
LEMMA Effects ==
    ASSUME LocalType, IssuedInv, [Next]_vars
    PROVE  \/ \E p \in Proc : ProcessEffect(p)
           \/ \E g \in Grant : GrantEnds(g) \/ WindowCloses(g)
           \/ UNCHANGED vars
<1>1. ASSUME NEW p \in Proc, Start(p) \/ Step(p) \/ Crash(p)
      PROVE  ProcessEffect(p)
  <2>1. CASE Start(p)
    BY <2>1, QuietSteps DEF Start, ProcessEffect
  <2>2. CASE AccountStep(p)
    BY <2>2, QuietSteps DEF ProcessEffect
  <2>3. CASE RefreshStep(p)
    BY <2>3, QuietSteps, BeginSteps, SaveSteps
        DEF RefreshStep, SendStep, ProcessEffect
  <2>4. CASE LoginStep(p)
    BY <2>4, QuietSteps, AuthorizeSteps, AbandonSteps
        DEF LoginStep, ProcessEffect
  <2>5. CASE LogoutStep(p)
    BY <2>5 DEF LogoutStep, ProcessEffect
  <2>6. QED BY <1>1, <2>1, <2>2, <2>3, <2>4, <2>5 DEF Step, ProcessEffect
<1>2. QED BY <1>1 DEF Next, Environment

(* A process's step leaves the other processes' memory alone. *)
LEMMA OthersStep ==
    ASSUME LocalType, NEW p \in Proc, ProcessEffect(p)
    PROVE  Others(p)
<1> USE DEF LocalType, Others
<1> USE DEF TakeLock, ReleaseLock, Reload, StillWritten, MayRetry, SetAdrift
<1>1. CASE Quiet(p)
  BY <1>1 DEF Quiet
<1>2. CASE TakesLock(p)
  BY <1>2 DEF TakesLock
<1>3. CASE SendAnswered(p)
  BY <1>3 DEF SendAnswered, Keep, Goto
<1>4. CASE SendRefused(p)
  BY <1>4 DEF SendRefused, Goto
<1>5. CASE SendRetried(p)
  BY <1>5 DEF SendRetried
<1>6. CASE SendFails(p)
  BY <1>6, FailForgets DEF SendFails, Forgets
<1>7. CASE Saves(p)
  BY <1>7 DEF Saves
<1>8. CASE SaveFails(p)
  BY <1>8 DEF SaveFails, Forgets
<1>9. CASE RefreshExpired(p)
  BY <1>9, FailForgets DEF RefreshExpired, Forgets
<1>10. CASE \E g \in Grant : Authorizes(p, g)
  BY <1>10 DEF Authorizes
<1>11. CASE SaveLogin(p)
  BY <1>11 DEF SaveLogin, ReplaceRecord, Goto
<1>12. CASE SaveLoginUnreadable(p)
  BY <1>12 DEF SaveLoginUnreadable, ReplaceRecord, Goto
<1>13. CASE Abandons(p)
  BY <1>13 DEF Abandons
<1>14. CASE SaveConfig(p)
  BY <1>14, DoneForgets DEF SaveConfig, Forgets, Goto
<1>15. CASE RestoreLogin(p)
  BY <1>15 DEF RestoreLogin, Goto
<1>16. CASE RevokeIssued(p)
  BY <1>16, DoneForgets DEF RevokeIssued, Forgets
<1>17. CASE StartLogout(p)
  BY <1>17 DEF StartLogout, Idle, Keep, Goto
<1>18. CASE CleanLogout(p)
  BY <1>18 DEF CleanLogout, Idle, local, local
<1>19. CASE RevokeLogout(p)
  BY <1>19 DEF RevokeLogout, Goto
<1>20. CASE DeleteLogout(p)
  BY <1>20, DoneForgets DEF DeleteLogout, Forgets
<1>21. CASE Crash(p)
  BY <1>21, DoneForgets DEF Crash, Forgets
<1>22. QED
  BY <1>1, <1>2, <1>3, <1>4, <1>5, <1>6, <1>7, <1>8, <1>9, <1>10, <1>11,
      <1>12, <1>13, <1>14, <1>15, <1>16, <1>17, <1>18, <1>19, <1>20, <1>21 DEF
      ProcessEffect

(* Who is in a locked section holds the lock. *)
LEMMA LockStep == IInv /\ [Next]_vars => LockInv'
<1> SUFFICES ASSUME IInv, [Next]_vars PROVE LockInv'
    OBVIOUS
<1>0. SharedType /\ LocalType /\ HeldTyped
  BY DEF IInv, TypeInv, TypeOK
<1> USE AuthAssumption, <1>0
<1> USE DEF IInv, LockInv, Idle, LockedPC, Refreshing, LoginPC, Others,
            LocalType, SharedType, HeldTyped, server, history
<1> USE DEF TakeLock, ReleaseLock, Reload, StillWritten, MayRetry, SetAdrift
<1>1. ASSUME NEW p \in Proc, Quiet(p) PROVE LockInv'
  BY <1>1 DEF Quiet, Shared
<1>2. ASSUME NEW p \in Proc, TakesLock(p) PROVE LockInv'
  BY <1>2 DEF TakesLock
<1>3. ASSUME NEW p \in Proc, SendAnswered(p) PROVE LockInv'
  BY <1>3 DEF SendAnswered, Rotates, ServesAgain, Keep, Goto
<1>4. ASSUME NEW p \in Proc, SendRefused(p) PROVE LockInv'
  BY <1>4 DEF SendRefused, Refuses, Goto, Reuse
<1>5. ASSUME NEW p \in Proc, SendRetried(p) PROVE LockInv'
  BY <1>5 DEF SendRetried, refreshRetryLimit, Unanswered, Rotates,
      ServesAgain, Refuses, Reuse
<1>6. ASSUME NEW p \in Proc, SendFails(p) PROVE LockInv'
  <2>1. Forgets(p)
    BY <1>6, FailForgets DEF SendFails
  <2>2. QED
    BY <1>6, <2>1 DEF Forgets, SendFails, Unanswered, MarkLost, Rotates,
        ServesAgain, Refuses, Reuse
<1>7. ASSUME NEW p \in Proc, Saves(p) PROVE LockInv'
  BY <1>7 DEF Saves
<1>8. ASSUME NEW p \in Proc, SaveFails(p) PROVE LockInv'
  BY <1>8 DEF SaveFails, Forgets
<1>9. ASSUME NEW p \in Proc, RefreshExpired(p) PROVE LockInv'
  <2>1. Forgets(p)
    BY <1>9, FailForgets DEF RefreshExpired
  <2>2. QED
    BY <1>9, <2>1 DEF Forgets, RefreshExpired, AfterDelete
<1>10. ASSUME NEW p \in Proc, NEW g \in Grant, Authorizes(p, g) PROVE LockInv'
  BY <1>10 DEF Authorizes, Forgets
<1>11. ASSUME NEW p \in Proc, SaveLogin(p) PROVE LockInv'
  BY <1>11 DEF SaveLogin, ReplaceRecord, Goto, AfterFailedReplace
<1>12. ASSUME NEW p \in Proc, SaveLoginUnreadable(p) PROVE LockInv'
  BY <1>12 DEF SaveLoginUnreadable, ReplaceRecord, GrantOf, Goto,
      AfterFailedReplace
<1>13. ASSUME NEW p \in Proc, Abandons(p) PROVE LockInv'
  BY <1>13 DEF Abandons, Shared
<1>14. ASSUME NEW p \in Proc, SaveConfig(p) PROVE LockInv'
  BY <1>14, DoneForgets DEF SaveConfig, Goto, Forgets
<1>15. ASSUME NEW p \in Proc, RestoreLogin(p) PROVE LockInv'
  BY <1>15 DEF RestoreLogin, AfterRestore, AfterDelete, Goto
<1>16. ASSUME NEW p \in Proc, RevokeIssued(p) PROVE LockInv'
  <2>1. Forgets(p)
    BY <1>16, DoneForgets DEF RevokeIssued
  <2>2. QED
    BY <1>16, <2>1 DEF Forgets, RevokeIssued, EndGrant
<1>17. ASSUME NEW p \in Proc, StartLogout(p) PROVE LockInv'
  BY <1>17 DEF StartLogout, Keep, Goto
<1>18. ASSUME NEW p \in Proc, CleanLogout(p) PROVE LockInv'
  BY <1>18 DEF CleanLogout, AfterDelete, local
<1>19. ASSUME NEW p \in Proc, RevokeLogout(p) PROVE LockInv'
  BY <1>19 DEF RevokeLogout, Goto, EndGrant
<1>20. ASSUME NEW p \in Proc, DeleteLogout(p) PROVE LockInv'
  <2>1. Forgets(p)
    BY <1>20, DoneForgets DEF DeleteLogout
  <2>2. QED
    BY <1>20, <2>1 DEF Forgets, DeleteLogout, AfterDelete
<1>21. ASSUME NEW p \in Proc, Crash(p) PROVE LockInv'
  <2>1. Forgets(p)
    BY <1>21, DoneForgets DEF Crash
  <2>2. QED
    BY <1>21, <2>1 DEF Forgets, Crash, GrantOf
<1>22. ASSUME NEW g \in Grant, GrantEnds(g) PROVE LockInv'
  BY <1>22 DEF GrantEnds, EndGrant, local
<1>23. ASSUME NEW g \in Grant, WindowCloses(g) PROVE LockInv'
  BY <1>23 DEF WindowCloses, local
<1>24. CASE UNCHANGED vars
  BY <1>24 DEF vars, local
<1>25. QED
  BY Effects, <1>1, <1>2, <1>3, <1>4, <1>5, <1>6, <1>7, <1>8, <1>9, <1>10,
      <1>11, <1>12, <1>13, <1>14, <1>15, <1>16, <1>17, <1>18, <1>19, <1>20,
      <1>21, <1>22, <1>23, <1>24 DEF ProcessEffect, IInv

(* The record does not change under a locked section. *)
LEMMA HeldStep == IInv /\ [Next]_vars => HeldInv'
<1> SUFFICES ASSUME IInv, [Next]_vars PROVE HeldInv'
    OBVIOUS
<1>0. SharedType /\ LocalType /\ HeldTyped
  BY DEF IInv, TypeInv, TypeOK
<1> USE AuthAssumption, <1>0
<1> USE DEF IInv, LockInv, HeldInv, Idle, LockedPC, Refreshing, LoginPC,
            Others, LocalType, SharedType, HeldTyped, server, history
<1> USE DEF TakeLock, ReleaseLock, Reload, StillWritten, MayRetry, SetAdrift
<1>1. ASSUME NEW p \in Proc, Quiet(p) PROVE HeldInv'
  BY <1>1, TokenFields DEF Quiet, Shared
<1>2. ASSUME NEW p \in Proc, TakesLock(p) PROVE HeldInv'
  BY <1>2, TokenFields DEF TakesLock
<1>3. ASSUME NEW p \in Proc, SendAnswered(p) PROVE HeldInv'
  BY <1>3, TokenFields DEF SendAnswered, Rotates, ServesAgain, Keep, Goto,
      Recoverable
<1>4. ASSUME NEW p \in Proc, SendRefused(p) PROVE HeldInv'
  BY <1>4, TokenFields DEF SendRefused, Refuses, Goto, Reuse, Consumed,
      Superseded, Recoverable
<1>5. ASSUME NEW p \in Proc, SendRetried(p) PROVE HeldInv'
  BY <1>5, TokenFields DEF SendRetried, refreshRetryLimit, Unanswered,
      Rotates, ServesAgain, Refuses, Recoverable, Reuse, Consumed, Superseded
<1>6. ASSUME NEW p \in Proc, SendFails(p) PROVE HeldInv'
  <2>1. Forgets(p)
    BY <1>6, FailForgets DEF SendFails
  <2>2. QED
    BY <1>6, <2>1, TokenFields DEF Forgets, SendFails, Unanswered, MarkLost,
        Rotates, ServesAgain, Refuses, Recoverable, Reuse, Consumed,
        Superseded
<1>7. ASSUME NEW p \in Proc, Saves(p) PROVE HeldInv'
  BY <1>7, TokenFields DEF Saves
<1>8. ASSUME NEW p \in Proc, SaveFails(p) PROVE HeldInv'
  BY <1>8, TokenFields DEF SaveFails, Forgets
<1>9. ASSUME NEW p \in Proc, RefreshExpired(p) PROVE HeldInv'
  <2>1. Forgets(p)
    BY <1>9, FailForgets DEF RefreshExpired
  <2>2. QED
    BY <1>9, <2>1, TokenFields DEF Forgets, RefreshExpired, AfterDelete
<1>10. ASSUME NEW p \in Proc, NEW g \in Grant, Authorizes(p, g) PROVE HeldInv'
  BY <1>10, TokenFields DEF Authorizes, Forgets
<1>11. ASSUME NEW p \in Proc, SaveLogin(p) PROVE HeldInv'
  BY <1>11, TokenFields DEF SaveLogin, ReplaceRecord, Goto, AfterFailedReplace
<1>12. ASSUME NEW p \in Proc, SaveLoginUnreadable(p) PROVE HeldInv'
  BY <1>12, TokenFields DEF SaveLoginUnreadable, ReplaceRecord, GrantOf, Goto,
      AfterFailedReplace
<1>13. ASSUME NEW p \in Proc, Abandons(p) PROVE HeldInv'
  BY <1>13, TokenFields DEF Abandons, Shared
<1>14. ASSUME NEW p \in Proc, SaveConfig(p) PROVE HeldInv'
  BY <1>14, DoneForgets, TokenFields DEF SaveConfig, Goto, Forgets
<1>15. ASSUME NEW p \in Proc, RestoreLogin(p) PROVE HeldInv'
  BY <1>15, TokenFields DEF RestoreLogin, AfterRestore, AfterDelete, Goto
<1>16. ASSUME NEW p \in Proc, RevokeIssued(p) PROVE HeldInv'
  <2>1. Forgets(p)
    BY <1>16, DoneForgets DEF RevokeIssued
  <2>2. QED
    BY <1>16, <2>1, TokenFields DEF Forgets, RevokeIssued, EndGrant
<1>17. ASSUME NEW p \in Proc, StartLogout(p) PROVE HeldInv'
  BY <1>17, TokenFields DEF StartLogout, Keep, Goto
<1>18. ASSUME NEW p \in Proc, CleanLogout(p) PROVE HeldInv'
  BY <1>18, TokenFields DEF CleanLogout, AfterDelete, local
<1>19. ASSUME NEW p \in Proc, RevokeLogout(p) PROVE HeldInv'
  BY <1>19, TokenFields DEF RevokeLogout, Goto, EndGrant
<1>20. ASSUME NEW p \in Proc, DeleteLogout(p) PROVE HeldInv'
  <2>1. Forgets(p)
    BY <1>20, DoneForgets DEF DeleteLogout
  <2>2. QED
    BY <1>20, <2>1, TokenFields DEF Forgets, DeleteLogout, AfterDelete
<1>21. ASSUME NEW p \in Proc, Crash(p) PROVE HeldInv'
  <2>1. Forgets(p)
    BY <1>21, DoneForgets DEF Crash
  <2>2. QED
    BY <1>21, <2>1, TokenFields DEF Forgets, Crash, GrantOf, Superseded
<1>22. ASSUME NEW g \in Grant, GrantEnds(g) PROVE HeldInv'
  BY <1>22, TokenFields DEF GrantEnds, EndGrant, local
<1>23. ASSUME NEW g \in Grant, WindowCloses(g) PROVE HeldInv'
  BY <1>23, TokenFields DEF WindowCloses, local
<1>24. CASE UNCHANGED vars
  BY <1>24 DEF vars, local
<1>25. QED
  BY Effects, <1>1, <1>2, <1>3, <1>4, <1>5, <1>6, <1>7, <1>8, <1>9, <1>10,
      <1>11, <1>12, <1>13, <1>14, <1>15, <1>16, <1>17, <1>18, <1>19, <1>20,
      <1>21, <1>22, <1>23, <1>24 DEF ProcessEffect, IInv

(* A refresh in progress can always be recovered by its retry. *)
LEMMA SendInvStep == IInv /\ [Next]_vars => SendInv'
<1> SUFFICES ASSUME IInv, [Next]_vars PROVE SendInv'
    OBVIOUS
<1>0. SharedType /\ LocalType /\ HeldTyped
  BY DEF IInv, TypeInv, TypeOK
<1> USE AuthAssumption, <1>0
<1> USE DEF IInv, LockInv, HeldInv, SendInv, Superseded, Consumed,
            Recoverable, Idle, LockedPC, Refreshing, LoginPC, Others,
            LocalType, SharedType, HeldTyped, server, history
<1> USE DEF TakeLock, ReleaseLock, Reload, StillWritten, MayRetry, SetAdrift
<1>1. ASSUME NEW p \in Proc, Quiet(p) PROVE SendInv'
  BY <1>1, TokenFields DEF Quiet, Shared
<1>2. ASSUME NEW p \in Proc, TakesLock(p) PROVE SendInv'
  BY <1>2, TokenFields DEF TakesLock, RecordUsable
<1>3. ASSUME NEW p \in Proc, SendAnswered(p) PROVE SendInv'
  BY <1>3, TokenFields DEF SendAnswered, Rotates, ServesAgain, Keep, Goto
<1>4. ASSUME NEW p \in Proc, SendRefused(p) PROVE SendInv'
  BY <1>4, TokenFields DEF SendRefused, Refuses, Goto, Reuse
<1>5. ASSUME NEW p \in Proc, SendRetried(p) PROVE SendInv'
  BY <1>5, TokenFields DEF SendRetried, refreshRetryLimit, Unanswered,
      Rotates, ServesAgain, Refuses, Reuse
<1>6. ASSUME NEW p \in Proc, SendFails(p) PROVE SendInv'
  <2>1. Forgets(p)
    BY <1>6, FailForgets DEF SendFails
  <2>2. QED
    BY <1>6, <2>1, TokenFields DEF Forgets, SendFails, Unanswered, MarkLost,
        Rotates, ServesAgain, Refuses, Reuse
<1>7. ASSUME NEW p \in Proc, Saves(p) PROVE SendInv'
  BY <1>7, TokenFields DEF Saves
<1>8. ASSUME NEW p \in Proc, SaveFails(p) PROVE SendInv'
  BY <1>8, TokenFields DEF SaveFails, Forgets
<1>9. ASSUME NEW p \in Proc, RefreshExpired(p) PROVE SendInv'
  <2>1. Forgets(p)
    BY <1>9, FailForgets DEF RefreshExpired
  <2>2. QED
    BY <1>9, <2>1, TokenFields DEF Forgets, RefreshExpired, AfterDelete
<1>10. ASSUME NEW p \in Proc, NEW g \in Grant, Authorizes(p, g) PROVE SendInv'
  <2>1. \A q \in Proc : pc[q] = "send" => held[q].grant # g
    BY <1>10 DEF Authorizes, Holds
  <2>2. QED
    BY <1>10, <2>1, TokenFields DEF Authorizes, Forgets
<1>11. ASSUME NEW p \in Proc, SaveLogin(p) PROVE SendInv'
  BY <1>11, TokenFields DEF SaveLogin, ReplaceRecord, Goto, AfterFailedReplace
<1>12. ASSUME NEW p \in Proc, SaveLoginUnreadable(p) PROVE SendInv'
  BY <1>12, TokenFields DEF SaveLoginUnreadable, ReplaceRecord, GrantOf, Goto,
      AfterFailedReplace
<1>13. ASSUME NEW p \in Proc, Abandons(p) PROVE SendInv'
  BY <1>13, TokenFields DEF Abandons, Shared
<1>14. ASSUME NEW p \in Proc, SaveConfig(p) PROVE SendInv'
  BY <1>14, DoneForgets, TokenFields DEF SaveConfig, Goto, Forgets
<1>15. ASSUME NEW p \in Proc, RestoreLogin(p) PROVE SendInv'
  BY <1>15, TokenFields DEF RestoreLogin, AfterRestore, AfterDelete, Goto
<1>16. ASSUME NEW p \in Proc, RevokeIssued(p) PROVE SendInv'
  <2>1. Forgets(p)
    BY <1>16, DoneForgets DEF RevokeIssued
  <2>2. QED
    BY <1>16, <2>1, TokenFields DEF Forgets, RevokeIssued, EndGrant
<1>17. ASSUME NEW p \in Proc, StartLogout(p) PROVE SendInv'
  BY <1>17, TokenFields DEF StartLogout, Keep, Goto
<1>18. ASSUME NEW p \in Proc, CleanLogout(p) PROVE SendInv'
  BY <1>18, TokenFields DEF CleanLogout, AfterDelete, local
<1>19. ASSUME NEW p \in Proc, RevokeLogout(p) PROVE SendInv'
  BY <1>19, TokenFields DEF RevokeLogout, Goto, EndGrant
<1>20. ASSUME NEW p \in Proc, DeleteLogout(p) PROVE SendInv'
  <2>1. Forgets(p)
    BY <1>20, DoneForgets DEF DeleteLogout
  <2>2. QED
    BY <1>20, <2>1, TokenFields DEF Forgets, DeleteLogout, AfterDelete
<1>21. ASSUME NEW p \in Proc, Crash(p) PROVE SendInv'
  <2>1. Forgets(p)
    BY <1>21, DoneForgets DEF Crash
  <2>2. QED
    BY <1>21, <2>1, TokenFields DEF Forgets, Crash, GrantOf
<1>22. ASSUME NEW g \in Grant, GrantEnds(g) PROVE SendInv'
  BY <1>22, TokenFields DEF GrantEnds, EndGrant, local
<1>23. ASSUME NEW g \in Grant, WindowCloses(g) PROVE SendInv'
  BY <1>23, TokenFields DEF WindowCloses, local
<1>24. CASE UNCHANGED vars
  BY <1>24 DEF vars, local
<1>25. QED
  BY Effects, <1>1, <1>2, <1>3, <1>4, <1>5, <1>6, <1>7, <1>8, <1>9, <1>10,
      <1>11, <1>12, <1>13, <1>14, <1>15, <1>16, <1>17, <1>18, <1>19, <1>20,
      <1>21, <1>22, <1>23, <1>24 DEF ProcessEffect, IInv

(* There are no tokens of a grant the server has not issued. *)
LEMMA IssuedStep == IInv /\ [Next]_vars => IssuedInv'
<1> SUFFICES ASSUME IInv, [Next]_vars PROVE IssuedInv'
    OBVIOUS
<1>0. SharedType /\ LocalType /\ HeldTyped
  BY DEF IInv, TypeInv, TypeOK
<1> USE AuthAssumption, <1>0
<1> USE DEF IInv, LockInv, HeldInv, IssuedInv, Holds, Restores, GrantOf, Idle,
            LockedPC, Refreshing, LoginPC, Others, LocalType, SharedType,
            HeldTyped, server, history
<1> USE DEF TakeLock, ReleaseLock, Reload, StillWritten, MayRetry, SetAdrift
<1>1. ASSUME NEW p \in Proc, Quiet(p) PROVE IssuedInv'
  BY <1>1, TokenFields DEF Quiet, Shared
<1>2. ASSUME NEW p \in Proc, TakesLock(p) PROVE IssuedInv'
  BY <1>2, TokenFields DEF TakesLock
<1>3. ASSUME NEW p \in Proc, SendAnswered(p) PROVE IssuedInv'
  BY <1>3, TokenFields DEF SendAnswered, Rotates, ServesAgain, Keep, Goto
<1>4. ASSUME NEW p \in Proc, SendRefused(p) PROVE IssuedInv'
  BY <1>4, TokenFields DEF SendRefused, Refuses, Goto, Reuse
<1>5. ASSUME NEW p \in Proc, SendRetried(p) PROVE IssuedInv'
  BY <1>5, TokenFields DEF SendRetried, refreshRetryLimit, Unanswered,
      Rotates, ServesAgain, Refuses, Reuse
<1>6. ASSUME NEW p \in Proc, SendFails(p) PROVE IssuedInv'
  <2>1. Forgets(p)
    BY <1>6, FailForgets DEF SendFails
  <2>2. QED
    BY <1>6, <2>1, TokenFields DEF Forgets, SendFails, Unanswered, MarkLost,
        Rotates, ServesAgain, Refuses, Reuse
<1>7. ASSUME NEW p \in Proc, Saves(p) PROVE IssuedInv'
  BY <1>7, TokenFields DEF Saves
<1>8. ASSUME NEW p \in Proc, SaveFails(p) PROVE IssuedInv'
  BY <1>8, TokenFields DEF SaveFails, Forgets
<1>9. ASSUME NEW p \in Proc, RefreshExpired(p) PROVE IssuedInv'
  <2>1. Forgets(p)
    BY <1>9, FailForgets DEF RefreshExpired
  <2>2. QED
    BY <1>9, <2>1, TokenFields DEF Forgets, RefreshExpired, AfterDelete
<1>10. ASSUME NEW p \in Proc, NEW g \in Grant, Authorizes(p, g) PROVE IssuedInv'
  BY <1>10, TokenFields DEF Authorizes, Forgets
<1>11. ASSUME NEW p \in Proc, SaveLogin(p) PROVE IssuedInv'
  BY <1>11, TokenFields DEF SaveLogin, ReplaceRecord, Goto, AfterFailedReplace
<1>12. ASSUME NEW p \in Proc, SaveLoginUnreadable(p) PROVE IssuedInv'
  BY <1>12, TokenFields DEF SaveLoginUnreadable, ReplaceRecord, Goto,
      AfterFailedReplace
<1>13. ASSUME NEW p \in Proc, Abandons(p) PROVE IssuedInv'
  BY <1>13, TokenFields DEF Abandons, Shared
<1>14. ASSUME NEW p \in Proc, SaveConfig(p) PROVE IssuedInv'
  BY <1>14, DoneForgets, TokenFields DEF SaveConfig, Goto, Forgets
<1>15. ASSUME NEW p \in Proc, RestoreLogin(p) PROVE IssuedInv'
  BY <1>15, TokenFields DEF RestoreLogin, AfterRestore, AfterDelete, Goto
<1>16. ASSUME NEW p \in Proc, RevokeIssued(p) PROVE IssuedInv'
  <2>1. Forgets(p)
    BY <1>16, DoneForgets DEF RevokeIssued
  <2>2. QED
    BY <1>16, <2>1, TokenFields DEF Forgets, RevokeIssued, EndGrant
<1>17. ASSUME NEW p \in Proc, StartLogout(p) PROVE IssuedInv'
  BY <1>17, TokenFields DEF StartLogout, Keep, Goto
<1>18. ASSUME NEW p \in Proc, CleanLogout(p) PROVE IssuedInv'
  BY <1>18, TokenFields DEF CleanLogout, AfterDelete, local
<1>19. ASSUME NEW p \in Proc, RevokeLogout(p) PROVE IssuedInv'
  BY <1>19, TokenFields DEF RevokeLogout, Goto, EndGrant
<1>20. ASSUME NEW p \in Proc, DeleteLogout(p) PROVE IssuedInv'
  <2>1. Forgets(p)
    BY <1>20, DoneForgets DEF DeleteLogout
  <2>2. QED
    BY <1>20, <2>1, TokenFields DEF Forgets, DeleteLogout, AfterDelete
<1>21. ASSUME NEW p \in Proc, Crash(p) PROVE IssuedInv'
  <2>1. Forgets(p)
    BY <1>21, DoneForgets DEF Crash
  <2>2. QED
    BY <1>21, <2>1, TokenFields DEF Forgets, Crash
<1>22. ASSUME NEW g \in Grant, GrantEnds(g) PROVE IssuedInv'
  BY <1>22, TokenFields DEF GrantEnds, EndGrant, local
<1>23. ASSUME NEW g \in Grant, WindowCloses(g) PROVE IssuedInv'
  BY <1>23, TokenFields DEF WindowCloses, local
<1>24. CASE UNCHANGED vars
  BY <1>24 DEF vars, local
<1>25. QED
  BY Effects, <1>1, <1>2, <1>3, <1>4, <1>5, <1>6, <1>7, <1>8, <1>9, <1>10,
      <1>11, <1>12, <1>13, <1>14, <1>15, <1>16, <1>17, <1>18, <1>19, <1>20,
      <1>21, <1>22, <1>23, <1>24 DEF ProcessEffect, IInv

(* What login may replace: a stored login that is still active there had   *)
(* lost a rotation before.                                                 *)
LEMMA LapsedLogin ==
    ASSUME TypeInv, LockInv, RecordUsable, lock = None, slot \in Token,
           MayLapse(slot), status[slot.grant] = "active"
    PROVE  slot.grant \in lost
BY AuthAssumption
    DEF MayLapse, Consumed, RecordUsable, LockInv, LockedPC, Refreshing

(* A grant the server has just created shares no place with another one. *)
LEMMA AuthorizePlaces ==
    ASSUME PlaceInv, LocalType, SharedType, HeldTyped,
           NEW p \in Proc, NEW g \in Grant, Authorizes(p, g)
    PROVE  PlaceInv'
<1> DEFINE Arrives == /\ pc'[p] = "saveLogin" /\ held'[p] = [grant |-> g, gen |-> 0]
                      /\ previous'[p] = previous[p]
<1>1. /\ slot' = slot /\ gen' = gen /\ lost' = lost
      /\ gen[g] = 0 /\ g \notin GrantOf(slot)
      /\ \A q \in Proc : ~Holds(q, g) /\ ~Restores(q, g)
      /\ \A h \in Grant \ {g} : status'[h] = status[h]
  BY DEF Authorizes, SharedType
<1>2. \A q \in Proc : q # p => /\ pc'[q] = pc[q] /\ held'[q] = held[q]
                               /\ previous'[q] = previous[q]
  BY DEF Authorizes, Others
<1>3. Arrives \/ Forgets(p)
  BY DEF Authorizes
<1>4. previous'[p] \in {None, previous[p]}
  BY <1>3 DEF Forgets
<1>5. \A q \in Proc : previous'[q] \in Token =>
          /\ previous'[q] = previous[q]
          /\ previous[q].grant \in Grant \ {g}
  BY <1>1, <1>2, <1>4, TokenFields, AuthAssumption DEF Restores
<1>6. \A q \in Proc : \A h : previous'[q] \in Token /\ previous'[q].grant = h
          => Restores(q, h) /\ h # g
  BY <1>5 DEF Restores
<1>7. \A q \in Proc : pc'[q] \in LoginPC => IF q = p THEN Arrives ELSE pc[q] \in LoginPC
  BY <1>2, <1>3 DEF Forgets, LoginPC, Idle
<1>8. \A q \in Proc \ {p} : pc[q] \in LoginPC => held[q].grant # g
  BY <1>1 DEF Holds, HeldTyped
<1>9. \A q \in Proc : pc'[q] = "saveLogin" =>
          /\ held'[q].gen = gen'[held'[q].grant]
          /\ held'[q].grant \notin GrantOf(slot')
          /\ \A r \in Proc : ~(previous'[r] \in Token /\ previous'[r].grant = held'[q].grant)
  <2> TAKE q \in Proc
  <2> HAVE pc'[q] = "saveLogin"
  <2>1. CASE q = p
    BY <2>1, <1>1, <1>6, <1>7 DEF LoginPC
  <2>2. CASE q # p
    <3>1. /\ held[q].gen = gen[held[q].grant]
          /\ held[q].grant \notin GrantOf(slot)
          /\ \A r \in Proc : ~Restores(r, held[q].grant)
      BY <2>2, <1>2 DEF PlaceInv
    <3>2. QED BY <2>2, <3>1, <1>1, <1>2, <1>6
  <2>3. QED BY <2>1, <2>2
<1>10. \A q, r \in Proc : q # r /\ pc'[q] \in LoginPC /\ pc'[r] \in LoginPC
          => held'[q].grant # held'[r].grant
  <2> SUFFICES ASSUME NEW q \in Proc, NEW r \in Proc, q # r,
                      pc'[q] \in LoginPC, pc'[r] \in LoginPC
               PROVE  held'[q].grant # held'[r].grant
    OBVIOUS
  <2>1. CASE q # p /\ r # p
    BY <2>1, <1>2 DEF PlaceInv
  <2>2. CASE q = p
    BY <2>2, <1>2, <1>7, <1>8
  <2>3. CASE r = p
    BY <2>3, <1>2, <1>7, <1>8
  <2>4. QED BY <2>1, <2>2, <2>3
<1>11. \A q \in Proc : previous'[q] \in Token =>
          /\ previous'[q].grant \notin GrantOf(slot')
          /\ \A r \in Proc \ {q} : ~(previous'[r] \in Token /\ previous'[r].grant = previous'[q].grant)
          /\ status'[previous'[q].grant] = "active" => previous'[q].grant \in lost'
  <2> TAKE q \in Proc
  <2> HAVE previous'[q] \in Token
  <2>1. /\ previous[q].grant \notin GrantOf(slot)
        /\ \A r \in Proc \ {q} : ~Restores(r, previous[q].grant)
        /\ status[previous[q].grant] = "active" => previous[q].grant \in lost
    BY <1>5 DEF PlaceInv
  <2>2. QED BY <2>1, <1>1, <1>5, <1>6
<1>12. GrantOf(slot)' = GrantOf(slot')
  BY DEF GrantOf
<1>13. QED BY <1>9, <1>10, <1>11, <1>12 DEF PlaceInv, Restores

(* Installing a login moves its grant into the record and the one it        *)
(* replaces into the hands of the login; both leave their former places.    *)
LEMMA ReplacePlaces ==
    ASSUME PlaceInv, LocalType, SharedType, HeldTyped,
           NEW p \in Proc, NEW before \in Token \cup {None},
           before \in Token =>
               /\ before.grant \in GrantOf(slot)
               /\ status[before.grant] = "active" => before.grant \in lost,
           pc[p] = "saveLogin", ReplaceRecord(p, before),
           UNCHANGED held, UNCHANGED server, UNCHANGED lost
    PROVE  PlaceInv'
<1>1. /\ held' = held /\ gen' = gen /\ status' = status /\ lost' = lost
      /\ \A q \in Proc : q # p => pc'[q] = pc[q] /\ previous'[q] = previous[q]
      /\ pc'[p] \in {"saveConfig", "revokeIssued"}
  BY DEF ReplaceRecord, Goto, server, LocalType
<1>2. held[p] \in Token /\ None \notin Token
  BY AuthAssumption DEF HeldTyped, LoginPC
<1>3. \/ previous'[p] = before /\ GrantOf(slot') = {held[p].grant}
      \/ previous'[p] = previous[p] /\ GrantOf(slot') \subseteq GrantOf(slot) \cup {held[p].grant}
  BY <1>2 DEF ReplaceRecord, AfterFailedReplace, GrantOf, LocalType
<1>4. GrantOf(slot') \subseteq GrantOf(slot) \cup {held[p].grant}
  BY <1>3
<1>5. /\ held[p].grant \notin GrantOf(slot)
      /\ \A q \in Proc : ~(previous[q] \in Token /\ previous[q].grant = held[p].grant)
  BY DEF PlaceInv, Restores
<1>6. \A q \in Proc : pc'[q] = "saveLogin" =>
          /\ held'[q].gen = gen'[held'[q].grant]
          /\ held'[q].grant \notin GrantOf(slot')
          /\ \A r \in Proc : ~(previous'[r] \in Token /\ previous'[r].grant = held'[q].grant)
  <2> SUFFICES ASSUME NEW q \in Proc, q # p, pc[q] = "saveLogin"
               PROVE  /\ held[q].gen = gen[held[q].grant]
                      /\ held[q].grant \notin GrantOf(slot')
                      /\ \A r \in Proc : ~(previous'[r] \in Token /\ previous'[r].grant = held[q].grant)
    BY <1>1
  <2>1. /\ held[q].gen = gen[held[q].grant]
        /\ held[q].grant \notin GrantOf(slot)
        /\ \A r \in Proc : ~(previous[r] \in Token /\ previous[r].grant = held[q].grant)
        /\ held[q].grant # held[p].grant
    BY DEF PlaceInv, Restores, LoginPC
  <2>2. QED BY <2>1, <1>1, <1>3, <1>4
<1>7. \A q, r \in Proc : q # r /\ pc'[q] \in LoginPC /\ pc'[r] \in LoginPC
          => held'[q].grant # held'[r].grant
  BY <1>1 DEF PlaceInv, LoginPC
<1>8. \A q \in Proc : previous'[q] \in Token =>
          /\ previous'[q].grant \notin GrantOf(slot')
          /\ \A r \in Proc \ {q} : ~(previous'[r] \in Token /\ previous'[r].grant = previous'[q].grant)
          /\ status'[previous'[q].grant] = "active" => previous'[q].grant \in lost'
  <2> TAKE q \in Proc
  <2> HAVE previous'[q] \in Token
  <2>1. \A r \in Proc : previous[r] \in Token =>
          /\ previous[r].grant \notin GrantOf(slot)
          /\ previous[r].grant # held[p].grant
          /\ \A s \in Proc \ {r} : ~(previous[s] \in Token /\ previous[s].grant = previous[r].grant)
          /\ status[previous[r].grant] = "active" => previous[r].grant \in lost
    BY <1>5 DEF PlaceInv, Restores
  <2>2. CASE previous'[p] = previous[p]
    <3>1. \A r \in Proc : previous'[r] = previous[r]
      BY <2>2, <1>1
    <3>2. QED BY <3>1, <2>1, <1>1, <1>4
  <2>3. CASE previous'[p] = before /\ GrantOf(slot') = {held[p].grant}
    <3>1. CASE q = p
      BY <3>1, <2>1, <2>3, <1>1, <1>5
    <3>2. CASE q # p
      BY <3>2, <2>1, <2>3, <1>1, <1>4
    <3>3. QED BY <3>1, <3>2
  <2>4. QED BY <2>2, <2>3, <1>3
<1>9. GrantOf(slot)' = GrantOf(slot')
  BY DEF GrantOf
<1>10. QED BY <1>6, <1>7, <1>8, <1>9 DEF PlaceInv, Restores

(* A step that brings no grant to another place: the record keeps its grant *)
(* or is emptied, and so does what the process holds.                       *)
Stays(p) ==
    /\ GrantOf(slot') \subseteq GrantOf(slot)
    /\ Others(p)
    /\ pc'[p] # "saveLogin"
    /\ pc'[p] \in LoginPC => pc[p] \in LoginPC /\ held'[p] = held[p]
    /\ previous'[p] \in {None, previous[p]}
    /\ gen' = gen
    /\ \A g \in Grant : status'[g] = "active" => status[g] = "active"
    /\ lost \subseteq lost'

LEMMA StayPlaces ==
    ASSUME PlaceInv, NEW p \in Proc, Stays(p)
    PROVE  PlaceInv'
<1>1. /\ \A q \in Proc : q # p => /\ pc'[q] = pc[q] /\ held'[q] = held[q]
                                  /\ previous'[q] = previous[q]
      /\ \A q \in Proc : pc'[q] \in LoginPC => pc[q] \in LoginPC /\ held'[q] = held[q]
      /\ \A q \in Proc : previous'[q] \in Token => previous'[q] = previous[q]
  BY AuthAssumption DEF Stays, Others
<1>2. \A q \in Proc : pc'[q] = "saveLogin" => q # p
  BY DEF Stays
<1>3. GrantOf(slot)' = GrantOf(slot') /\ GrantOf(slot') \subseteq GrantOf(slot)
  BY DEF Stays, GrantOf
<1>4. \A q \in Proc : pc'[q] = "saveLogin" =>
          /\ held'[q].gen = gen'[held'[q].grant]
          /\ held'[q].grant \notin GrantOf(slot')
          /\ \A r \in Proc : ~(previous'[r] \in Token /\ previous'[r].grant = held'[q].grant)
  BY <1>1, <1>2, <1>3 DEF PlaceInv, Restores, Stays
<1>5. \A q, r \in Proc : q # r /\ pc'[q] \in LoginPC /\ pc'[r] \in LoginPC
          => held'[q].grant # held'[r].grant
  BY <1>1 DEF PlaceInv
<1>6. \A q \in Proc : previous'[q] \in Token =>
          /\ previous'[q].grant \notin GrantOf(slot')
          /\ \A r \in Proc \ {q} : ~(previous'[r] \in Token /\ previous'[r].grant = previous'[q].grant)
          /\ status'[previous'[q].grant] = "active" => previous'[q].grant \in lost'
  BY <1>1, <1>3, TokenFields DEF PlaceInv, Restores, Stays
<1>7. QED BY <1>3, <1>4, <1>5, <1>6 DEF PlaceInv, Restores

(* The steps that stay, by the effect they have. *)
LEMMA Stayers ==
    ASSUME IInv, NEW p \in Proc,
           \/ Quiet(p) \/ TakesLock(p) \/ SendRefused(p) \/ SaveFails(p)
           \/ RefreshExpired(p) \/ Abandons(p) \/ SaveConfig(p)
           \/ RevokeIssued(p) \/ StartLogout(p) \/ CleanLogout(p)
           \/ RevokeLogout(p) \/ DeleteLogout(p) \/ Crash(p)
    PROVE  Stays(p)
<1> USE DEF LocalType, SharedType, LockedPC, Refreshing, LoginPC, Idle, server, history
<1>0. SharedType /\ LocalType
  BY DEF IInv, TypeInv, TypeOK
<1> USE <1>0
<1>1. CASE Quiet(p)
  BY <1>1 DEF Quiet, Shared, Stays
<1>2. CASE TakesLock(p)
  BY <1>2 DEF TakesLock, Stays
<1>3. CASE SendRefused(p)
  BY <1>3 DEF SendRefused, Refuses, Reuse, Goto, Stays, Others
<1>4. CASE SaveFails(p)
  BY <1>4 DEF SaveFails, Forgets, Stays
<1>5. CASE RefreshExpired(p)
  <2>1. Forgets(p)
    BY <1>5, FailForgets DEF RefreshExpired
  <2>2. QED
    BY <1>5, <2>1, AuthAssumption
       DEF RefreshExpired, AfterDelete, GrantOf, Forgets, Stays
<1>6. CASE Abandons(p)
  BY <1>6 DEF Abandons, Shared, Stays
<1>7. CASE SaveConfig(p)
  BY <1>7, DoneForgets DEF SaveConfig, Goto, Forgets, Others, Stays
<1>8. CASE RevokeIssued(p)
  <2>1. Forgets(p)
    BY <1>8, DoneForgets DEF RevokeIssued
  <2>2. QED
    BY <1>8, <2>1 DEF RevokeIssued, EndGrant, Forgets, Stays
<1>9. CASE StartLogout(p)
  BY <1>9 DEF StartLogout, Keep, Goto, Others, Stays
<1>10. CASE CleanLogout(p)
  BY <1>10, AuthAssumption DEF CleanLogout, AfterDelete, GrantOf, local, Others, Stays
<1>11. CASE RevokeLogout(p)
  BY <1>11 DEF RevokeLogout, EndGrant, Goto, Others, Stays
<1>12. CASE DeleteLogout(p)
  <2>1. Forgets(p)
    BY <1>12, DoneForgets DEF DeleteLogout
  <2>2. QED
    BY <1>12, <2>1, AuthAssumption DEF DeleteLogout, AfterDelete, GrantOf, Forgets, Stays
<1>13. CASE Crash(p)
  <2>1. Forgets(p)
    BY <1>13, DoneForgets DEF Crash
  <2>2. QED
    BY <1>13, <2>1 DEF Crash, Forgets, Stays
<1>14. QED
  BY <1>1, <1>2, <1>3, <1>4, <1>5, <1>6, <1>7, <1>8, <1>9, <1>10, <1>11,
     <1>12, <1>13

(* SaveLogin takes what it replaces out of the record. *)
LEMMA SavePlaces ==
    ASSUME IInv, NEW p \in Proc, SaveLogin(p) \/ SaveLoginUnreadable(p)
    PROVE  PlaceInv'
<1>0. SharedType /\ LocalType /\ HeldTyped /\ PlaceInv /\ TypeInv /\ LockInv /\ RecordUsable
  BY DEF IInv, TypeInv, TypeOK
<1>1. CASE SaveLogin(p)
  <2> DEFINE before == IF slot \in Token THEN slot ELSE None
  <2>1. slot \in Token /\ status[slot.grant] = "active" => slot.grant \in lost
    BY <1>0, <1>1, LapsedLogin DEF SaveLogin
  <2>2. /\ before \in Token \cup {None}
        /\ before \in Token => /\ before.grant \in GrantOf(slot)
                               /\ status[before.grant] = "active" => before.grant \in lost
    BY <2>1, AuthAssumption DEF GrantOf
  <2>3. /\ pc[p] = "saveLogin" /\ ReplaceRecord(p, before)
        /\ UNCHANGED held /\ UNCHANGED server /\ UNCHANGED lost
    BY <1>1 DEF SaveLogin, history
  <2> HIDE DEF before
  <2>4. QED
    BY <1>0, <2>2, <2>3, ReplacePlaces
<1>2. CASE SaveLoginUnreadable(p)
  <2>1. /\ pc[p] = "saveLogin" /\ ReplaceRecord(p, None)
        /\ UNCHANGED held /\ UNCHANGED server /\ UNCHANGED lost
    BY <1>2 DEF SaveLoginUnreadable
  <2>2. None \in Token \cup {None} /\ None \notin Token
    BY AuthAssumption
  <2>3. QED
    BY <1>0, <2>1, <2>2, ReplacePlaces
<1>3. QED BY <1>1, <1>2

(* A refresh stores the newer pair where the older one was. *)
LEMMA StorePlaces ==
    ASSUME HeldInv, PlaceInv, LocalType, HeldTyped, NEW p \in Proc, Saves(p)
    PROVE  PlaceInv'
<1>1. /\ slot \in Token /\ slot' \in Token
      /\ slot.grant = held[p].grant /\ slot'.grant = held[p].grant
  BY DEF Saves, HeldInv, HeldTyped, LockedPC, Refreshing
<1>2. GrantOf(slot)' = {held[p].grant} /\ GrantOf(slot) = {held[p].grant}
  BY <1>1 DEF GrantOf
<1>3. \A q \in Proc : /\ held'[q] = held[q] /\ previous'[q] = previous[q]
                      /\ pc'[q] = IF q = p THEN "account" ELSE pc[q]
  BY DEF Saves, Others
<1>4. gen' = gen /\ status' = status
  BY DEF Saves
<1>5. \A q \in Proc : previous[q] \in Token /\ previous[q].grant \in lost
                          /\ previous[q].grant \notin GrantOf(slot)
                        => previous[q].grant \in lost'
  BY <1>2 DEF Saves
<1>6. QED
  BY <1>2, <1>3, <1>4, <1>5 DEF PlaceInv, Restores, LoginPC

(* A refresh that fails forgets the pair it was sending. *)
LEMMA FailPlaces ==
    ASSUME HeldInv, PlaceInv, LocalType, SharedType, HeldTyped,
           NEW p \in Proc, SendFails(p)
    PROVE  PlaceInv'
<1>1. Forgets(p) /\ slot' = slot
  BY FailForgets DEF SendFails
<1>2. held[p] \in Token /\ slot = held[p] /\ held[p].grant \in Grant
  BY TokenFields DEF SendFails, HeldInv, HeldTyped, LockedPC, Refreshing
<1>3. GrantOf(slot) = {held[p].grant} /\ GrantOf(slot)' = {held[p].grant}
  BY <1>1, <1>2 DEF GrantOf
<1>4. /\ \A g \in Grant \ {held[p].grant} : gen'[g] = gen[g]
      /\ \A g \in Grant : status'[g] = "active" => status[g] = "active"
  <2>1. Unanswered(held[p])
    BY DEF SendFails
  <2>2. QED
    BY <1>2, <2>1 DEF Unanswered, Rotates, ServesAgain, Refuses, Reuse, server,
        SharedType
<1>5. lost \subseteq lost'
  BY DEF SendFails, MarkLost
<1>6. /\ \A q \in Proc : q # p => /\ pc'[q] = pc[q] /\ held'[q] = held[q]
                                  /\ previous'[q] = previous[q]
      /\ pc'[p] \notin LoginPC
      /\ previous'[p] \in Token => previous'[p] = previous[p]
  BY <1>1, AuthAssumption DEF Forgets, Others, LoginPC, Idle
<1>7. \A q \in Proc : pc[q] = "saveLogin" =>
          held[q].grant \in Grant /\ held[q].grant # held[p].grant
  BY <1>3, TokenFields DEF PlaceInv, HeldTyped, LoginPC
<1>8. \A q \in Proc : pc'[q] = "saveLogin" =>
          /\ held'[q].gen = gen'[held'[q].grant]
          /\ held'[q].grant \notin GrantOf(slot)'
          /\ \A r \in Proc : ~(previous'[r] \in Token /\ previous'[r].grant = held'[q].grant)
  BY <1>3, <1>4, <1>6, <1>7 DEF PlaceInv, Restores, LoginPC
<1>9. \A q, r \in Proc : q # r /\ pc'[q] \in LoginPC /\ pc'[r] \in LoginPC
          => held'[q].grant # held'[r].grant
  BY <1>6 DEF PlaceInv
<1>10. \A q \in Proc : previous'[q] \in Token =>
          /\ previous'[q].grant \notin GrantOf(slot)'
          /\ \A r \in Proc \ {q} : ~(previous'[r] \in Token /\ previous'[r].grant = previous'[q].grant)
          /\ status'[previous'[q].grant] = "active" => previous'[q].grant \in lost'
  BY <1>3, <1>4, <1>5, <1>6, TokenFields DEF PlaceInv, Restores
<1>11. QED
  BY <1>8, <1>9, <1>10 DEF PlaceInv, Restores

(* The refresh changes a grant in its place; a rollback puts one back. *)
LEMMA MovePlaces ==
    ASSUME IInv, NEW p \in Proc,
           \/ SendAnswered(p) \/ SendRetried(p) \/ SendFails(p) \/ Saves(p)
           \/ RestoreLogin(p)
    PROVE  PlaceInv'
<1>0. SharedType /\ LocalType /\ HeldTyped
  BY DEF IInv, TypeInv, TypeOK
<1> USE AuthAssumption, <1>0
<1> USE DEF IInv, HeldInv, PlaceInv, Restores, GrantOf, Idle, LockedPC,
            Refreshing, LoginPC, Others, LocalType, SharedType, HeldTyped,
            server, history
<1>1. CASE SendAnswered(p)
  BY <1>1, TokenFields DEF SendAnswered, Rotates, ServesAgain, Keep, Goto
<1>2. CASE SendRetried(p)
  BY <1>2, TokenFields DEF SendRetried, refreshRetryLimit, MayRetry, Unanswered,
      Rotates, ServesAgain, Refuses, Reuse
<1>3. CASE SendFails(p)
  BY <1>3, FailPlaces
<1>4. CASE Saves(p)
  BY <1>4, StorePlaces
<1>5. CASE RestoreLogin(p)
  BY <1>5, TokenFields DEF RestoreLogin, StillWritten, AfterRestore, AfterDelete, Goto
<1>6. QED BY <1>1, <1>2, <1>3, <1>4, <1>5

(* The server ends grants and forgets what it would have served again. *)
LEMMA ServerPlaces ==
    ASSUME IInv,
           \/ \E g \in Grant : GrantEnds(g) \/ WindowCloses(g)
           \/ UNCHANGED vars
    PROVE  PlaceInv'
<1>1. /\ PlaceInv
      /\ slot' = slot /\ pc' = pc /\ held' = held /\ previous' = previous
      /\ gen' = gen /\ lost' = lost
  BY DEF IInv, GrantEnds, WindowCloses, EndGrant, vars, local, server, history
<1>2. \A g \in Grant : status'[g] = "active" => status[g] = "active"
  BY DEF IInv, TypeInv, TypeOK, SharedType, GrantEnds, WindowCloses, EndGrant,
         vars, server
<1>3. QED
  BY <1>1, <1>2, TokenFields DEF PlaceInv, Restores, GrantOf

(* A grant stays in one place. *)
LEMMA PlaceStep == IInv /\ [Next]_vars => PlaceInv'
<1> SUFFICES ASSUME IInv, [Next]_vars PROVE PlaceInv'
    OBVIOUS
<1>0. SharedType /\ LocalType /\ HeldTyped /\ PlaceInv
  BY DEF IInv, TypeInv, TypeOK
<1>1. ASSUME NEW p \in Proc, Stays(p) PROVE PlaceInv'
  BY <1>0, <1>1, StayPlaces
<1>2. ASSUME NEW p \in Proc, SaveLogin(p) \/ SaveLoginUnreadable(p) PROVE PlaceInv'
  BY <1>2, SavePlaces
<1>3. ASSUME NEW p \in Proc, NEW g \in Grant, Authorizes(p, g) PROVE PlaceInv'
  BY <1>0, <1>3, AuthorizePlaces
<1>4. ASSUME NEW p \in Proc, ProcessEffect(p) PROVE PlaceInv'
  BY <1>1, <1>2, <1>3, <1>4, Stayers, MovePlaces DEF ProcessEffect
<1>5. IssuedInv
  BY DEF IInv
<1>6. QED
  BY <1>0, <1>4, <1>5, Effects, ServerPlaces

(* A login that was saved is not forgotten. *)
LEMMA KeptStep == IInv /\ [Next]_vars => KeptInv'
<1> SUFFICES ASSUME IInv, [Next]_vars PROVE KeptInv'
    OBVIOUS
<1>0. SharedType /\ LocalType /\ HeldTyped
  BY DEF IInv, TypeInv, TypeOK
<1> USE AuthAssumption, <1>0
<1> USE DEF IInv, LockInv, HeldInv, PlaceInv, KeptInv, Holds, GrantOf, Idle,
            LockedPC, Refreshing, LoginPC, Others, LocalType, SharedType,
            HeldTyped, server, history
<1> USE DEF TakeLock, ReleaseLock, Reload, StillWritten, MayRetry, SetAdrift
<1>1. ASSUME NEW p \in Proc, Quiet(p) PROVE KeptInv'
  BY <1>1, TokenFields DEF Quiet, Shared
<1>2. ASSUME NEW p \in Proc, TakesLock(p) PROVE KeptInv'
  BY <1>2, TokenFields DEF TakesLock
<1>3. ASSUME NEW p \in Proc, SendAnswered(p) PROVE KeptInv'
  BY <1>3, TokenFields DEF SendAnswered, Rotates, ServesAgain, Keep, Goto
<1>4. ASSUME NEW p \in Proc, SendRefused(p) PROVE KeptInv'
  BY <1>4, TokenFields DEF SendRefused, Refuses, Goto, Reuse
<1>5. ASSUME NEW p \in Proc, SendRetried(p) PROVE KeptInv'
  BY <1>5, TokenFields DEF SendRetried, refreshRetryLimit, Unanswered,
      Rotates, ServesAgain, Refuses, Reuse
<1>6. ASSUME NEW p \in Proc, SendFails(p) PROVE KeptInv'
  <2>1. Forgets(p)
    BY <1>6, FailForgets DEF SendFails
  <2>2. QED
    BY <1>6, <2>1, TokenFields DEF Forgets, SendFails, Unanswered, MarkLost,
        Rotates, ServesAgain, Refuses, Reuse
<1>7. ASSUME NEW p \in Proc, Saves(p) PROVE KeptInv'
  BY <1>7, TokenFields DEF Saves
<1>8. ASSUME NEW p \in Proc, SaveFails(p) PROVE KeptInv'
  BY <1>8, TokenFields DEF SaveFails, Forgets
<1>9. ASSUME NEW p \in Proc, RefreshExpired(p) PROVE KeptInv'
  <2>1. Forgets(p)
    BY <1>9, FailForgets DEF RefreshExpired
  <2>2. QED
    BY <1>9, <2>1, TokenFields DEF Forgets, RefreshExpired, AfterDelete
<1>10. ASSUME NEW p \in Proc, NEW g \in Grant, Authorizes(p, g) PROVE KeptInv'
  BY <1>10, TokenFields DEF Authorizes, Forgets
<1>11. ASSUME NEW p \in Proc, SaveLogin(p) PROVE KeptInv'
  <2>1. slot \in Token /\ status[slot.grant] = "active" => slot.grant \in lost
    BY <1>11, LapsedLogin DEF SaveLogin
  <2>2. QED
    BY <1>11, <2>1, TokenFields DEF SaveLogin, ReplaceRecord, Goto,
        AfterFailedReplace
<1>12. ASSUME NEW p \in Proc, SaveLoginUnreadable(p) PROVE KeptInv'
  BY <1>12, TokenFields DEF SaveLoginUnreadable, ReplaceRecord, Goto,
      AfterFailedReplace
<1>13. ASSUME NEW p \in Proc, Abandons(p) PROVE KeptInv'
  BY <1>13, TokenFields DEF Abandons, Shared
<1>14. ASSUME NEW p \in Proc, SaveConfig(p) PROVE KeptInv'
  BY <1>14, DoneForgets, TokenFields DEF SaveConfig, Goto, Forgets
<1>15. ASSUME NEW p \in Proc, RestoreLogin(p) PROVE KeptInv'
  BY <1>15, TokenFields DEF RestoreLogin, AfterRestore, AfterDelete, Goto
<1>16. ASSUME NEW p \in Proc, RevokeIssued(p) PROVE KeptInv'
  <2>1. Forgets(p)
    BY <1>16, DoneForgets DEF RevokeIssued
  <2>2. QED
    BY <1>16, <2>1, TokenFields DEF Forgets, RevokeIssued, EndGrant
<1>17. ASSUME NEW p \in Proc, StartLogout(p) PROVE KeptInv'
  BY <1>17, TokenFields DEF StartLogout, Keep, Goto
<1>18. ASSUME NEW p \in Proc, CleanLogout(p) PROVE KeptInv'
  BY <1>18, TokenFields DEF CleanLogout, AfterDelete, local
<1>19. ASSUME NEW p \in Proc, RevokeLogout(p) PROVE KeptInv'
  BY <1>19, TokenFields DEF RevokeLogout, Goto, EndGrant
<1>20. ASSUME NEW p \in Proc, DeleteLogout(p) PROVE KeptInv'
  <2>1. Forgets(p)
    BY <1>20, DoneForgets DEF DeleteLogout
  <2>2. QED
    BY <1>20, <2>1, TokenFields DEF Forgets, DeleteLogout, AfterDelete
<1>21. ASSUME NEW p \in Proc, Crash(p) PROVE KeptInv'
  <2>1. Forgets(p)
    BY <1>21, DoneForgets DEF Crash
  <2>2. QED
    BY <1>21, <2>1, TokenFields DEF Forgets, Crash
<1>22. ASSUME NEW g \in Grant, GrantEnds(g) PROVE KeptInv'
  BY <1>22, TokenFields DEF GrantEnds, EndGrant, local
<1>23. ASSUME NEW g \in Grant, WindowCloses(g) PROVE KeptInv'
  BY <1>23, TokenFields DEF WindowCloses, local
<1>24. CASE UNCHANGED vars
  BY <1>24 DEF vars, local
<1>25. QED
  BY Effects, <1>1, <1>2, <1>3, <1>4, <1>5, <1>6, <1>7, <1>8, <1>9, <1>10,
      <1>11, <1>12, <1>13, <1>14, <1>15, <1>16, <1>17, <1>18, <1>19, <1>20,
      <1>21, <1>22, <1>23, <1>24 DEF ProcessEffect, IInv

(* The stored pair stays the newest. *)
LEMMA RecordStep == IInv /\ [Next]_vars => RecordUsable'
<1> SUFFICES ASSUME IInv, [Next]_vars PROVE RecordUsable'
    OBVIOUS
<1>0. SharedType /\ LocalType /\ HeldTyped
  BY DEF IInv, TypeInv, TypeOK
<1> USE AuthAssumption, <1>0
<1> USE DEF IInv, LockInv, HeldInv, PlaceInv, RecordUsable, Superseded, Idle,
            LockedPC, Refreshing, LoginPC, Others, LocalType, SharedType,
            HeldTyped, server, history
<1> USE DEF TakeLock, ReleaseLock, Reload, StillWritten, MayRetry, SetAdrift
<1>1. ASSUME NEW p \in Proc, Quiet(p) PROVE RecordUsable'
  BY <1>1, TokenFields DEF Quiet, Shared
<1>2. ASSUME NEW p \in Proc, TakesLock(p) PROVE RecordUsable'
  BY <1>2, TokenFields DEF TakesLock
<1>3. ASSUME NEW p \in Proc, SendAnswered(p) PROVE RecordUsable'
  BY <1>3, TokenFields DEF SendAnswered, Rotates, ServesAgain, Keep, Goto,
      Recoverable
<1>4. ASSUME NEW p \in Proc, SendRefused(p) PROVE RecordUsable'
  BY <1>4, TokenFields DEF SendRefused, Refuses, Goto, Reuse, Consumed,
      Recoverable
<1>5. ASSUME NEW p \in Proc, SendRetried(p) PROVE RecordUsable'
  BY <1>5, TokenFields DEF SendRetried, refreshRetryLimit, Unanswered,
      Rotates, ServesAgain, Refuses, Recoverable, Reuse, Consumed
<1>6. ASSUME NEW p \in Proc, SendFails(p) PROVE RecordUsable'
  <2>1. Forgets(p)
    BY <1>6, FailForgets DEF SendFails
  <2>2. QED
    BY <1>6, <2>1, TokenFields DEF Forgets, SendFails, Unanswered, MarkLost,
        Rotates, ServesAgain, Refuses, Recoverable, Reuse, Consumed
<1>7. ASSUME NEW p \in Proc, Saves(p) PROVE RecordUsable'
  BY <1>7, TokenFields DEF Saves
<1>8. ASSUME NEW p \in Proc, SaveFails(p) PROVE RecordUsable'
  BY <1>8, TokenFields DEF SaveFails, Forgets
<1>9. ASSUME NEW p \in Proc, RefreshExpired(p) PROVE RecordUsable'
  <2>1. Forgets(p)
    BY <1>9, FailForgets DEF RefreshExpired
  <2>2. QED
    BY <1>9, <2>1, TokenFields DEF Forgets, RefreshExpired, AfterDelete
<1>10. ASSUME NEW p \in Proc, NEW g \in Grant, Authorizes(p, g) PROVE RecordUsable'
  BY <1>10, TokenFields DEF Authorizes, Forgets
<1>11. ASSUME NEW p \in Proc, SaveLogin(p) PROVE RecordUsable'
  BY <1>11, TokenFields DEF SaveLogin, ReplaceRecord, Goto, AfterFailedReplace
<1>12. ASSUME NEW p \in Proc, SaveLoginUnreadable(p) PROVE RecordUsable'
  BY <1>12, TokenFields DEF SaveLoginUnreadable, ReplaceRecord, GrantOf, Goto,
      AfterFailedReplace
<1>13. ASSUME NEW p \in Proc, Abandons(p) PROVE RecordUsable'
  BY <1>13, TokenFields DEF Abandons, Shared
<1>14. ASSUME NEW p \in Proc, SaveConfig(p) PROVE RecordUsable'
  BY <1>14, DoneForgets, TokenFields DEF SaveConfig, Goto, Forgets
<1>15. ASSUME NEW p \in Proc, RestoreLogin(p) PROVE RecordUsable'
  BY <1>15, TokenFields DEF RestoreLogin, AfterRestore, AfterDelete, Goto
<1>16. ASSUME NEW p \in Proc, RevokeIssued(p) PROVE RecordUsable'
  <2>1. Forgets(p)
    BY <1>16, DoneForgets DEF RevokeIssued
  <2>2. QED
    BY <1>16, <2>1, TokenFields DEF Forgets, RevokeIssued, EndGrant
<1>17. ASSUME NEW p \in Proc, StartLogout(p) PROVE RecordUsable'
  BY <1>17, TokenFields DEF StartLogout, Keep, Goto
<1>18. ASSUME NEW p \in Proc, CleanLogout(p) PROVE RecordUsable'
  BY <1>18, TokenFields DEF CleanLogout, AfterDelete, local
<1>19. ASSUME NEW p \in Proc, RevokeLogout(p) PROVE RecordUsable'
  BY <1>19, TokenFields DEF RevokeLogout, Goto, EndGrant
<1>20. ASSUME NEW p \in Proc, DeleteLogout(p) PROVE RecordUsable'
  <2>1. Forgets(p)
    BY <1>20, DoneForgets DEF DeleteLogout
  <2>2. QED
    BY <1>20, <2>1, TokenFields DEF Forgets, DeleteLogout, AfterDelete
<1>21. ASSUME NEW p \in Proc, Crash(p) PROVE RecordUsable'
  <2>1. Forgets(p)
    BY <1>21, DoneForgets DEF Crash
  <2>2. QED
    BY <1>21, <2>1, TokenFields DEF Forgets, Crash, GrantOf
<1>22. ASSUME NEW g \in Grant, GrantEnds(g) PROVE RecordUsable'
  BY <1>22, TokenFields DEF GrantEnds, EndGrant, local
<1>23. ASSUME NEW g \in Grant, WindowCloses(g) PROVE RecordUsable'
  BY <1>23, TokenFields DEF WindowCloses, local
<1>24. CASE UNCHANGED vars
  BY <1>24 DEF vars, local
<1>25. QED
  BY Effects, <1>1, <1>2, <1>3, <1>4, <1>5, <1>6, <1>7, <1>8, <1>9, <1>10,
      <1>11, <1>12, <1>13, <1>14, <1>15, <1>16, <1>17, <1>18, <1>19, <1>20,
      <1>21, <1>22, <1>23, <1>24 DEF ProcessEffect, IInv

(* What it means to be in the record or in the hands of a login. *)
LEMMA Places ==
    ASSUME NEW g, NEW p
    PROVE  /\ g \in GrantOf(slot) <=> slot \in Token /\ slot.grant = g
           /\ g \in GrantOf(slot)' <=> slot' \in Token /\ slot'.grant = g
           /\ Carries(p, g) <=>
                pc[p] \in LoginPC /\ held[p] \in Token /\ held[p].grant = g
           /\ Carries(p, g)' <=>
                pc'[p] \in LoginPC /\ held'[p] \in Token /\ held'[p].grant = g
BY DEF GrantOf, Carries

(* A step of p moves no grant in the hands of another login. *)
LEMMA FlightKept ==
    ASSUME NEW p \in Proc, Others(p), NEW g
    PROVE  /\ InFlight(g) => Carries(p, g) \/ InFlight(g)'
           /\ Carries(p, g)' => InFlight(g)'
BY DEF InFlight, Carries, Others

(* The places of a grant NoOrphan names. *)
Placed(g) ==
    g \in GrantOf(slot) \cup lost \/ InFlight(g) \/ adrift[g] # "no"

(* No step forgets an active grant. *)
LEMMA OrphanStep == IInv /\ [Next]_vars => NoOrphan'
<1> SUFFICES ASSUME IInv, [Next]_vars PROVE NoOrphan'
    OBVIOUS
<1>0. SharedType /\ LocalType /\ HeldTyped
  BY DEF IInv, TypeInv, TypeOK
<1> USE AuthAssumption, <1>0
<1> USE DEF IInv, LockInv, HeldInv, KeptInv, Others, Idle,
            LockedPC, Refreshing, LoginPC, LocalType, SharedType, HeldTyped,
            server, history
<1> USE DEF TakeLock, ReleaseLock, Reload, StillWritten, MayRetry, SetAdrift
<1>1. ASSUME NEW p \in Proc, Quiet(p) PROVE NoOrphan'
  <2>1. Others(p)
    BY <1>1, OthersStep DEF ProcessEffect
  <2> SUFFICES ASSUME NEW h \in Grant, status'[h] = "active"
               PROVE  Placed(h)'
    BY DEF NoOrphan, Placed
  <2>2. status[h] = "active" => Placed(h)
    BY DEF NoOrphan, Placed
  <2>3. /\ InFlight(h) => Carries(p, h) \/ InFlight(h)'
        /\ Carries(p, h)' => InFlight(h)'
    BY <2>1, FlightKept
  <2>4. QED
    BY <1>1, <2>1, <2>2, <2>3, TokenFields DEF Placed, GrantOf, Carries, Quiet, Shared
<1>2. ASSUME NEW p \in Proc, TakesLock(p) PROVE NoOrphan'
  <2>1. Others(p)
    BY <1>2, OthersStep DEF ProcessEffect
  <2> SUFFICES ASSUME NEW h \in Grant, status'[h] = "active"
               PROVE  Placed(h)'
    BY DEF NoOrphan, Placed
  <2>2. status[h] = "active" => Placed(h)
    BY DEF NoOrphan, Placed
  <2>3. /\ InFlight(h) => Carries(p, h) \/ InFlight(h)'
        /\ Carries(p, h)' => InFlight(h)'
    BY <2>1, FlightKept
  <2>4. QED
    BY <1>2, <2>1, <2>2, <2>3, TokenFields DEF Placed, GrantOf, Carries, TakesLock
<1>3. ASSUME NEW p \in Proc, SendAnswered(p) PROVE NoOrphan'
  <2>1. Others(p)
    BY <1>3, OthersStep DEF ProcessEffect
  <2> SUFFICES ASSUME NEW h \in Grant, status'[h] = "active"
               PROVE  Placed(h)'
    BY DEF NoOrphan, Placed
  <2>2. status[h] = "active" => Placed(h)
    BY DEF NoOrphan, Placed
  <2>3. /\ InFlight(h) => Carries(p, h) \/ InFlight(h)'
        /\ Carries(p, h)' => InFlight(h)'
    BY <2>1, FlightKept
  <2>4. QED
    BY <1>3, <2>1, <2>2, <2>3, TokenFields DEF Placed, GrantOf, Carries, SendAnswered, Rotates,
        ServesAgain, Keep, Goto
<1>4. ASSUME NEW p \in Proc, SendRefused(p) PROVE NoOrphan'
  <2>1. Others(p)
    BY <1>4, OthersStep DEF ProcessEffect
  <2> SUFFICES ASSUME NEW h \in Grant, status'[h] = "active"
               PROVE  Placed(h)'
    BY DEF NoOrphan, Placed
  <2>2. status[h] = "active" => Placed(h)
    BY DEF NoOrphan, Placed
  <2>3. /\ InFlight(h) => Carries(p, h) \/ InFlight(h)'
        /\ Carries(p, h)' => InFlight(h)'
    BY <2>1, FlightKept
  <2>4. QED
    BY <1>4, <2>1, <2>2, <2>3, TokenFields DEF Placed, GrantOf, Carries, SendRefused, Refuses,
        Goto, Reuse
<1>5. ASSUME NEW p \in Proc, SendRetried(p) PROVE NoOrphan'
  <2>1. Others(p)
    BY <1>5, OthersStep DEF ProcessEffect
  <2> SUFFICES ASSUME NEW h \in Grant, status'[h] = "active"
               PROVE  Placed(h)'
    BY DEF NoOrphan, Placed
  <2>2. status[h] = "active" => Placed(h)
    BY DEF NoOrphan, Placed
  <2>3. /\ InFlight(h) => Carries(p, h) \/ InFlight(h)'
        /\ Carries(p, h)' => InFlight(h)'
    BY <2>1, FlightKept
  <2>4. QED
    BY <1>5, <2>1, <2>2, <2>3, TokenFields DEF Placed, GrantOf, Carries, SendRetried,
        refreshRetryLimit, Unanswered, Rotates, ServesAgain, Refuses, Reuse
<1>6. ASSUME NEW p \in Proc, SendFails(p) PROVE NoOrphan'
  <2>1. Others(p)
    BY <1>6, OthersStep DEF ProcessEffect
  <2> SUFFICES ASSUME NEW h \in Grant, status'[h] = "active"
               PROVE  Placed(h)'
    BY DEF NoOrphan, Placed
  <2>2. status[h] = "active" => Placed(h)
    BY DEF NoOrphan, Placed
  <2>3. /\ InFlight(h) => Carries(p, h) \/ InFlight(h)'
        /\ Carries(p, h)' => InFlight(h)'
    BY <2>1, FlightKept
  <2>4. Forgets(p)
    BY <1>6, FailForgets DEF SendFails
  <2>5. QED
    BY <1>6, <2>1, <2>2, <2>3, TokenFields, <2>4 DEF Placed, GrantOf, Carries, Forgets,
        SendFails, Unanswered, MarkLost, Rotates, ServesAgain, Refuses, Reuse
<1>7. ASSUME NEW p \in Proc, Saves(p) PROVE NoOrphan'
  <2>1. Others(p)
    BY <1>7, OthersStep DEF ProcessEffect
  <2> SUFFICES ASSUME NEW h \in Grant, status'[h] = "active"
               PROVE  Placed(h)'
    BY DEF NoOrphan, Placed
  <2>2. status[h] = "active" => Placed(h)
    BY DEF NoOrphan, Placed
  <2>3. /\ InFlight(h) => Carries(p, h) \/ InFlight(h)'
        /\ Carries(p, h)' => InFlight(h)'
    BY <2>1, FlightKept
  <2>4. QED
    BY <1>7, <2>1, <2>2, <2>3, TokenFields DEF Placed, GrantOf, Carries, Saves
<1>8. ASSUME NEW p \in Proc, SaveFails(p) PROVE NoOrphan'
  <2>1. Others(p)
    BY <1>8, OthersStep DEF ProcessEffect
  <2> SUFFICES ASSUME NEW h \in Grant, status'[h] = "active"
               PROVE  Placed(h)'
    BY DEF NoOrphan, Placed
  <2>2. status[h] = "active" => Placed(h)
    BY DEF NoOrphan, Placed
  <2>3. /\ InFlight(h) => Carries(p, h) \/ InFlight(h)'
        /\ Carries(p, h)' => InFlight(h)'
    BY <2>1, FlightKept
  <2>4. QED
    BY <1>8, <2>1, <2>2, <2>3, TokenFields DEF Placed, GrantOf, Carries, SaveFails, Forgets
<1>9. ASSUME NEW p \in Proc, RefreshExpired(p) PROVE NoOrphan'
  <2>1. Others(p)
    BY <1>9, OthersStep DEF ProcessEffect
  <2> SUFFICES ASSUME NEW h \in Grant, status'[h] = "active"
               PROVE  Placed(h)'
    BY DEF NoOrphan, Placed
  <2>2. status[h] = "active" => Placed(h)
    BY DEF NoOrphan, Placed
  <2>3. /\ InFlight(h) => Carries(p, h) \/ InFlight(h)'
        /\ Carries(p, h)' => InFlight(h)'
    BY <2>1, FlightKept
  <2>4. Forgets(p)
    BY <1>9, FailForgets DEF RefreshExpired
  <2>5. QED
    BY <1>9, <2>1, <2>2, <2>3, TokenFields, <2>4 DEF Placed, GrantOf, Carries, Forgets,
        RefreshExpired, AfterDelete
<1>10. ASSUME NEW p \in Proc, NEW g \in Grant, Authorizes(p, g) PROVE NoOrphan'
  <2>1. Others(p)
    BY <1>10, OthersStep DEF ProcessEffect
  <2> SUFFICES ASSUME NEW h \in Grant, status'[h] = "active"
               PROVE  Placed(h)'
    BY DEF NoOrphan, Placed
  <2>2. status[h] = "active" => Placed(h)
    BY DEF NoOrphan, Placed
  <2>3. /\ InFlight(h) => Carries(p, h) \/ InFlight(h)'
        /\ Carries(p, h)' => InFlight(h)'
    BY <2>1, FlightKept
  <2>4. CASE Forgets(p) /\ SetAdrift({g}, "stranded")
    BY <1>10, <2>2, <2>3, <2>4, Places DEF Placed, Authorizes
  <2>5. CASE /\ pc'[p] = "saveLogin" /\ held'[p] = [grant |-> g, gen |-> 0]
             /\ adrift' = adrift
    <3>1. held'[p] \in Token /\ held'[p].grant = g
      BY <2>5, TokenZero
    <3>2. Carries(p, g)'
      BY <2>5, <3>1, Places
    <3>3. ~Carries(p, h)
      BY <1>10, Places DEF Authorizes
    <3>4. QED
      BY <1>10, <2>2, <2>3, <2>5, <3>2, <3>3, Places DEF Placed, Authorizes
  <2>6. QED BY <1>10, <2>4, <2>5 DEF Authorizes
<1>11. ASSUME NEW p \in Proc, SaveLogin(p) PROVE NoOrphan'
  <2>1. Others(p)
    BY <1>11, OthersStep DEF ProcessEffect
  <2> SUFFICES ASSUME NEW h \in Grant, status'[h] = "active"
               PROVE  Placed(h)'
    BY DEF NoOrphan, Placed
  <2>2. status[h] = "active" => Placed(h)
    BY DEF NoOrphan, Placed
  <2>3. /\ InFlight(h) => Carries(p, h) \/ InFlight(h)'
        /\ Carries(p, h)' => InFlight(h)'
    BY <2>1, FlightKept
  <2>4. slot \in Token /\ status[slot.grant] = "active" => slot.grant \in lost
    BY <1>11, LapsedLogin DEF SaveLogin
  <2>5. QED
    BY <1>11, <2>1, <2>2, <2>3, TokenFields, Places, <2>4 DEF Placed, SaveLogin,
        ReplaceRecord, Goto, AfterFailedReplace
<1>12. ASSUME NEW p \in Proc, SaveLoginUnreadable(p) PROVE NoOrphan'
  <2>1. Others(p)
    BY <1>12, OthersStep DEF ProcessEffect
  <2> SUFFICES ASSUME NEW h \in Grant, status'[h] = "active"
               PROVE  Placed(h)'
    BY DEF NoOrphan, Placed
  <2>2. status[h] = "active" => Placed(h)
    BY DEF NoOrphan, Placed
  <2>3. /\ InFlight(h) => Carries(p, h) \/ InFlight(h)'
        /\ Carries(p, h)' => InFlight(h)'
    BY <2>1, FlightKept
  <2>4. QED
    BY <1>12, <2>1, <2>2, <2>3, TokenFields, Places DEF Placed, SaveLoginUnreadable,
        ReplaceRecord, Goto, AfterFailedReplace
<1>13. ASSUME NEW p \in Proc, Abandons(p) PROVE NoOrphan'
  <2>1. Others(p)
    BY <1>13, OthersStep DEF ProcessEffect
  <2> SUFFICES ASSUME NEW h \in Grant, status'[h] = "active"
               PROVE  Placed(h)'
    BY DEF NoOrphan, Placed
  <2>2. status[h] = "active" => Placed(h)
    BY DEF NoOrphan, Placed
  <2>3. /\ InFlight(h) => Carries(p, h) \/ InFlight(h)'
        /\ Carries(p, h)' => InFlight(h)'
    BY <2>1, FlightKept
  <2>4. QED
    BY <1>13, <2>1, <2>2, <2>3, TokenFields DEF Placed, GrantOf, Carries, Abandons, Shared
<1>14. ASSUME NEW p \in Proc, SaveConfig(p) PROVE NoOrphan'
  <2>1. Others(p)
    BY <1>14, OthersStep DEF ProcessEffect
  <2> SUFFICES ASSUME NEW h \in Grant, status'[h] = "active"
               PROVE  Placed(h)'
    BY DEF NoOrphan, Placed
  <2>2. status[h] = "active" => Placed(h)
    BY DEF NoOrphan, Placed
  <2>3. /\ InFlight(h) => Carries(p, h) \/ InFlight(h)'
        /\ Carries(p, h)' => InFlight(h)'
    BY <2>1, FlightKept
  <2>4. QED
    BY <1>14, <2>1, <2>2, <2>3, TokenFields, Places, DoneForgets DEF Placed,
        SaveConfig, Goto, Forgets
<1>15. ASSUME NEW p \in Proc, RestoreLogin(p) PROVE NoOrphan'
  <2>1. Others(p)
    BY <1>15, OthersStep DEF ProcessEffect
  <2> SUFFICES ASSUME NEW h \in Grant, status'[h] = "active"
               PROVE  Placed(h)'
    BY DEF NoOrphan, Placed
  <2>2. status[h] = "active" => Placed(h)
    BY DEF NoOrphan, Placed
  <2>3. /\ InFlight(h) => Carries(p, h) \/ InFlight(h)'
        /\ Carries(p, h)' => InFlight(h)'
    BY <2>1, FlightKept
  <2>4. QED
    BY <1>15, <2>1, <2>2, <2>3, TokenFields, Places DEF Placed, RestoreLogin,
        AfterRestore, AfterDelete, Goto
<1>16. ASSUME NEW p \in Proc, RevokeIssued(p) PROVE NoOrphan'
  <2>1. Others(p)
    BY <1>16, OthersStep DEF ProcessEffect
  <2> SUFFICES ASSUME NEW h \in Grant, status'[h] = "active"
               PROVE  Placed(h)'
    BY DEF NoOrphan, Placed
  <2>2. status[h] = "active" => Placed(h)
    BY DEF NoOrphan, Placed
  <2>3. /\ InFlight(h) => Carries(p, h) \/ InFlight(h)'
        /\ Carries(p, h)' => InFlight(h)'
    BY <2>1, FlightKept
  <2>4. Forgets(p)
    BY <1>16, DoneForgets DEF RevokeIssued
  <2>5. QED
    BY <1>16, <2>1, <2>2, <2>3, TokenFields, Places, <2>4 DEF Placed, Forgets,
        RevokeIssued, EndGrant
<1>17. ASSUME NEW p \in Proc, StartLogout(p) PROVE NoOrphan'
  <2>1. Others(p)
    BY <1>17, OthersStep DEF ProcessEffect
  <2> SUFFICES ASSUME NEW h \in Grant, status'[h] = "active"
               PROVE  Placed(h)'
    BY DEF NoOrphan, Placed
  <2>2. status[h] = "active" => Placed(h)
    BY DEF NoOrphan, Placed
  <2>3. /\ InFlight(h) => Carries(p, h) \/ InFlight(h)'
        /\ Carries(p, h)' => InFlight(h)'
    BY <2>1, FlightKept
  <2>4. QED
    BY <1>17, <2>1, <2>2, <2>3, TokenFields DEF Placed, GrantOf, Carries, StartLogout, Keep,
        Goto
<1>18. ASSUME NEW p \in Proc, CleanLogout(p) PROVE NoOrphan'
  <2>1. Others(p)
    BY <1>18, OthersStep DEF ProcessEffect
  <2> SUFFICES ASSUME NEW h \in Grant, status'[h] = "active"
               PROVE  Placed(h)'
    BY DEF NoOrphan, Placed
  <2>2. status[h] = "active" => Placed(h)
    BY DEF NoOrphan, Placed
  <2>3. /\ InFlight(h) => Carries(p, h) \/ InFlight(h)'
        /\ Carries(p, h)' => InFlight(h)'
    BY <2>1, FlightKept
  <2>4. QED
    BY <1>18, <2>1, <2>2, <2>3, TokenFields DEF Placed, GrantOf, Carries, CleanLogout,
        AfterDelete, local
<1>19. ASSUME NEW p \in Proc, RevokeLogout(p) PROVE NoOrphan'
  <2>1. Others(p)
    BY <1>19, OthersStep DEF ProcessEffect
  <2> SUFFICES ASSUME NEW h \in Grant, status'[h] = "active"
               PROVE  Placed(h)'
    BY DEF NoOrphan, Placed
  <2>2. status[h] = "active" => Placed(h)
    BY DEF NoOrphan, Placed
  <2>3. /\ InFlight(h) => Carries(p, h) \/ InFlight(h)'
        /\ Carries(p, h)' => InFlight(h)'
    BY <2>1, FlightKept
  <2>4. QED
    BY <1>19, <2>1, <2>2, <2>3, TokenFields DEF Placed, GrantOf, Carries, RevokeLogout, Goto,
        EndGrant
<1>20. ASSUME NEW p \in Proc, DeleteLogout(p) PROVE NoOrphan'
  <2>1. Others(p)
    BY <1>20, OthersStep DEF ProcessEffect
  <2> SUFFICES ASSUME NEW h \in Grant, status'[h] = "active"
               PROVE  Placed(h)'
    BY DEF NoOrphan, Placed
  <2>2. status[h] = "active" => Placed(h)
    BY DEF NoOrphan, Placed
  <2>3. /\ InFlight(h) => Carries(p, h) \/ InFlight(h)'
        /\ Carries(p, h)' => InFlight(h)'
    BY <2>1, FlightKept
  <2>4. Forgets(p)
    BY <1>20, DoneForgets DEF DeleteLogout
  <2>5. QED
    BY <1>20, <2>1, <2>2, <2>3, TokenFields, <2>4 DEF Placed, GrantOf, Carries, Forgets,
        DeleteLogout, AfterDelete
<1>21. ASSUME NEW p \in Proc, Crash(p) PROVE NoOrphan'
  <2>1. Others(p)
    BY <1>21, OthersStep DEF ProcessEffect
  <2> SUFFICES ASSUME NEW h \in Grant, status'[h] = "active"
               PROVE  Placed(h)'
    BY DEF NoOrphan, Placed
  <2>2. status[h] = "active" => Placed(h)
    BY DEF NoOrphan, Placed
  <2>3. /\ InFlight(h) => Carries(p, h) \/ InFlight(h)'
        /\ Carries(p, h)' => InFlight(h)'
    BY <2>1, FlightKept
  <2>4. Forgets(p)
    BY <1>21, DoneForgets DEF Crash
  <2>5. QED
    BY <1>21, <2>1, <2>2, <2>3, TokenFields, Places, <2>4 DEF Placed, Forgets, Crash
<1>22. ASSUME NEW g \in Grant, GrantEnds(g) PROVE NoOrphan'
  <2>1. /\ slot' = slot /\ lost' = lost /\ adrift' = adrift
        /\ pc' = pc /\ held' = held
    BY <1>22 DEF GrantEnds, local, history
  <2>2. \A h \in Grant : status'[h] = "active" => status[h] = "active"
    BY <1>22 DEF GrantEnds, EndGrant, SharedType
  <2>3. QED
    BY <2>1, <2>2 DEF NoOrphan, GrantOf, Carries, InFlight
<1>23. ASSUME NEW g \in Grant, WindowCloses(g) PROVE NoOrphan'
  BY <1>23, TokenFields DEF NoOrphan, GrantOf, Carries, InFlight, WindowCloses, local
<1>24. CASE UNCHANGED vars
  BY <1>24 DEF NoOrphan, GrantOf, Carries, InFlight, vars, local
<1>25. QED
  BY Effects, <1>1, <1>2, <1>3, <1>4, <1>5, <1>6, <1>7, <1>8, <1>9, <1>10,
      <1>11, <1>12, <1>13, <1>14, <1>15, <1>16, <1>17, <1>18, <1>19, <1>20,
      <1>21, <1>22, <1>23, <1>24 DEF ProcessEffect, IInv

-----------------------------------------------------------------------------
(* The theorems *)

(* The initial states satisfy the inductive invariant. *)
LEMMA InvInit == Init => IInv
<1> SUFFICES ASSUME Init PROVE IInv
    OBVIOUS
<1>1. TypeInv
  BY TypeInit
<1>2. slot \notin Token
  BY AuthAssumption DEF Init
<1>3. \A p \in Proc : pc[p] = Idle /\ previous[p] = None /\ held[p] = None
  BY DEF Init
<1>4. \A g \in Grant : status[g] = "none" /\ gen[g] = 0
  BY DEF Init
<1>5. LockInv /\ HeldInv /\ SendInv /\ KeptInv
  BY <1>3, AuthAssumption
      DEF Init, LockInv, HeldInv, SendInv, KeptInv, Idle, LockedPC, Refreshing
<1>6. IssuedInv /\ PlaceInv
  BY <1>2, <1>3, <1>4, AuthAssumption
      DEF IssuedInv, PlaceInv, Holds, Restores, GrantOf, Idle, LoginPC
<1>7. RecordUsable /\ NoOrphan
  BY <1>2, <1>4 DEF RecordUsable, NoOrphan
<1>8. QED BY <1>1, <1>5, <1>6, <1>7 DEF IInv

(* Every step preserves the inductive invariant. *)
LEMMA InvStep == IInv /\ [Next]_vars => IInv'
<1> SUFFICES ASSUME IInv, [Next]_vars PROVE IInv'
    OBVIOUS
<1>1. TypeInv'
  BY SharedTypeStep, LocalTypeStep, HeldTypedStep DEF IInv, TypeInv, TypeOK
<1>2. QED
  BY <1>1, LockStep, HeldStep, SendInvStep, IssuedStep, PlaceStep, KeptStep,
     RecordStep, OrphanStep DEF IInv

(* What every reachable state satisfies: the locked sections' knowledge of *)
(* the record (manager.go:502-549) and where each grant is.                *)
THEOREM InductiveInvariant == Spec => []IInv
BY InvInit, InvStep, PTL DEF Spec

(* The types of the shared state and of each process's memory, for every   *)
(* number of processes, grants and rotations.                              *)
THEOREM TypeCorrect == Spec => []TypeOK
<1>1. IInv => TypeOK
  BY DEF IInv, TypeInv
<1>2. QED BY <1>1, InductiveInvariant, PTL

(* No interleaving of any number of processes stores an older refresh      *)
(* token over a newer one: refresh and RestoreLogin compare and write      *)
(* under the lock (manager.go:195-216, 502-549).                           *)
THEOREM RecordUsableHolds == Spec => []RecordUsable
<1>1. IInv => RecordUsable
  BY DEF IInv
<1>2. QED BY <1>1, InductiveInvariant, PTL

(* No process sends a refresh token whose reuse would end the login: it    *)
(* reloads the record under the lock, and its own retries stay within what *)
(* the server serves again (manager.go:502-549).                           *)
THEOREM NoReuseHolds == Spec => []NoReuse
<1>1. IInv => NoReuse
  BY DEF IInv, SendInv, NoReuse, Consumed
<1>2. QED BY <1>1, InductiveInvariant, PTL

(* An active grant is stored or in the hands of its login, or it got away  *)
(* in one of the known ways: a rotation that was not recorded, a login     *)
(* whose tokens were given up or lost, a record replaced while the keyring *)
(* could not be read, a logout that said so (login.go:476-522,             *)
(* manager.go:162-216 and 312-347).                                        *)
THEOREM NoOrphanHolds == Spec => []NoOrphan
<1>1. IInv => NoOrphan
  BY DEF IInv
<1>2. QED BY <1>1, InductiveInvariant, PTL

-----------------------------------------------------------------------------
(* The refinement of LoginRecord *)

(* What a login or a refresh is about to store is the pair it should be.   *)
PairInv ==
    \A p \in Proc :
        /\ pc[p] \in {"saveLogin", "saveConfig", "restore"} => held[p].gen = 0
        /\ pc[p] = "saveRefresh" => held[p].gen = slot.gen + 1

RInv == IInv /\ PairInv

(* Every step keeps that. *)
LEMMA PairStep == RInv /\ [Next]_vars => PairInv'
<1> SUFFICES ASSUME RInv, [Next]_vars PROVE PairInv'
    OBVIOUS
<1>0. IInv /\ PairInv /\ SharedType /\ LocalType /\ HeldTyped /\ LockInv
  BY DEF RInv, IInv, TypeInv, TypeOK
<1>1. \A q \in Proc : pc[q] = "saveRefresh" => lock = q
  BY <1>0 DEF LockInv, LockedPC, Refreshing
<1>2. \A p \in Proc : lock = None \/ lock = p =>
          \A q \in Proc \ {p} : pc[q] # "saveRefresh"
  BY <1>1, AuthAssumption
<1>3. ASSUME NEW p \in Proc, Others(p),
             slot' = slot \/ lock = None \/ lock = p,
             pc'[p] \in {"saveLogin", "saveConfig", "restore"} => held'[p].gen = 0,
             pc'[p] = "saveRefresh" => held'[p].gen = slot'.gen + 1
      PROVE  PairInv'
  BY <1>0, <1>2, <1>3 DEF PairInv, Others
<1> DEFINE Away(p) == pc'[p] \notin {"saveLogin", "saveConfig", "restore", "saveRefresh"}
<1>4. ASSUME NEW p \in Proc, Others(p), slot' = slot \/ lock = None \/ lock = p, Away(p)
      PROVE  PairInv'
  BY <1>3, <1>4
<1>5. \A p \in Proc : pc[p] \in LockedPC => lock = p
  BY <1>0 DEF LockInv
<1> HIDE DEF Away
<1>6. ASSUME NEW p \in Proc, ProcessEffect(p) PROVE PairInv'
  <2>0. Others(p)
    BY <1>0, <1>6, OthersStep
  <2> USE DEF LockedPC, Refreshing, LoginPC, Idle, LocalType
  <2> USE <1>0, <2>0
  <2>1. CASE Quiet(p) \/ TakesLock(p) \/ Saves(p) \/ SaveFails(p) \/ Abandons(p)
    <3>1. Away(p) /\ (slot' = slot \/ lock = p)
      BY <2>1, <1>5 DEF Quiet, TakesLock, Saves, SaveFails, Abandons, Forgets,
                        Shared, Away
    <3>2. QED BY <3>1, <1>4
  <2>2. CASE SendAnswered(p)
    <3>1. /\ slot' = slot /\ pc'[p] = "saveRefresh" /\ slot = held[p]
          /\ held'[p] = [held[p] EXCEPT !.gen = @ + 1] /\ held[p] \in Token
      BY <2>2 DEF SendAnswered, Keep, Goto, IInv, HeldInv, HeldTyped
    <3>2. held'[p].gen = slot'.gen + 1
      BY <3>1 DEF Token
    <3>3. QED BY <3>1, <3>2, <1>3
  <2>3. CASE SendRefused(p) \/ RevokeLogout(p) \/ StartLogout(p)
    <3>1. Away(p) /\ slot' = slot
      BY <2>3 DEF SendRefused, RevokeLogout, StartLogout, Keep, Goto, Away
    <3>2. QED BY <3>1, <1>4
  <2>4. CASE SendRetried(p)
    <3>1. Away(p) /\ slot' = slot
      BY <2>4 DEF SendRetried, Away
    <3>2. QED BY <3>1, <1>4
  <2>5. CASE SendFails(p) \/ RefreshExpired(p)
    <3>1. Forgets(p) /\ (slot' = slot \/ lock = p)
      BY <2>5, <1>5, FailForgets DEF SendFails, RefreshExpired
    <3>2. QED BY <3>1, <1>4 DEF Forgets, Away
  <2>6. CASE RevokeIssued(p) \/ DeleteLogout(p) \/ Crash(p)
    <3>1. Forgets(p) /\ (slot' = slot \/ lock = p)
      BY <2>6, <1>5, DoneForgets DEF RevokeIssued, DeleteLogout, Crash
    <3>2. QED BY <3>1, <1>4 DEF Forgets, Away
  <2>7. CASE \E g \in Grant : Authorizes(p, g)
    BY <2>7, <1>3, <1>4 DEF Authorizes, Forgets, Away
  <2>8. CASE SaveLogin(p) \/ SaveLoginUnreadable(p)
    <3>1. /\ lock = None /\ held' = held /\ pc[p] = "saveLogin"
          /\ pc'[p] \in {"saveConfig", "revokeIssued"}
      BY <2>8 DEF SaveLogin, SaveLoginUnreadable, ReplaceRecord, Goto
    <3>2. QED BY <3>1, <1>3 DEF PairInv
  <2>9. CASE SaveConfig(p)
    <3>1. slot' = slot /\ pc[p] = "saveConfig"
      BY <2>9 DEF SaveConfig
    <3>2. CASE Done(p)
      BY <3>1, <3>2, DoneForgets, <1>4 DEF Forgets, Away
    <3>3. CASE pc'[p] = "restore" /\ held' = held
      BY <3>1, <3>3, <1>3 DEF PairInv
    <3>4. QED BY <2>9, <3>2, <3>3 DEF SaveConfig, Goto
  <2>10. CASE RestoreLogin(p)
    <3>1. Away(p) /\ lock = None
      BY <2>10 DEF RestoreLogin, Goto, Away
    <3>2. QED BY <3>1, <1>4
  <2>11. CASE CleanLogout(p)
    <3>1. Away(p) /\ lock = None
      BY <2>11 DEF CleanLogout, local, Away
    <3>2. QED BY <3>1, <1>4
  <2>12. QED
    BY <1>6, <2>1, <2>2, <2>3, <2>4, <2>5, <2>6, <2>7, <2>8, <2>9, <2>10,
       <2>11 DEF ProcessEffect
<1>7. ASSUME NEW g \in Grant, GrantEnds(g) \/ WindowCloses(g) PROVE PairInv'
  BY <1>0, <1>7 DEF GrantEnds, WindowCloses, local, PairInv
<1>8. CASE UNCHANGED vars
  BY <1>0, <1>8 DEF vars, local, PairInv
<1>9. IssuedInv
  BY <1>0 DEF IInv
<1>10. QED
  BY <1>0, <1>6, <1>7, <1>8, <1>9, Effects

-----------------------------------------------------------------------------
(* The record of LoginRecord *)

(* What a step does to the grants still to be installed: a grant stays     *)
(* installable while nobody's login of it begins or ends.                  *)
LEMMA InstallableKept ==
    ASSUME NEW p \in Proc, Others(p),
           \A g \in Grant : status'[g] = "none" <=> status[g] = "none",
           \A g \in Grant : Installing(p, g)' <=> Installing(p, g)
    PROVE  Installable' = Installable
<1>1. \A q \in Proc, g \in Grant : Installing(q, g)' <=> Installing(q, g)
  BY DEF Others, Installing, Carries, GrantOf
<1>2. QED BY <1>1 DEF Installable

(* A login that leaves saveLogin takes its grant with it. *)
LEMMA InstallableLoses ==
    ASSUME PlaceInv, NEW p \in Proc, Others(p), NEW g \in Grant,
           Installing(p, g), \A h \in Grant : ~Installing(p, h)',
           status[g] # "none", status' = status
    PROVE  g \in Installable /\ Installable' = Installable \ {g}
<1>1. \A q \in Proc \ {p}, h \in Grant : Installing(q, h)' <=> Installing(q, h)
  BY DEF Others, Installing, Carries, GrantOf
<1>2. \A h \in Grant : Installing(p, h) => h = g
  BY DEF Installing, Carries
<1>3. \A q \in Proc \ {p} : ~Installing(q, g)
  BY DEF PlaceInv, Installing, Carries, GrantOf
<1>4. QED BY <1>1, <1>2, <1>3 DEF Installable

(* What may be put back stays while no login is installed or settled. *)
LEMMA RestorableKept ==
    ASSUME NEW p \in Proc, Others(p),
           \A g \in Grant : Installed(p, g)' <=> Installed(p, g),
           \A g \in Grant : Installed(p, g) => previous'[p] = previous[p]
    PROVE  Restorable' = Restorable
<1>1. \A q \in Proc, g \in Grant :
          /\ Installed(q, g)' <=> Installed(q, g)
          /\ Installed(q, g) => previous'[q] = previous[q]
  BY DEF Others, Installed, Carries, GrantOf
<1>2. \A g \in Grant :
          {previous'[q] : q \in {r \in Proc : Installed(r, g)'}}
             = {previous[q] : q \in {r \in Proc : Installed(r, g)}}
  BY <1>1
<1>3. QED BY <1>2 DEF Restorable

(* A login that is installed is the only one that may undo it. *)
LEMMA RestorableOne ==
    ASSUME PlaceInv, NEW p \in Proc, NEW g \in Grant, Installed(p, g)
    PROVE  Restorable[g] = {previous[p]}
<1>1. \A q \in Proc : Installed(q, g) => q = p
  BY DEF PlaceInv, Installed, Carries, GrantOf, LoginPC
<1>2. {q \in Proc : Installed(q, g)} = {p}
  BY <1>1
<1>3. QED BY <1>2 DEF Restorable

(* It settles, or puts back what was there: its memory of it is gone. *)
LEMMA RestorableLoses ==
    ASSUME PlaceInv, NEW p \in Proc, Others(p), NEW g \in Grant,
           Installed(p, g), \A h \in Grant : ~Installed(p, h)'
    PROVE  Restorable' = [Restorable EXCEPT ![g] = {}]
<1>1. \A q \in Proc \ {p}, h \in Grant :
          /\ Installed(q, h)' <=> Installed(q, h)
          /\ previous'[q] = previous[q]
  BY DEF Others, Installed, Carries, GrantOf
<1>2. \A h \in Grant : Installed(p, h) => h = g
  BY DEF Installed, Carries
<1>3. \A q \in Proc \ {p} : ~Installed(q, g)
  BY DEF PlaceInv, Installed, Carries, GrantOf, LoginPC
<1>4. {previous'[q] : q \in {r \in Proc : Installed(r, g)'}} = {}
  BY <1>1, <1>3
<1>5. \A h \in Grant \ {g} :
          {previous'[q] : q \in {r \in Proc : Installed(r, h)'}}
             = {previous[q] : q \in {r \in Proc : Installed(r, h)}}
  BY <1>1, <1>2
<1>6. QED BY <1>4, <1>5 DEF Restorable

(* A login that is installed remembers what it replaced. *)
LEMMA RestorableGains ==
    ASSUME PlaceInv, NEW p \in Proc, Others(p), NEW g \in Grant,
           Installing(p, g), Installed(p, g)'
    PROVE  Restorable' = [Restorable EXCEPT ![g] = {previous'[p]}]
<1>1. \A q \in Proc \ {p}, h \in Grant :
          /\ Installed(q, h)' <=> Installed(q, h)
          /\ previous'[q] = previous[q]
  BY DEF Others, Installed, Carries, GrantOf
<1>2. \A h \in Grant : ~Installed(p, h) /\ (Installed(p, h)' => h = g)
  BY DEF Installing, Installed, Carries
<1>3. \A q \in Proc \ {p} : ~Installed(q, g)
  BY DEF PlaceInv, Installing, Installed, Carries, GrantOf, LoginPC
<1>4. {r \in Proc : Installed(r, g)'} = {p}
  BY <1>1, <1>3
<1>5. {previous'[q] : q \in {r \in Proc : Installed(r, g)'}} = {previous'[p]}
  BY <1>4
<1>6. \A h \in Grant \ {g} :
          {previous'[q] : q \in {r \in Proc : Installed(r, h)'}}
             = {previous[q] : q \in {r \in Proc : Installed(r, h)}}
  BY <1>1, <1>2
<1>7. QED BY <1>5, <1>6 DEF Restorable

(* A process outside these stages moves neither. *)
LEMMA Outside ==
    ASSUME NEW p \in Proc, Others(p),
           pc[p] \notin {"saveLogin", "saveConfig", "restore"},
           pc'[p] \notin {"saveLogin", "saveConfig", "restore"},
           \A g \in Grant : status'[g] = "none" <=> status[g] = "none"
    PROVE  Installable' = Installable /\ Restorable' = Restorable
<1>1. \A g \in Grant : /\ ~Installing(p, g) /\ ~Installing(p, g)'
                       /\ ~Installed(p, g) /\ ~Installed(p, g)'
  BY DEF Installing, Installed
<1>2. QED BY <1>1, InstallableKept, RestorableKept

RecordMoves == Record!RecordNext \/ UNCHANGED Record!recordVars

(* The steps that do not touch the record, or that end a refresh or a      *)
(* logout.                                                                 *)
LEMMA OutsideMoves ==
    ASSUME NEW p \in Proc, Others(p),
           pc[p] \notin {"saveLogin", "saveConfig", "restore"},
           pc'[p] \notin {"saveLogin", "saveConfig", "restore"},
           \A g \in Grant : status'[g] = "none" <=> status[g] = "none",
           slot' \in {None, slot}
    PROVE  RecordMoves
BY Outside DEF RecordMoves, Record!RecordNext, Record!Remove, Record!recordVars

(* SaveLogin installs a login, or gives it up. *)
LEMMA ReplaceMoves ==
    ASSUME RInv, NEW p \in Proc, pc[p] = "saveLogin", Others(p),
           ReplaceRecord(p, IF slot \in Token THEN slot ELSE None)
               \/ ReplaceRecord(p, None),
           held' = held, status' = status
    PROVE  RecordMoves
<1>0. IInv /\ PairInv /\ PlaceInv /\ IssuedInv /\ HeldTyped /\ LocalType
  BY DEF RInv, IInv, TypeInv, TypeOK
<1>a. held[p] \in Token /\ held[p].gen = 0
  BY <1>0 DEF HeldTyped, LoginPC, PairInv
<1>b. PICK g \in Grant : g = held[p].grant
  BY <1>a, TokenFields
<1>1. held[p] \in Token /\ held[p] = Record!FirstPair(g)
  BY <1>a, <1>b DEF Token, Record!FirstPair
<1>2. GrantOf(held[p]) = {g} /\ GrantOf(held'[p]) = {g}
  BY <1>a, <1>b DEF GrantOf
<1>3. Installing(p, g) /\ status[g] # "none"
  BY <1>0, <1>1, <1>2, <1>b DEF Installing, Carries, LoginPC, IssuedInv, Holds
<1>4. pc'[p] \in {"saveConfig", "revokeIssued"}
  BY <1>0 DEF ReplaceRecord, Goto, LocalType
<1>5. g \in Installable /\ Installable' = Installable \ {g}
  <2>1. \A h \in Grant : ~Installing(p, h)'
    BY <1>4 DEF Installing
  <2>2. QED BY <2>1, <1>0, <1>1, <1>3, InstallableLoses
<1>6. CASE pc'[p] = "saveConfig"
  <2>0. Record!Replaced = IF slot \in Token THEN slot ELSE None
    BY DEF Record!Replaced, Record!Pair, Token
  <2> DEFINE before == IF slot \in Token THEN slot ELSE None
  <2>a. ReplaceRecord(p, before) \/ ReplaceRecord(p, None)
    OBVIOUS
  <2> HIDE DEF before
  <2>b. pc \in [Proc -> PC] /\ previous \in [Proc -> Token \cup {None}]
    BY <1>0 DEF LocalType
  <2>c. ASSUME NEW b, ReplaceRecord(p, b)
        PROVE  slot' = held[p] /\ previous'[p] = b
    BY <1>6, <2>b, <2>c DEF ReplaceRecord, Goto
  <2>1. slot' = held[p] /\ previous'[p] \in {before, None}
    BY <2>a, <2>c
  <2>2. Installed(p, g)'
    BY <1>2, <1>6 DEF Installed, Carries, LoginPC
  <2>3. Restorable' = [Restorable EXCEPT ![g] = {previous'[p]}]
    BY <1>0, <1>1, <1>3, <2>2, RestorableGains
  <2>4. Record!Install(g)
    BY <1>1, <1>5, <2>0, <2>1, <2>3 DEF Record!Install, before
  <2>5. QED BY <1>1, <2>4 DEF RecordMoves, Record!RecordNext
<1>7. CASE pc'[p] = "revokeIssued"
  <2>1. slot' \in {slot, None, held[p]}
    BY <1>0, <1>7 DEF ReplaceRecord, AfterFailedReplace, Goto, LocalType
  <2>2. Restorable' = Restorable
    <3>1. \A h \in Grant : ~Installed(p, h) /\ ~Installed(p, h)'
      BY <1>7 DEF Installed
    <3>2. QED BY <3>1, RestorableKept
  <2>3. Record!Install(g) \/ Record!Forgo(g)
    BY <1>1, <1>5, <2>1, <2>2 DEF Record!Install, Record!Forgo
  <2>4. QED BY <1>1, <2>3 DEF RecordMoves, Record!RecordNext
<1>8. QED BY <1>4, <1>6, <1>7

(* A login that leaves the record alone is forgone, settled or goes on. *)
LEMMA LeaveMoves ==
    ASSUME RInv, NEW p \in Proc, Others(p), slot' = slot,
           pc[p] \in {"saveLogin", "saveConfig", "restore"},
           pc'[p] \notin {"saveLogin", "saveConfig", "restore"},
           status' = status
    PROVE  RecordMoves
<1> DEFINE g == held[p].grant
<1>0. IInv /\ PlaceInv /\ IssuedInv /\ HeldTyped
  BY DEF RInv, IInv, TypeInv
<1>1. held[p] \in Token /\ g \in Grant /\ GrantOf(held[p]) = {g}
  BY <1>0, TokenFields DEF HeldTyped, LoginPC, GrantOf
<1>2. status[g] # "none"
  BY <1>0, <1>1 DEF IssuedInv, Holds
<1> HIDE DEF g
<1>3. \A h \in Grant : ~Installing(p, h)' /\ ~Installed(p, h)'
  BY DEF Installing, Installed
<1>4. CASE pc[p] = "saveLogin"
  <2>1. Installing(p, g) /\ \A h \in Grant : ~Installed(p, h)
    BY <1>1, <1>4 DEF Installing, Installed, Carries, LoginPC
  <2>2. g \in Installable /\ Installable' = Installable \ {g}
    BY <1>0, <1>1, <1>2, <1>3, <2>1, InstallableLoses
  <2>3. Restorable' = Restorable
    BY <1>3, <2>1, RestorableKept
  <2>4. Record!Forgo(g)
    BY <2>2, <2>3 DEF Record!Forgo
  <2>5. QED BY <1>1, <2>4 DEF RecordMoves, Record!RecordNext
<1>5. CASE pc[p] \in {"saveConfig", "restore"}
  <2>1. Installed(p, g) /\ \A h \in Grant : ~Installing(p, h)
    BY <1>1, <1>5 DEF Installing, Installed, Carries, LoginPC
  <2>2. Installable' = Installable
    BY <1>3, <2>1, InstallableKept
  <2>3. Restorable' = [Restorable EXCEPT ![g] = {}]
    BY <1>0, <1>1, <1>3, <2>1, RestorableLoses
  <2>4. Record!Settle(g)
    BY <2>2, <2>3 DEF Record!Settle
  <2>5. QED BY <1>1, <2>4 DEF RecordMoves, Record!RecordNext
<1>6. QED BY <1>4, <1>5

(* RestoreLogin undoes the login it wrote, or leaves the record alone. *)
LEMMA RestoreMoves ==
    ASSUME RInv, NEW p \in Proc, RestoreLogin(p)
    PROVE  RecordMoves
<1> DEFINE g == held[p].grant
<1>0. /\ IInv /\ PairInv /\ PlaceInv /\ HeldTyped /\ LocalType
  BY DEF RInv, IInv, TypeInv, TypeOK
<1>1. /\ Others(p) /\ status' = status
      /\ pc[p] = "restore" /\ pc'[p] = "revokeIssued"
  BY <1>0 DEF RestoreLogin, Goto, Others, LocalType, server
<1>2. CASE slot' = slot
  BY <1>1, <1>2, LeaveMoves
<1>3. CASE slot' # slot
  <2>1. slot = held[p] /\ slot' = previous[p]
    BY <1>0, <1>3 DEF RestoreLogin, StillWritten, AfterRestore, AfterDelete,
                      LocalType
  <2>2. held[p] \in Token /\ g \in Grant /\ slot = Record!FirstPair(g)
    <3>1. held[p] \in Token /\ held[p].gen = 0
      BY <1>0, <1>1 DEF HeldTyped, LoginPC, PairInv
    <3>2. QED BY <2>1, <3>1 DEF Token, Record!FirstPair
  <2>3. GrantOf(held[p]) = {g}
    BY <2>2 DEF GrantOf
  <2> HIDE DEF g
  <2>4. Installed(p, g) /\ \A h \in Grant : ~Installing(p, h)
    BY <1>1, <2>3 DEF Installed, Installing, Carries, LoginPC
  <2>5. \A h \in Grant : ~Installing(p, h)' /\ ~Installed(p, h)'
    BY <1>1 DEF Installed, Installing
  <2>6. Installable' = Installable
    BY <1>1, <2>4, <2>5, InstallableKept
  <2>7. /\ Restorable[g] = {previous[p]}
        /\ Restorable' = [Restorable EXCEPT ![g] = {}]
    BY <1>0, <1>1, <2>2, <2>4, <2>5, RestorableOne, RestorableLoses
  <2>8. Record!Undo(g)
    BY <2>1, <2>2, <2>6, <2>7 DEF Record!Undo
  <2>9. QED BY <2>2, <2>8 DEF RecordMoves, Record!RecordNext
<1>4. QED BY <1>2, <1>3

(* Authorization creates a grant; its login may come, or never does. *)
LEMMA AuthorizeMoves ==
    ASSUME RInv, NEW p \in Proc, NEW g \in Grant, Authorizes(p, g)
    PROVE  RecordMoves
<1>0. /\ SharedType /\ LocalType
      /\ Others(p) /\ slot' = slot /\ pc[p] = "authorize"
      /\ status[g] = "none" /\ status'[g] = "active"
      /\ \A h \in Grant \ {g} : status'[h] = status[h]
      /\ \A q \in Proc : ~Holds(q, g)
  BY DEF RInv, IInv, TypeInv, TypeOK, Authorizes, SharedType
<1>1. /\ \A q \in Proc \ {p}, h \in Grant : Installing(q, h)' <=> Installing(q, h)
      /\ \A q \in Proc : ~Installing(q, g)
      /\ \A h \in Grant : ~Installing(p, h) /\ ~Installed(p, h)
  BY <1>0, Places DEF Others, Installing, Installed, Carries, GrantOf, Holds
<1>2. pc'[p] \notin {"saveConfig", "restore"}
  BY DEF Authorizes, Forgets, Idle
<1>3. Restorable' = Restorable
  <2>1. \A h \in Grant : ~Installed(p, h)'
    BY <1>2 DEF Installed
  <2>2. QED BY <1>0, <1>1, <2>1, RestorableKept
<1>4. CASE pc'[p] = "saveLogin"
  <2>1. held'[p] = [grant |-> g, gen |-> 0]
    BY <1>4 DEF Authorizes, Forgets, Idle
  <2>2. held'[p] \in Token /\ held'[p].grant = g
    BY <2>1, TokenZero
  <2>3. \A h \in Grant : Installing(p, h)' <=> h = g
    BY <1>4, <2>2 DEF Installing, Carries, GrantOf, LoginPC
  <2>4. Installable' = Installable
    BY <1>0, <1>1, <2>3 DEF Installable
  <2>5. QED BY <1>0, <1>3, <2>4 DEF RecordMoves, Record!recordVars
<1>5. CASE pc'[p] # "saveLogin"
  <2>1. \A h \in Grant : ~Installing(p, h)'
    BY <1>5 DEF Installing
  <2>2. g \in Installable /\ Installable' = Installable \ {g}
    BY <1>0, <1>1, <2>1 DEF Installable
  <2>3. Record!Forgo(g)
    BY <1>0, <1>3, <2>2 DEF Record!Forgo
  <2>4. QED BY <2>3 DEF RecordMoves, Record!RecordNext
<1>6. QED BY <1>4, <1>5

(* The grant a step of the server may end has been issued. *)
LEMMA HeldIssued ==
    ASSUME IInv, NEW p \in Proc, held[p] \in Token
    PROVE  held[p].grant \in Grant /\ status[held[p].grant] # "none"
BY TokenFields DEF IInv, IssuedInv, Holds

(* Every step is one of LoginRecord's, or none. *)
LEMMA NextMoves == RInv /\ [Next]_vars => RecordMoves
<1> SUFFICES ASSUME RInv, [Next]_vars PROVE RecordMoves
    OBVIOUS
<1>0. /\ IInv /\ PairInv /\ SharedType /\ LocalType /\ HeldTyped
      /\ HeldInv /\ IssuedInv
  BY DEF RInv, IInv, TypeInv, TypeOK
<1>1. ASSUME NEW p \in Proc, ProcessEffect(p) PROVE RecordMoves
  <2>0. Others(p)
    BY <1>0, <1>1, OthersStep
  <2>z. held[p] \in Token => held[p].grant \in Grant /\ status[held[p].grant] # "none"
    BY <1>0, HeldIssued
  <2> DEFINE Same == \A g \in Grant : status'[g] = "none" <=> status[g] = "none"
             Out == /\ pc[p] \notin {"saveLogin", "saveConfig", "restore"}
                    /\ pc'[p] \notin {"saveLogin", "saveConfig", "restore"}
  <2>o. ASSUME Same, Out, slot' \in {None, slot} PROVE RecordMoves
    BY <2>0, <2>o, OutsideMoves
  <2> USE <1>0 DEF LockedPC, Refreshing, LoginPC, Idle, server, history
  <2>1. CASE Quiet(p) \/ TakesLock(p) \/ SaveFails(p)
    BY <2>1, <2>o DEF Quiet, TakesLock, SaveFails, Shared, Forgets
  <2>2. CASE SendAnswered(p)
    BY <2>2, <2>o DEF SendAnswered, Rotates, ServesAgain, Goto, LocalType
  <2>3. CASE SendRefused(p)
    <3>1. Refuses(held[p]) /\ held[p] \in Token
      BY <2>3 DEF SendRefused, HeldTyped
    <3>2. Same
      BY <3>1, <2>z DEF Refuses, Reuse, SharedType
    <3>3. QED BY <2>3, <2>o, <3>2 DEF SendRefused, Goto, LocalType
  <2>4. CASE SendRetried(p) \/ SendFails(p)
    <3>1. Unanswered(held[p]) /\ held[p] \in Token
      BY <2>4 DEF SendRetried, SendFails, HeldTyped
    <3>2. Same
      BY <3>1, <2>z DEF Unanswered, Rotates, ServesAgain, Refuses, Reuse, SharedType
    <3>3. CASE SendRetried(p)
      BY <2>o, <3>2, <3>3 DEF SendRetried
    <3>4. CASE SendFails(p)
      BY <2>o, <3>2, <3>4, FailForgets DEF SendFails, Forgets
    <3>5. QED BY <2>4, <3>3, <3>4
  <2>5. CASE Saves(p)
    <3>1. Installable' = Installable /\ Restorable' = Restorable
      BY <2>0, <2>5, Outside DEF Saves
    <3>2. /\ slot \in Token /\ held[p] \in Token /\ slot' = held[p]
          /\ held[p].grant = slot.grant /\ held[p].gen = slot.gen + 1
      BY <2>5 DEF Saves, HeldInv, HeldTyped, PairInv
    <3>3. held[p] = [slot EXCEPT !.gen = slot.gen + 1] /\ slot.gen < MaxGen
      BY <3>2, AuthAssumption DEF Token
    <3>4. Record!Renew
      BY <3>1, <3>2, <3>3 DEF Record!Renew, Record!Pair, Token
    <3>5. QED BY <3>4 DEF RecordMoves, Record!RecordNext
  <2>6. CASE RefreshExpired(p)
    BY <2>6, <2>o, FailForgets DEF RefreshExpired, AfterDelete, Forgets
  <2>7. CASE \E g \in Grant : Authorizes(p, g)
    BY <2>7, AuthorizeMoves
  <2>8. CASE SaveLogin(p) \/ SaveLoginUnreadable(p)
    <3>1. /\ pc[p] = "saveLogin" /\ held' = held /\ status' = status
          /\ \/ ReplaceRecord(p, IF slot \in Token THEN slot ELSE None)
             \/ ReplaceRecord(p, None)
      BY <2>8 DEF SaveLogin, SaveLoginUnreadable
    <3>2. QED BY <2>0, <3>1, ReplaceMoves
  <2>9. CASE Abandons(p)
    BY <2>0, <2>9, LeaveMoves DEF Abandons, Shared
  <2>10. CASE SaveConfig(p)
    <3>1. slot' = slot /\ status' = status /\ pc[p] = "saveConfig"
      BY <2>10 DEF SaveConfig
    <3>2. CASE Done(p)
      BY <2>0, <3>1, <3>2, DoneForgets, LeaveMoves DEF Forgets
    <3>3. CASE pc'[p] = "restore" /\ held' = held /\ previous' = previous
      <4>1. \A g \in Grant : /\ ~Installing(p, g) /\ ~Installing(p, g)'
                             /\ Installed(p, g)' <=> Installed(p, g)
        BY <3>1, <3>3 DEF Installing, Installed, Carries, GrantOf
      <4>2. Installable' = Installable /\ Restorable' = Restorable
        BY <2>0, <3>1, <3>3, <4>1, InstallableKept, RestorableKept
      <4>3. QED BY <3>1, <4>2 DEF RecordMoves, Record!recordVars
    <3>4. QED BY <2>10, <3>2, <3>3 DEF SaveConfig, Goto, LocalType
  <2>11. CASE RestoreLogin(p)
    BY <2>11, RestoreMoves
  <2>12. CASE RevokeIssued(p)
    <3>1. Forgets(p) /\ slot' = slot /\ pc[p] = "revokeIssued"
      BY <2>12, DoneForgets DEF RevokeIssued
    <3>2. Same
      BY <2>12, <2>z DEF RevokeIssued, EndGrant, HeldTyped, SharedType
    <3>3. QED BY <2>o, <3>1, <3>2 DEF Forgets
  <2>13. CASE StartLogout(p)
    BY <2>13, <2>o DEF StartLogout, Goto, LocalType
  <2>14. CASE CleanLogout(p)
    BY <2>14, <2>o DEF CleanLogout, AfterDelete, local
  <2>15. CASE RevokeLogout(p)
    <3>1. Same
      BY <2>15, <2>z DEF RevokeLogout, EndGrant, HeldTyped, SharedType
    <3>2. QED BY <2>15, <2>o, <3>1 DEF RevokeLogout, Goto, LocalType
  <2>16. CASE DeleteLogout(p)
    BY <2>16, <2>o, DoneForgets DEF DeleteLogout, AfterDelete, Forgets
  <2>17. CASE Crash(p)
    <3>1. Forgets(p) /\ slot' = slot /\ status' = status
      BY <2>17, DoneForgets DEF Crash
    <3>2. QED BY <2>0, <2>o, <3>1, LeaveMoves DEF Forgets
  <2>18. QED
    BY <1>1, <2>1, <2>2, <2>3, <2>4, <2>5, <2>6, <2>7, <2>8, <2>9, <2>10,
       <2>11, <2>12, <2>13, <2>14, <2>15, <2>16, <2>17 DEF ProcessEffect
<1>2. ASSUME pc' = pc, held' = held, previous' = previous, slot' = slot,
             \A g \in Grant : status'[g] = "none" <=> status[g] = "none"
      PROVE  RecordMoves
  <2>1. \A q \in Proc, g \in Grant : /\ Installing(q, g)' <=> Installing(q, g)
                                     /\ Installed(q, g)' <=> Installed(q, g)
    BY <1>2 DEF Installing, Installed, Carries, GrantOf
  <2>2. Installable' = Installable /\ Restorable' = Restorable
    BY <1>2, <2>1 DEF Installable, Restorable
  <2>3. QED BY <1>2, <2>2 DEF RecordMoves, Record!recordVars
<1>3. ASSUME NEW g \in Grant, GrantEnds(g) \/ WindowCloses(g) PROVE RecordMoves
  BY <1>0, <1>2, <1>3 DEF GrantEnds, WindowCloses, EndGrant, local, SharedType
<1>4. CASE UNCHANGED vars
  BY <1>2, <1>4 DEF vars, local, server
<1>5. QED
  BY <1>0, <1>1, <1>3, <1>4, Effects

(* At first nothing is stored and every login may still come. *)
LEMMA RecordInitially == Init => Record!RecordInit /\ PairInv
<1> SUFFICES ASSUME Init PROVE Record!RecordInit /\ PairInv
    OBVIOUS
<1>1. /\ slot \in {None, Invalid}
      /\ \A p \in Proc : pc[p] = Idle
      /\ \A g \in Grant : status[g] = "none"
  BY DEF Init
<1>2. Installable = Grant
  BY <1>1 DEF Installable
<1>3. \A g \in Grant : {p \in Proc : Installed(p, g)} = {}
  BY <1>1 DEF Installed, Idle
<1>4. Restorable = [g \in Grant |-> {}]
  BY <1>3 DEF Restorable
<1>5. PairInv
  BY <1>1 DEF PairInv, Idle
<1>6. QED BY <1>1, <1>2, <1>4, <1>5 DEF Record!RecordInit

(* Any number of processes together implement the one record that          *)
(* LoginRecord describes: SaveLogin, refresh, RestoreLogin and Logout may   *)
(* run at the same time, fail half way or be killed (manager.go:162-216,    *)
(* 312-347 and 502-549).                                                    *)
THEOREM ProcessesImplementRecord == Spec => LoginRecordSpec
<1>1. Spec => []RInv
  <2>1. Init => RInv
    BY InvInit, RecordInitially DEF RInv
  <2>2. RInv /\ [Next]_vars => RInv'
    BY InvStep, PairStep DEF RInv
  <2>3. QED BY <2>1, <2>2, PTL DEF Spec
<1>2. RInv /\ [Next]_vars => [Record!RecordNext]_(Record!recordVars)
  BY NextMoves DEF RecordMoves
<1>3. Init => Record!RecordInit
  BY RecordInitially
<1>4. QED
  BY <1>1, <1>2, <1>3, PTL DEF Spec, LoginRecordSpec, Record!RecordSpec

=============================================================================
