----------------------------- MODULE AuthManager -----------------------------
(***************************************************************************)
(* internal/auth/manager.go and the login command around it: several CLI   *)
(* processes share one credential record and one file lock, and talk to an *)
(* authorization server whose refresh tokens work once.                    *)
(*                                                                         *)
(* A token pair is the grant it belongs to and its generation: each        *)
(* rotation raises the generation by one.  Load reads the record without   *)
(* the lock; every write happens under it.  A locked section that makes no *)
(* network call is one step.  Requests and responses may be lost, every    *)
(* store call may fail, and a process may be killed before any step.       *)
(***************************************************************************)
EXTENDS Naturals, FiniteSets

CONSTANTS
    Proc,       \* CLI processes
    Grant,      \* what one interactive authorization creates on the server
    MaxGen,     \* bound: rotations per grant
    None,       \* no record, no process
    Invalid     \* a record that cannot be used (credential.ErrInvalidState)

Token == [grant : Grant, gen : 0..MaxGen]

ASSUME AuthAssumption ==
    /\ MaxGen \in Nat
    /\ None \notin Token /\ Invalid \notin Token /\ None # Invalid
    /\ None \notin Proc

refreshRetryLimit == 2

VARIABLES
    slot,       \* the stored record: its token pair, None or Invalid
    lock,       \* the process that holds the file lock
    status,     \* server: grant -> not issued, active or ended
    gen,        \* server: grant -> generation of the newest token pair
    window,     \* server: grants whose last consumed token is served again
    pc,         \* what each process does next
    held,       \* the token pair each process works with
    previous,   \* the record SaveLogin handed out for RestoreLogin
    attempt,    \* refresh requests sent so far
    retried,    \* processes whose Account already retried after a 401
    purpose,    \* why Account runs: a command, or login's check for a login
    lost,       \* history: a rotation of the stored login was not recorded
    adrift      \* history: grant -> why it may be active with no tokens left
                \* here: "told" (the user), "stranded", "overwritten" or "no"

server == <<status, gen, window>>
local == <<pc, held, previous, attempt, retried, purpose>>
history == <<lost, adrift>>
vars == <<slot, lock, server, local, history>>

Idle == "idle"
Refreshing == {"send", "saveRefresh", "expired"}
LockedPC == Refreshing \cup {"revokeLogout", "delete"}
LoginPC == {"saveLogin", "saveConfig", "restore", "revokeIssued"}
PC == LockedPC \cup LoginPC \cup {Idle, "check", "account", "refresh", "authorize"}

(* What the server keeps of a grant that is not the newest pair.           *)
Superseded(t) == t.gen < gen[t.grant]

(* The pair consumed last is served once more while its window is open;    *)
(* any other superseded pair is reuse.                                     *)
Recoverable(t) == t.gen + 1 = gen[t.grant] /\ t.grant \in window
Consumed(t) == Superseded(t) /\ ~Recoverable(t)

(* The refresh token expiry stored with a record is local knowledge.  It   *)
(* passes only for a token the server no longer accepts.                   *)
MayLapse(t) ==
    \/ status[t.grant] = "ended"
    \/ Consumed(t)

-----------------------------------------------------------------------------
(* Helpers *)

Goto(p, l) == pc' = [pc EXCEPT ![p] = l]
Keep(p, t) == held' = [held EXCEPT ![p] = t]

(* A command ends: whatever it held in memory is gone. *)
Done(p) ==
    /\ pc' = [pc EXCEPT ![p] = Idle]
    /\ held' = [held EXCEPT ![p] = None]
    /\ previous' = [previous EXCEPT ![p] = None]
    /\ attempt' = [attempt EXCEPT ![p] = 0]
    /\ retried' = retried \ {p}
    /\ purpose' = [purpose EXCEPT ![p] = "use"]

(* Account failed.  login goes on to authorize only when the stored login  *)
(* is gone or can never work again; any other failure ends the command.    *)
AccountFails(p, gone) ==
    IF purpose[p] = "secondLogin" /\ gone
      THEN /\ Goto(p, "authorize")
           /\ Keep(p, None)
           /\ attempt' = [attempt EXCEPT ![p] = 0]
           /\ retried' = retried \ {p}
           /\ purpose' = [purpose EXCEPT ![p] = "use"]
           /\ UNCHANGED previous
      ELSE Done(p)

(* The record a store call leaves when it does not succeed or when its     *)
(* success makes no difference.  See CredentialSlot.                       *)
AfterDelete == {None, slot}
AfterFailedReplace(t) == {slot, None, t}
AfterRestore(t) == {slot, t}

GrantOf(r) == IF r \in Token THEN {r.grant} ELSE {}
SetAdrift(grants, why) ==
    adrift' = [g \in Grant |-> IF g \in grants THEN why ELSE adrift[g]]

(* The exclusive file lock, polled until it is free; closing the file or    *)
(* the end of the process releases it.                                     *)
TakeNoLock(p) == UNCHANGED lock    \* variant: the lock is not exclusive
TakeLock(p) == lock' = p
KeepLock == UNCHANGED lock         \* variant: an exit that does not unlock
ReleaseLock == lock' = None

-----------------------------------------------------------------------------
(* Account: the check every authenticated command starts with. *)

(* LoadAccess reads the record without the lock and decides from its clock *)
(* whether the access token is fresh enough.                               *)
LoadAccess(p, why) ==
    /\ slot \in Token
    /\ Keep(p, slot)
    /\ purpose' = [purpose EXCEPT ![p] = why]
    /\ \E l \in {"account", "refresh"} : Goto(p, l)
    /\ UNCHANGED <<slot, lock, previous, attempt, retried>>
    /\ UNCHANGED server /\ UNCHANGED history

StartUse(p) ==
    /\ pc[p] = Idle
    /\ LoadAccess(p, "use")

(* GetUser and ListWorkspaces: success needs a grant that is still active; *)
(* a 401 or another failure may come back at any time.                     *)
AccountOk(p) ==
    /\ pc[p] = "account"
    /\ status[held[p].grant] = "active"
    /\ Done(p)
    /\ UNCHANGED <<slot, lock>>
    /\ UNCHANGED server /\ UNCHANGED history

AccountUnauthorized(p) ==
    /\ pc[p] = "account"
    /\ p \notin retried
    /\ Goto(p, "refresh")
    /\ retried' = retried \cup {p}
    /\ UNCHANGED <<slot, lock, held, previous, attempt, purpose>>
    /\ UNCHANGED server /\ UNCHANGED history

AccountError(p) ==
    /\ pc[p] = "account"
    /\ AccountFails(p, FALSE)
    /\ UNCHANGED <<slot, lock>>
    /\ UNCHANGED server /\ UNCHANGED history

-----------------------------------------------------------------------------
(* refresh *)

KeepStale(p) == UNCHANGED held     \* variant: the refresh does not reload
Reload(p) == Keep(p, slot)

(* The lock is free: reload the record under it.  A different access token *)
(* that is fresh was obtained by another process and is adopted.           *)
RefreshBegin(p) ==
    /\ pc[p] = "refresh"
    /\ lock = None
    /\ IF slot \notin Token
         THEN /\ AccountFails(p, TRUE)
              /\ UNCHANGED lock
         ELSE /\ Reload(p)
              /\ \/ /\ slot # held[p]
                    /\ Goto(p, "account")
                    /\ UNCHANGED <<lock, attempt>>
                 \/ /\ TakeLock(p)
                    /\ Goto(p, "send")
                    /\ attempt' = [attempt EXCEPT ![p] = 0]
              /\ UNCHANGED <<previous, retried, purpose>>
    /\ UNCHANGED slot /\ UNCHANGED server /\ UNCHANGED history

(* The wait for the lock is cancelled, or the record cannot be read. *)
RefreshUnavailable(p) ==
    /\ pc[p] = "refresh"
    /\ AccountFails(p, FALSE)
    /\ UNCHANGED <<slot, lock>>
    /\ UNCHANGED server /\ UNCHANGED history

(* How the server answers a refresh token, and what that does to the grant. *)
Rotates(t) ==
    /\ status[t.grant] = "active"
    /\ t.gen = gen[t.grant]
    /\ t.gen < MaxGen
    /\ gen' = [gen EXCEPT ![t.grant] = @ + 1]
    /\ window' = window \cup {t.grant}
    /\ UNCHANGED status

ServesAgain(t) ==
    /\ status[t.grant] = "active"
    /\ Recoverable(t)
    /\ UNCHANGED server

(* Reuse of a consumed token ends the whole grant. *)
Reuse(t) ==
    /\ status[t.grant] = "active"
    /\ Consumed(t)
    /\ status' = [status EXCEPT ![t.grant] = "ended"]
    /\ UNCHANGED <<gen, window>>

Refuses(t) ==
    \/ Reuse(t)
    \/ status[t.grant] = "ended" /\ UNCHANGED server

(* The locked section ends without a recorded rotation. *)
MarkLost(t) ==
    lost' = IF status'[t.grant] = "active" /\ t.gen < gen'[t.grant]
              THEN lost \cup {t.grant} ELSE lost

(* What may have happened on the server when no usable answer arrives. *)
Unanswered(t) ==
    Rotates(t) \/ ServesAgain(t) \/ Refuses(t) \/ UNCHANGED server

SendAnswered(p) ==
    /\ pc[p] = "send"
    /\ Rotates(held[p]) \/ ServesAgain(held[p])
    /\ Keep(p, [held[p] EXCEPT !.gen = @ + 1])
    /\ Goto(p, "saveRefresh")
    /\ UNCHANGED <<slot, lock, previous, attempt, retried, purpose>>
    /\ UNCHANGED history

(* invalid_grant *)
SendRefused(p) ==
    /\ pc[p] = "send"
    /\ Refuses(held[p])
    /\ Goto(p, "expired")
    /\ UNCHANGED <<slot, lock, held, previous, attempt, retried, purpose>>
    /\ UNCHANGED history

MayRetryOnceMore(p) == attempt[p] <= refreshRetryLimit  \* variant: off by one
MayRetry(p) == attempt[p] < refreshRetryLimit

(* A lost answer, a 5xx or a truncated 2xx is retried with the same token. *)
SendRetried(p) ==
    /\ pc[p] = "send"
    /\ MayRetry(p)
    /\ Unanswered(held[p])
    /\ attempt' = [attempt EXCEPT ![p] = @ + 1]
    /\ UNCHANGED <<slot, lock, pc, held, previous, retried, purpose>>
    /\ UNCHANGED history

(* The last retry, a cancelled command, or an error that is not retried. *)
SendFails(p) ==
    /\ pc[p] = "send"
    /\ Unanswered(held[p])
    /\ ReleaseLock
    /\ AccountFails(p, FALSE)
    /\ MarkLost(held[p])
    /\ UNCHANGED <<slot, adrift>>

(* A failed save ends the command: the new pair is in no store. *)
SaveRefresh(p) ==
    /\ pc[p] = "saveRefresh"
    /\ ReleaseLock
    /\ \/ /\ slot' = held[p]
          /\ Goto(p, "account")
          /\ attempt' = [attempt EXCEPT ![p] = 0]
          /\ lost' = lost \ {held[p].grant}
          /\ UNCHANGED <<held, previous, retried, purpose>>
       \/ /\ AccountFails(p, FALSE)
          /\ lost' = lost \cup {held[p].grant}
          /\ UNCHANGED slot
    /\ UNCHANGED adrift /\ UNCHANGED server

(* invalid_grant: the record can never work again; a failure to delete it  *)
(* is ignored.                                                             *)
RefreshExpired(p) ==
    /\ pc[p] = "expired"
    /\ ReleaseLock
    /\ slot' \in AfterDelete
    /\ AccountFails(p, TRUE)
    /\ UNCHANGED server /\ UNCHANGED history

-----------------------------------------------------------------------------
(* login *)

(* RenewableLogin: without a record that can still be renewed (none, one   *)
(* that is unusable, unreadable or expired) login asks for authorization;  *)
(* otherwise refuseSecondLogin checks the stored login first.              *)
StartLogin(p) ==
    /\ pc[p] = Idle
    /\ \E l \in {"authorize"} \cup (IF slot \in Token THEN {"check"} ELSE {}) :
          Goto(p, l)
    /\ UNCHANGED <<slot, lock, held, previous, attempt, retried, purpose>>
    /\ UNCHANGED server /\ UNCHANGED history

SecondLogin(p) ==
    /\ pc[p] = "check"
    /\ \/ LoadAccess(p, "secondLogin")
       \/ /\ slot \notin Token
          /\ Goto(p, "authorize")
          /\ UNCHANGED <<slot, lock, held, previous, attempt, retried, purpose>>
          /\ UNCHANGED server /\ UNCHANGED history

CheckError(p) ==
    /\ pc[p] = "check"
    /\ Done(p)
    /\ UNCHANGED <<slot, lock>>
    /\ UNCHANGED server /\ UNCHANGED history

(* The user authorizes: the server creates a grant.  Its tokens may never  *)
(* arrive.                                                                 *)
Authorize(p, g) ==
    /\ pc[p] = "authorize"
    /\ status[g] = "none"
    /\ status' = [status EXCEPT ![g] = "active"]
    /\ \/ /\ Keep(p, [grant |-> g, gen |-> 0])
          /\ Goto(p, "saveLogin")
          /\ UNCHANGED <<previous, attempt, retried, purpose>>
          /\ UNCHANGED history
       \/ /\ Done(p)
          /\ SetAdrift({g}, "stranded")
          /\ UNCHANGED lost
    /\ UNCHANGED <<slot, lock, gen, window>>

AuthorizeFails(p) ==
    /\ pc[p] = "authorize"
    /\ Done(p)
    /\ UNCHANGED <<slot, lock>>
    /\ UNCHANGED server /\ UNCHANGED history

(* Replace under the lock: SaveLogin succeeds and remembers what to restore, *)
(* or the issued login is revoked.                                         *)
ReplaceRecord(p, before) ==
    \/ /\ slot' = held[p]
       /\ Goto(p, "saveConfig")
       /\ previous' = [previous EXCEPT ![p] = before]
    \/ /\ slot' \in AfterFailedReplace(held[p])
       /\ Goto(p, "revokeIssued")
       /\ UNCHANGED previous

(* SaveLogin: a stored login that is not expired is never replaced. *)
SaveLogin(p) ==
    /\ pc[p] = "saveLogin"
    /\ lock = None
    /\ slot \in Token => MayLapse(slot)
    /\ ReplaceRecord(p, IF slot \in Token THEN slot ELSE None)
    /\ UNCHANGED <<lock, held, attempt, retried, purpose>>
    /\ UNCHANGED server /\ UNCHANGED history

(* A keyring that cannot be read counts as no login: Replace may put the    *)
(* new login over one that works, and nobody is told.                      *)
SaveLoginUnreadable(p) ==
    /\ pc[p] = "saveLogin"
    /\ lock = None
    /\ ReplaceRecord(p, None)
    /\ SetAdrift(GrantOf(slot) \ GrantOf(slot'), "overwritten")
    /\ UNCHANGED <<lock, held, attempt, retried, purpose, lost>>
    /\ UNCHANGED server

(* Another login is stored, the record cannot be read, or the wait for the *)
(* lock is cancelled.                                                      *)
SaveLoginFails(p) ==
    /\ pc[p] = "saveLogin"
    /\ Goto(p, "revokeIssued")
    /\ UNCHANGED <<slot, lock, held, previous, attempt, retried, purpose>>
    /\ UNCHANGED server /\ UNCHANGED history

(* config.Save.  What follows a success is an ordinary command: the        *)
(* workspace setup reads the account again.                                *)
SaveConfig(p) ==
    /\ pc[p] = "saveConfig"
    /\ \/ Done(p)
       \/ /\ Goto(p, "restore")
          /\ UNCHANGED <<held, previous, attempt, retried, purpose>>
    /\ UNCHANGED <<slot, lock>>
    /\ UNCHANGED server /\ UNCHANGED history

RestoreAlways(p) == TRUE           \* variant: restores without comparing
StillWritten(p) == slot = held[p]

(* RestoreLogin, under the lock: only while the record still holds the     *)
(* tokens SaveLogin wrote.                                                 *)
RestoreLogin(p) ==
    /\ pc[p] = "restore"
    /\ lock = None
    /\ IF StillWritten(p)
         THEN slot' \in IF previous[p] \in Token
                          THEN AfterRestore(previous[p]) ELSE AfterDelete
         ELSE UNCHANGED slot
    /\ Goto(p, "revokeIssued")
    /\ previous' = [previous EXCEPT ![p] = None]
    /\ UNCHANGED <<lock, held, attempt, retried, purpose>>
    /\ UNCHANGED server /\ UNCHANGED history

RestoreFails(p) ==
    /\ pc[p] = "restore"
    /\ Goto(p, "revokeIssued")
    /\ previous' = [previous EXCEPT ![p] = None]
    /\ UNCHANGED <<slot, lock, held, attempt, retried, purpose>>
    /\ UNCHANGED server /\ UNCHANGED history

(* RevokeToken: the answer says so or not, the grant ends or stays. *)
EndGrant(g) == status' = [status EXCEPT ![g] = "ended"]

(* revokeIssuedLogin ignores a failure: the command's error is about the   *)
(* login that was not saved, and says nothing of the grant.                *)
RevokeIssued(p) ==
    /\ pc[p] = "revokeIssued"
    /\ Done(p)
    /\ \/ EndGrant(held[p].grant) /\ UNCHANGED history
       \/ /\ SetAdrift({held[p].grant}, "stranded")
          /\ UNCHANGED <<status, lost>>
    /\ UNCHANGED <<slot, lock, gen, window>>

-----------------------------------------------------------------------------
(* logout *)

(* Logout keeps the lock from here until the record is deleted. *)
StartLogout(p) ==
    /\ pc[p] = Idle
    /\ lock = None
    /\ slot \in Token
    /\ TakeLock(p)
    /\ Keep(p, slot)
    /\ Goto(p, "revokeLogout")
    /\ UNCHANGED <<slot, previous, attempt, retried, purpose>>
    /\ UNCHANGED server /\ UNCHANGED history

(* Nothing usable is stored: the stores are cleaned up all the same. *)
CleanLogout(p) ==
    /\ pc[p] = Idle
    /\ lock = None
    /\ slot \notin Token
    /\ slot' \in AfterDelete
    /\ UNCHANGED lock
    /\ UNCHANGED server /\ UNCHANGED local /\ UNCHANGED history

(* The record is deleted whether or not the server confirmed; attempt      *)
(* remembers a failure, of which the command tells the user.               *)
RevokeLogout(p) ==
    /\ pc[p] = "revokeLogout"
    /\ Goto(p, "delete")
    /\ \/ /\ EndGrant(held[p].grant)
          /\ UNCHANGED attempt
       \/ /\ EndGrant(held[p].grant) \/ UNCHANGED status
          /\ attempt' = [attempt EXCEPT ![p] = 1]
    /\ UNCHANGED <<slot, lock, gen, window, held, previous, retried, purpose>>
    /\ UNCHANGED history

DeleteLogout(p) ==
    /\ pc[p] = "delete"
    /\ ReleaseLock
    /\ slot' \in AfterDelete
    /\ SetAdrift(IF attempt[p] = 1 THEN {held[p].grant} ELSE {}, "told")
    /\ Done(p)
    /\ UNCHANGED lost /\ UNCHANGED server

-----------------------------------------------------------------------------
(* A process is killed: the kernel drops its lock.  A grant that only this *)
(* process knew stays behind.                                              *)
Crash(p) ==
    /\ pc[p] # Idle
    /\ Done(p)
    /\ lock' = IF lock = p THEN None ELSE lock
    /\ SetAdrift(IF pc[p] \in {"saveLogin", "revokeIssued"}
                    THEN {held[p].grant} ELSE {}, "stranded")
    /\ lost' = IF pc[p] \in {"send", "saveRefresh"}
                    /\ GrantOf(slot) = {held[p].grant}
                    /\ Superseded(slot)
                 THEN lost \cup {held[p].grant} ELSE lost
    /\ UNCHANGED slot /\ UNCHANGED server

(* The user ends the grant in the Console, or it stays idle for too long. *)
GrantEnds(g) ==
    /\ status[g] = "active"
    /\ EndGrant(g)
    /\ UNCHANGED <<slot, lock, gen, window>>
    /\ UNCHANGED local /\ UNCHANGED history

(* A minute after a rotation its consumed token is reuse.  The retries of  *)
(* one refresh (three requests of at most 15 s, one second apart) end      *)
(* before that.                                                            *)
WindowCloses(g) ==
    /\ g \in window
    /\ \A p \in Proc : pc[p] \in {"send", "saveRefresh"} => held[p].grant # g
    /\ window' = window \ {g}
    /\ UNCHANGED <<slot, lock, status, gen>>
    /\ UNCHANGED local /\ UNCHANGED history

-----------------------------------------------------------------------------
Init ==
    /\ slot \in {None, Invalid}
    /\ lock = None
    /\ status = [g \in Grant |-> "none"]
    /\ gen = [g \in Grant |-> 0]
    /\ window = {}
    /\ pc = [p \in Proc |-> Idle]
    /\ held = [p \in Proc |-> None]
    /\ previous = [p \in Proc |-> None]
    /\ attempt = [p \in Proc |-> 0]
    /\ retried = {}
    /\ purpose = [p \in Proc |-> "use"]
    /\ lost = {}
    /\ adrift = [g \in Grant |-> "no"]

AccountStep(p) ==
    AccountOk(p) \/ AccountUnauthorized(p) \/ AccountError(p)

SendStep(p) ==
    SendAnswered(p) \/ SendRefused(p) \/ SendRetried(p) \/ SendFails(p)

RefreshStep(p) ==
    \/ RefreshBegin(p)
    \/ RefreshUnavailable(p)
    \/ SendStep(p)
    \/ SaveRefresh(p)
    \/ RefreshExpired(p)

LoginStep(p) ==
    \/ SecondLogin(p)
    \/ CheckError(p)
    \/ \E g \in Grant : Authorize(p, g)
    \/ AuthorizeFails(p)
    \/ SaveLogin(p)
    \/ SaveLoginUnreadable(p)
    \/ SaveLoginFails(p)
    \/ SaveConfig(p)
    \/ RestoreLogin(p)
    \/ RestoreFails(p)
    \/ RevokeIssued(p)

LogoutStep(p) == RevokeLogout(p) \/ DeleteLogout(p)

Start(p) ==
    \/ StartUse(p)
    \/ StartLogin(p)
    \/ StartLogout(p)
    \/ CleanLogout(p)

Step(p) == AccountStep(p) \/ RefreshStep(p) \/ LoginStep(p) \/ LogoutStep(p)

Environment == \E g \in Grant : GrantEnds(g) \/ WindowCloses(g)

Next ==
    \/ \E p \in Proc : Start(p) \/ Step(p) \/ Crash(p)
    \/ Environment

Spec == Init /\ [][Next]_vars

(* What a process does while it holds the lock: requests time out and the  *)
(* stores answer, so it goes on.  Nothing is assumed about who gets a free *)
(* lock: waiting processes poll it.                                        *)
LockedStep(p) ==
    SendStep(p) \/ SaveRefresh(p) \/ RefreshExpired(p) \/ LogoutStep(p)

FairSpec == Spec /\ \A p \in Proc : WF_vars(LockedStep(p))

-----------------------------------------------------------------------------
(* Properties *)

(* Types: the shared state and each process's memory. *)
SharedType ==
    /\ slot \in Token \cup {None, Invalid}
    /\ lock \in Proc \cup {None}
    /\ status \in [Grant -> {"none", "active", "ended"}]
    /\ gen \in [Grant -> 0..MaxGen]
    /\ window \subseteq Grant
    /\ lost \subseteq Grant
    /\ adrift \in [Grant -> {"no", "told", "stranded", "overwritten"}]

LocalType ==
    /\ pc \in [Proc -> PC]
    /\ held \in [Proc -> Token \cup {None}]
    /\ previous \in [Proc -> Token \cup {None}]
    /\ attempt \in [Proc -> 0..refreshRetryLimit]
    /\ retried \subseteq Proc
    /\ purpose \in [Proc -> {"use", "secondLogin"}]

TypeOK == SharedType /\ LocalType

(* The stored refresh token is the newest of its grant, except while the   *)
(* process that rotates it still holds the lock, or after a rotation that  *)
(* could not be recorded: no interleaving of processes stores an older     *)
(* pair over a newer one ("refresh rotates the stored refresh token under  *)
(* an exclusive file lock", manager.go:498).                               *)
RecordUsable ==
    slot \in Token /\ status[slot.grant] = "active" /\ Superseded(slot)
        => \/ slot.grant \in lost
           \/ \E p \in Proc : /\ pc[p] \in {"send", "saveRefresh"}
                               /\ held[p].grant = slot.grant

(* No process is ever about to send a refresh token whose reuse would end  *)
(* the login on the server, unless a rotation had been lost before the     *)
(* refresh began: neither a concurrent command nor a retry is punished     *)
(* ("reusing an old one revokes the login", docs/connect.md).              *)
NoReuse ==
    \A p \in Proc :
        pc[p] = "send" /\ status[held[p].grant] = "active" /\ Consumed(held[p])
            => held[p].grant \in lost

(* "A second login would leave the first grant active in ScopeDB with no   *)
(* local credential left to end it" (login.go:125).  These are all the ways *)
(* to such a grant, whatever the processes do at the same time: a rotation *)
(* was not recorded; its tokens did not arrive, could not be revoked when  *)
(* login gave them up, or went with a killed login; a login that could not *)
(* read the keyring replaced the record; or logout said that the server    *)
(* had not confirmed.  Otherwise an active grant is stored, or in the hands *)
(* of the login that obtained it: no check, refresh, logout or rollback    *)
(* drops it, and none removes another login's record.                      *)
Carries(p, g) == pc[p] \in LoginPC /\ GrantOf(held[p]) = {g}
InFlight(g) == \E p \in Proc : Carries(p, g)

NoOrphan ==
    \A g \in Grant :
        status[g] = "active" =>
            g \in GrantOf(slot) \cup lost \/ InFlight(g) \/ adrift[g] # "no"

(* "If another process completes login during authorization, the CLI       *)
(* preserves that login" (CHANGELOG.md:55): a login whose record another   *)
(* process has just written is not replaced by this one.  It is, when the  *)
(* keyring cannot be read (manager.go:173).                                *)
LoginPreserved ==
    [][\A p, q \in Proc :
          (/\ p # q /\ pc[q] = "saveConfig" /\ slot = held[q]
           /\ status[slot.grant] = "active" /\ pc[p] = "saveLogin")
              => pc'[p] # "saveConfig"]_vars

(* The grants whose login may still be installed, and what a login that is  *)
(* installed may put back.                                                  *)
Installing(p, g) == pc[p] = "saveLogin" /\ Carries(p, g)
Installed(p, g) == pc[p] \in {"saveConfig", "restore"} /\ Carries(p, g)

Installable ==
    {g \in Grant : status[g] = "none" \/ \E p \in Proc : Installing(p, g)}
Restorable ==
    [g \in Grant |-> {previous[p] : p \in {q \in Proc : Installed(q, g)}}]

(* The processes together implement the single record that LoginRecord      *)
(* describes, whatever they do at the same time and whatever fails: a login *)
(* is installed once, a refresh moves it to the next pair, and a record that *)
(* was removed stays removed ("a concurrent logout or newer login is never  *)
(* overwritten or deleted", manager.go:194).                                *)
Record == INSTANCE LoginRecord WITH
    record <- slot, fresh <- Installable, undo <- Restorable
LoginRecordSpec == Record!RecordSpec

(* A process that takes the lock gives it back, whatever the server        *)
(* answers: refresh gives up after its third request.                      *)
LockReleased == \A p \in Proc : lock = p ~> lock # p
=============================================================================
