--------------------------- MODULE WorkspaceAccess ---------------------------
(***************************************************************************)
(* The workspace selection and the cached data token, which live in the    *)
(* same credential record as the login (internal/auth/manager.go), and the *)
(* commands that read and write them: query access, workspace use, auth    *)
(* status and the workspace selection after a login.                       *)
(*                                                                         *)
(* A command works from a snapshot: the record it loaded without the lock  *)
(* and the workspaces the control plane listed.  Meanwhile other processes *)
(* refresh, select, log in and out, and workspaces come and go.  Writers   *)
(* take the file lock and reload; refresh keeps it across its request.     *)
(* What happens to the login itself is the subject of AuthManager.         *)
(***************************************************************************)
EXTENDS Naturals, FiniteSets

CONSTANTS
    Proc,           \* CLI processes
    Workspace,      \* workspace IDs
    MaxLogin,       \* bound: logins over the whole run
    MaxGen,         \* bound: refreshes per login
    OidcWorkspace,  \* SCOPEDB_WORKSPACE_ID of a CI job (any workspace), or None
    None            \* no record, no workspace, no token

Login == 1..MaxLogin
Oidc == 0
Optional(S) == S \cup {None}

(* A data token is good for one workspace, on behalf of one login or of    *)
(* the CI job.                                                             *)
Target == Workspace \cup ({OidcWorkspace} \ {None})
DataToken == [login : Login \cup {Oidc}, ws : Target]

(* login and gen stand for the access token. *)
Record == [login : Login, ws : Optional(Workspace), gen : 0..MaxGen,
           data : Optional(DataToken)]

ASSUME WorkspaceAssumption ==
    /\ MaxLogin \in Nat \ {0} /\ MaxGen \in Nat
    /\ None \notin Workspace /\ None \notin Proc /\ None \notin Record

VARIABLES
    record,     \* the stored record
    lock,       \* the process that holds the file lock
    logins,     \* logins issued so far
    open,       \* workspaces the account can access and that stay
    pc,         \* what each process does next
    cmd,        \* the command it runs
    state,      \* the record it works with
    target,     \* the workspace it resolved or is about to select
    access,     \* the data token it queries with
    previous,   \* the record its login replaced, for RestoreLogin
    sawLogin    \* history: queries that found a stored login first

local == <<pc, cmd, state, target, access, previous, sawLogin>>
vars == <<record, lock, logins, open, local>>

Commands == {"query", "use", "status", "login", "loginTo"}
PC == {"idle", "config", "restore", "load", "account", "account2", "refresh", "refresh2", "refreshX",
       "send", "send2", "sendX", "workspace", "exchange", "exchange2",
       "saveData", "clear", "select", "oidc", "deliver"}
Installed == {"config", "restore"}

(* refresh returns to where its caller goes on. *)
Resume == [refresh |-> "account", refresh2 |-> "account2", refreshX |-> "exchange2"]
Sending == [refresh |-> "send", refresh2 |-> "send2", refreshX |-> "sendX"]
Waiting == DOMAIN Resume
Locked == {"send", "send2", "sendX"}
After(s) == Resume[CHOOSE r \in Waiting : Sending[r] = s]

SameToken(a, b) == a.login = b.login /\ a.gen = b.gen

-----------------------------------------------------------------------------
(* Helpers *)

Goto(p, l) == pc' = [pc EXCEPT ![p] = l]

Done(p) ==
    /\ Goto(p, "idle")
    /\ cmd' = [cmd EXCEPT ![p] = "query"]
    /\ state' = [state EXCEPT ![p] = None]
    /\ target' = [target EXCEPT ![p] = None]
    /\ access' = [access EXCEPT ![p] = None]
    /\ previous' = [previous EXCEPT ![p] = None]
    /\ sawLogin' = sawLogin \ {p}

Fails(p) ==
    /\ Done(p)
    /\ UNCHANGED <<record, lock, logins, open>>

(* What a command remembers of a record it read: only a query uses the     *)
(* cached data token.                                                      *)
Kept(p, r) == IF cmd[p] = "query" THEN r ELSE [r EXCEPT !.data = None]

(* A step that only moves p and what it remembers. *)
OnlyLocal == UNCHANGED <<record, lock, logins, open>>

-----------------------------------------------------------------------------
(* Starting a command *)

(* ResolveDataAccess loads once to tell "no usable login" apart.  A keyring *)
(* that cannot be read counts as none, whatever it holds.                   *)
StartQuery(p) ==
    /\ pc[p] = "idle"
    /\ \/ /\ OidcWorkspace # None
          /\ Goto(p, "oidc")
          /\ UNCHANGED sawLogin
       \/ /\ record # None
          /\ Goto(p, "load")
          /\ sawLogin' = sawLogin \cup {p}
    /\ cmd' = [cmd EXCEPT ![p] = "query"]
    /\ UNCHANGED <<state, target, access, previous>> /\ OnlyLocal

StartUse(p, w) ==
    /\ pc[p] = "idle"
    /\ record # None
    /\ Goto(p, "load")
    /\ cmd' = [cmd EXCEPT ![p] = "use"]
    /\ target' = [target EXCEPT ![p] = w]
    /\ UNCHANGED <<state, access, previous, sawLogin>> /\ OnlyLocal

StartStatus(p) ==
    /\ pc[p] = "idle"
    /\ record # None
    /\ Goto(p, "load")
    /\ cmd' = [cmd EXCEPT ![p] = "status"]
    /\ UNCHANGED <<state, target, access, previous, sawLogin>> /\ OnlyLocal

(* The selection survives the login that SaveLogin puts in its place. *)
NewLogin(before) ==
    [login |-> logins + 1, ws |-> IF before = None THEN None ELSE before.ws,
     gen |-> 0, data |-> None]

(* SaveLogin: nothing usable is stored, or what is stored has expired, or   *)
(* the keyring cannot be read, which counts as nothing stored.  A failed    *)
(* Replace ends the command.  requested is --workspace.                     *)
StartLogin(p, requested) ==
    /\ pc[p] = "idle"
    /\ lock = None
    /\ logins < MaxLogin
    /\ logins' = logins + 1
    /\ \E before \in {record, None} :
          \/ /\ record' = NewLogin(before)
             /\ state' = [state EXCEPT ![p] = NewLogin(before)]
             /\ previous' = [previous EXCEPT ![p] = before]
             /\ Goto(p, "config")
             /\ cmd' = [cmd EXCEPT ![p] = IF requested = None THEN "login" ELSE "loginTo"]
             /\ target' = [target EXCEPT ![p] = requested]
             /\ UNCHANGED <<access, sawLogin>>
          \/ /\ record' \in {record, None, NewLogin(before)}
             /\ UNCHANGED local
    /\ UNCHANGED <<lock, open>>

(* config.Save; the workspace of the login is chosen after it. *)
SaveConfig(p) ==
    /\ pc[p] = "config"
    /\ \/ /\ Goto(p, "load")
          /\ state' = [state EXCEPT ![p] = None]
          /\ previous' = [previous EXCEPT ![p] = None]
       \/ Goto(p, "restore") /\ UNCHANGED <<state, previous>>
    /\ UNCHANGED <<cmd, target, access, sawLogin>> /\ OnlyLocal

(* RestoreLogin: what SaveLogin replaced comes back with its selection, if  *)
(* the record still has the tokens SaveLogin wrote and the store does not   *)
(* fail.                                                                    *)
RestoreLogin(p) ==
    /\ pc[p] = "restore"
    /\ lock = None
    /\ record' \in IF record # None /\ SameToken(record, state[p])
                     THEN {record, previous[p]} ELSE {record}
    /\ Done(p)
    /\ UNCHANGED <<lock, logins, open>>

RestoreFails(p) == pc[p] = "restore" /\ Fails(p)

-----------------------------------------------------------------------------
(* Account *)

(* LoadAccess: the access token looks fresh, or is refreshed first.  A     *)
(* login that is gone by now is an error: OIDC does not take over.         *)
LoadOrFallBack(p) ==  \* variant: OIDC takes over from a login that is gone
    /\ pc[p] = "load"
    /\ IF record = None
         THEN /\ IF OidcWorkspace # None THEN Goto(p, "oidc") ELSE Goto(p, "idle")
              /\ UNCHANGED state
         ELSE /\ state' = [state EXCEPT ![p] = Kept(p, record)]
              /\ \E l \in {"account", "refresh"} : Goto(p, l)
    /\ UNCHANGED <<cmd, target, access, previous, sawLogin>> /\ OnlyLocal

Load(p) ==
    /\ pc[p] = "load"
    /\ record # None
    /\ state' = [state EXCEPT ![p] = Kept(p, record)]
    /\ \E l \in {"account", "refresh"} : Goto(p, l)
    /\ UNCHANGED <<cmd, target, access, previous, sawLogin>> /\ OnlyLocal

LoadFails(p) == pc[p] = "load" /\ Fails(p)

(* A 401 from GetUser or ListWorkspaces is answered by one refresh; the    *)
(* second one, and any other failure, ends the command.                    *)
AccountUnauthorized(p) ==
    /\ pc[p] = "account"
    /\ Goto(p, "refresh2")
    /\ UNCHANGED <<cmd, state, target, access, previous, sawLogin>> /\ OnlyLocal

AccountFails(p) == pc[p] \in {"account", "account2"} /\ Fails(p)

(* Account succeeded.  What the command decides from it needs no further   *)
(* request, so it belongs to the same step.                                *)
Accounted(p, c) ==
    /\ pc[p] \in {"account", "account2"}
    /\ cmd[p] = c
    /\ OnlyLocal

(* RequireWorkspace: a workspace is selected, listed and not being deleted. *)
RequireListed(p) ==  \* variant: forgets the login without a selection
    state[p].ws # None => state[p].ws \in open
RequireWorkspace(p) == state[p].ws \in open

(* This command keeps the target it resolves here. *)
QueryAccount(p) ==
    /\ Accounted(p, "query")
    /\ RequireWorkspace(p)
    /\ target' = [target EXCEPT ![p] = state[p].ws]
    /\ Goto(p, "workspace")
    /\ UNCHANGED <<cmd, state, access, previous, sawLogin>>

UseAccount(p) ==
    /\ Accounted(p, "use")
    /\ target[p] \in open
    /\ IF target[p] # state[p].ws
         THEN /\ Goto(p, "select")
              /\ state' = [state EXCEPT ![p] = None]
              /\ UNCHANGED <<cmd, target, access, previous, sawLogin>>
         ELSE Done(p)

(* The selection is cleared when it is no longer available. *)
StatusAccount(p) ==
    /\ Accounted(p, "status")
    /\ IF state[p].ws # None /\ state[p].ws \notin open
         THEN /\ Goto(p, "clear")
              /\ state' = [state EXCEPT ![p] = None]
              /\ UNCHANGED <<cmd, target, access, previous, sawLogin>>
         ELSE Done(p)

(* selectLoginWorkspace: a selection that is no longer available is cleared *)
(* first.  Without --workspace an available one is kept, otherwise the      *)
(* first by ID (any, here) is taken.                                        *)
LoginAccount(p) ==
    LET stale == state[p].ws # None /\ state[p].ws \notin open
        wanted == IF cmd[p] = "loginTo" THEN {target[p]} \cap open
                  ELSE IF state[p].ws \in open THEN {} ELSE open
    IN  /\ \E c \in {"login", "loginTo"} : Accounted(p, c)
        /\ \E w \in IF wanted = {} THEN {None} ELSE wanted :
              IF stale \/ w # None
                THEN /\ Goto(p, IF stale THEN "clear" ELSE "select")
                     /\ target' = [target EXCEPT ![p] = w]
                     /\ UNCHANGED <<cmd, state, access, previous, sawLogin>>
                ELSE Done(p)

-----------------------------------------------------------------------------
(* refresh: see AuthManager; here only what it does to the record *)

RefreshAdopts(p) ==
    /\ pc[p] \in Waiting
    /\ lock = None
    /\ record # None
    /\ ~SameToken(record, state[p])
    /\ state' = [state EXCEPT ![p] = Kept(p, record)]
    /\ Goto(p, Resume[pc[p]])
    /\ UNCHANGED <<cmd, target, access, previous, sawLogin>> /\ OnlyLocal

ReadLocked(p) == state' = [state EXCEPT ![p] = record]

RefreshBegins(p) ==
    /\ pc[p] \in Waiting
    /\ lock = None
    /\ record # None
    /\ lock' = p
    /\ ReadLocked(p)
    /\ Goto(p, Sending[pc[p]])
    /\ UNCHANGED <<record, logins, open, cmd, target, access, previous, sawLogin>>

RefreshUnavailable(p) == pc[p] \in Waiting /\ Fails(p)

(* Everything but the tokens is written back as it was reloaded. *)
RefreshSaves(p) ==
    /\ pc[p] \in Locked
    /\ state[p].gen < MaxGen
    /\ record' = [state[p] EXCEPT !.gen = @ + 1]
    /\ state' = [state EXCEPT ![p] = Kept(p, record')]
    /\ lock' = None
    /\ Goto(p, After(pc[p]))
    /\ UNCHANGED <<logins, open, cmd, target, access, previous, sawLogin>>

(* No answer, a failed save, or invalid_grant, which removes the record. *)
RefreshFails(p) ==
    /\ pc[p] \in Locked
    /\ record' \in {record, None}
    /\ lock' = None
    /\ Done(p)
    /\ UNCHANGED <<logins, open>>

-----------------------------------------------------------------------------
(* The rest of ResolveDataAccess *)

(* GetWorkspace says ready.  A cached token for this workspace is used     *)
(* while it looks fresh.                                                   *)
UseAnyCached(p) == state[p].data # None  \* variant: ignores the token's workspace
Cached(p) == state[p].data # None /\ state[p].data.ws = target[p]

WorkspaceReady(p) ==
    /\ pc[p] = "workspace"
    /\ \/ /\ Cached(p)
          /\ access' = [access EXCEPT ![p] = state[p].data]
          /\ state' = [state EXCEPT ![p] = None]
          /\ Goto(p, "deliver")
       \/ /\ Goto(p, "exchange")
          /\ UNCHANGED <<access, state>>
    /\ UNCHANGED <<cmd, target, previous, sawLogin>> /\ OnlyLocal

ExchangeUnauthorized(p) ==
    /\ pc[p] = "exchange"
    /\ Goto(p, "refreshX")
    /\ UNCHANGED <<cmd, state, target, access, previous, sawLogin>> /\ OnlyLocal

Exchange(p) ==
    /\ pc[p] \in {"exchange", "exchange2"}
    /\ access' = [access EXCEPT ![p] = [login |-> state[p].login, ws |-> target[p]]]
    /\ Goto(p, "saveData")
    /\ UNCHANGED <<cmd, state, target, previous, sawLogin>> /\ OnlyLocal

AccessFails(p) ==
    /\ pc[p] \in {"workspace", "exchange", "exchange2", "saveData", "oidc"}
    /\ Fails(p)

(* saveDataToken merges into the record that is there now, if it still has *)
(* the access token the data token was exchanged for.                      *)
SaveStaleRecord(p) ==  \* variant: writes back the state loaded before
    /\ pc[p] = "saveData"
    /\ lock = None
    /\ record' = IF record # None /\ record.login = state[p].login
                   THEN [state[p] EXCEPT !.data = access[p]] ELSE record
    /\ Goto(p, "deliver")
    /\ state' = [state EXCEPT ![p] = None]
    /\ UNCHANGED <<lock, logins, open, cmd, target, access, previous, sawLogin>>

SaveAlways(p) ==  \* variant: merges without comparing the access token
    /\ pc[p] = "saveData"
    /\ lock = None
    /\ record' = IF record # None
                   THEN [record EXCEPT !.data = access[p]] ELSE record
    /\ Goto(p, "deliver")
    /\ state' = [state EXCEPT ![p] = None]
    /\ UNCHANGED <<lock, logins, open, cmd, target, access, previous, sawLogin>>

SaveDataToken(p) ==
    /\ pc[p] = "saveData"
    /\ lock = None
    /\ record' = IF record # None /\ SameToken(record, state[p])
                   THEN [record EXCEPT !.data = access[p]] ELSE record
    /\ Goto(p, "deliver")
    /\ state' = [state EXCEPT ![p] = None]
    /\ UNCHANGED <<lock, logins, open, cmd, target, access, previous, sawLogin>>

(* exchangeAccessFromOIDC: nothing is stored. *)
ExchangeOidc(p) ==
    /\ pc[p] = "oidc"
    /\ access' = [access EXCEPT ![p] = [login |-> Oidc, ws |-> OidcWorkspace]]
    /\ target' = [target EXCEPT ![p] = OidcWorkspace]
    /\ Goto(p, "deliver")
    /\ UNCHANGED <<cmd, state, previous, sawLogin>> /\ OnlyLocal

Deliver(p) == pc[p] = "deliver" /\ Fails(p)

-----------------------------------------------------------------------------
(* SelectWorkspace: the record is reloaded under the lock; a change drops  *)
(* the cached data token.                                                  *)

Selected(w) ==
    record' = IF record.ws = w THEN record
              ELSE [record EXCEPT !.ws = w, !.data = None]

Clear(p) ==
    /\ pc[p] = "clear"
    /\ lock = None
    /\ record # None
    /\ Selected(None)
    /\ IF cmd[p] \in {"login", "loginTo"} /\ target[p] # None
         THEN Goto(p, "select") /\ UNCHANGED <<cmd, state, target, access, previous, sawLogin>>
         ELSE Done(p)
    /\ UNCHANGED <<lock, logins, open>>

Select(p) ==
    /\ pc[p] = "select"
    /\ lock = None
    /\ record # None
    /\ Selected(target[p])
    /\ Done(p)
    /\ UNCHANGED <<lock, logins, open>>

SelectFails(p) == pc[p] \in {"clear", "select"} /\ Fails(p)

-----------------------------------------------------------------------------
(* A killed process gives its lock back. *)
Crash(p) ==
    /\ pc[p] # "idle"
    /\ Done(p)
    /\ lock' = IF lock = p THEN None ELSE lock
    /\ UNCHANGED <<record, logins, open>>

(* Logout keeps the lock while it revokes; the record is deleted at last.  *)
Logout ==
    /\ lock = None
    /\ record # None
    /\ record' = None
    /\ UNCHANGED <<lock, logins, open, local>>

(* In the Console workspaces are created, shared and restored, and they    *)
(* are scheduled for deletion, unshared and removed.                       *)
OpenChanges(w) ==
    /\ open' = IF w \in open THEN open \ {w} ELSE open \cup {w}
    /\ UNCHANGED <<record, lock, logins, local>>

-----------------------------------------------------------------------------
Init ==
    /\ record = None
    /\ lock = None
    /\ logins = 0
    /\ open \in SUBSET Workspace
    /\ pc = [p \in Proc |-> "idle"]
    /\ cmd = [p \in Proc |-> "query"]
    /\ state = [p \in Proc |-> None]
    /\ target = [p \in Proc |-> None]
    /\ access = [p \in Proc |-> None]
    /\ previous = [p \in Proc |-> None]
    /\ sawLogin = {}

StartStep(p) ==
    \/ StartQuery(p)
    \/ \E w \in Workspace : StartUse(p, w)
    \/ StartStatus(p)
    \/ \E w \in Optional(Workspace) : StartLogin(p, w)

LoginStep(p) == SaveConfig(p) \/ RestoreLogin(p) \/ RestoreFails(p)

AccountStep(p) ==
    \/ Load(p) \/ LoadFails(p)
    \/ AccountUnauthorized(p) \/ AccountFails(p)
    \/ QueryAccount(p) \/ UseAccount(p) \/ StatusAccount(p) \/ LoginAccount(p)

RefreshStep(p) ==
    \/ RefreshAdopts(p) \/ RefreshBegins(p) \/ RefreshUnavailable(p)
    \/ RefreshSaves(p) \/ RefreshFails(p)

AccessStep(p) ==
    \/ WorkspaceReady(p) \/ ExchangeUnauthorized(p) \/ Exchange(p)
    \/ AccessFails(p) \/ SaveDataToken(p) \/ ExchangeOidc(p) \/ Deliver(p)

SelectStep(p) == Clear(p) \/ Select(p) \/ SelectFails(p)

Next ==
    \/ \E p \in Proc :
          \/ StartStep(p) \/ LoginStep(p) \/ AccountStep(p)
          \/ RefreshStep(p) \/ AccessStep(p) \/ SelectStep(p) \/ Crash(p)
    \/ Logout
    \/ \E w \in Workspace : OpenChanges(w)

Spec == Init /\ [][Next]_vars

-----------------------------------------------------------------------------
(* Properties *)

(* Types of the record and of what each process remembers. *)
TypeOK ==
    /\ record \in Optional(Record)
    /\ lock \in Optional(Proc)
    /\ logins \in 0..MaxLogin
    /\ open \subseteq Workspace
    /\ pc \in [Proc -> PC]
    /\ cmd \in [Proc -> Commands]
    /\ state \in [Proc -> Optional(Record)]
    /\ target \in [Proc -> Optional(Target)]
    /\ access \in [Proc -> Optional(DataToken)]
    /\ previous \in [Proc -> Optional(Record)]
    /\ sawLogin \subseteq Proc

(* A query goes to the workspace it resolved: neither a selection another   *)
(* process makes meanwhile nor a token cached for an earlier selection      *)
(* redirects it ("this command keeps its resolved target", manager.go:375). *)
AccessMatchesTarget ==
    \A p \in Proc : pc[p] = "deliver" => access[p].ws = target[p]

(* The cached data token was exchanged for the login that is stored: a slow *)
(* query cannot put a token of the previous login into the record of the    *)
(* next one (saveDataToken compares access tokens, manager.go:423-447).     *)
CachedTokenBelongs ==
    record # None /\ record.data # None => record.data.login = record.login

(* Of the tokens the record holds, LoginRecord: whose they are, and which;  *)
(* and what a login that is being installed may put back.                   *)
TokensOf(r) == IF r = None THEN None ELSE [grant |-> r.login, gen |-> r.gen]
Installing(p, l) == pc[p] \in Installed /\ state[p].login = l
Restorable ==
    [l \in Login |-> {TokensOf(previous[p]) : p \in {q \in Proc : Installing(q, l)}}]

Tokens == INSTANCE LoginRecord WITH
    Grant <- Login,
    record <- TokensOf(record),
    fresh <- Login \ 1..logins,
    undo <- Restorable,
    Invalid <- None

(* What may change the selection of the profile while it has a record: a    *)
(* command that selects; a login that could not read the record it replaced *)
(* and starts without a selection; and the rollback of a login, which       *)
(* brings the replaced record back with the selection of that time.         *)
Selects(p) == pc[p] \in {"clear", "select"} /\ pc'[p] # pc[p]
StartsUnselected == record'.login \notin 1..logins /\ record'.ws = None
RollsBack(p) ==
    /\ pc[p] = "restore" /\ pc'[p] # pc[p]
    /\ SameToken(record, state[p])
    /\ record' = previous[p]

(* Writers merge (writing back a snapshot "would revert a concurrent        *)
(* rotation or workspace selection", manager.go:421-422).  Seen from        *)
(* outside the tokens are the single record of LoginRecord, although        *)
(* commands also write it to cache a data token or a selection: no late     *)
(* save brings back a record that was logged out, older tokens or an        *)
(* earlier login.  And a selection is changed by nothing but the three      *)
(* cases above: no refresh, cached token or new login that could read the   *)
(* record reverts it, whoever made it meanwhile.                            *)
NoRevert ==
    /\ Tokens!RecordSpec
    /\ [][record # None /\ record' # None /\ record'.ws # record.ws =>
             StartsUnselected \/ \E p \in Proc : Selects(p) \/ RollsBack(p)]_vars

(* "Once a login has been selected, a refresh or save failure must surface  *)
(* instead of letting the OIDC exchange take over" (manager.go:357-358): a  *)
(* query that read a login at first never ends with the CI job's token,     *)
(* also when that login is logged out, replaced or refused meanwhile.  (It  *)
(* is the first read that decides: a login in a keyring that cannot be read *)
(* then does not count.)                                                    *)
NoOidcAfterLogin ==
    \A p \in Proc : p \in sawLogin /\ access[p] # None => access[p].login # Oidc

(* "Without [--workspace], the login keeps the workspace already selected   *)
(* for the profile if the account can still access it and it is not         *)
(* scheduled for deletion" (README.md:67): a login does not take away an    *)
(* available selection, also one that another process made after this login *)
(* looked.                                                                  *)
LoginKeepsSelection ==
    [][\A p \in Proc :
          (/\ cmd[p] = "login" /\ pc[p] \in {"clear", "select"} /\ pc'[p] # pc[p]
           /\ record # None /\ record' # None
           /\ record.ws # state[p].ws /\ record'.ws # record.ws)
          => record.ws \notin open]_vars
=============================================================================
