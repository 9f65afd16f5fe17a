---------------------------- MODULE Configuration ----------------------------
(***************************************************************************)
(* config.toml (internal/config/config.go) names the server that commands  *)
(* work with unless a flag or an environment variable names another one.   *)
(* Only scope auth login writes it, after the credentials of the login are *)
(* stored and without the credential lock; when that write fails the login *)
(* is undone (internal/command/login.go, persistLogin).                    *)
(*                                                                         *)
(* Users log in to several servers from several terminals, kill commands,  *)
(* lose power, and do what the CLI's hints say until they are logged in.   *)
(* Credential records are per server; what a login is to the server and    *)
(* how a record is written are the subjects of AuthManager and             *)
(* CredentialStores.                                                       *)
(***************************************************************************)
EXTENDS Naturals

CONSTANTS
    Proc,       \* terminals, each with a user
    Server,     \* control URLs
    Default,    \* the built-in one
    MaxTask,    \* bound: how often anybody sets out to log in
    MaxFault,   \* bound: failures, killed commands and power losses; a keyring
                \* that cannot be read when a login is saved is one of them
    None,       \* no file, no flag, no record
    Torn        \* a file that does not parse

Content == Server \cup {None, Torn}

(* A login is that of the command that stored it; its access token is the  *)
(* one that command wrote until somebody refreshes it.                     *)
Record == [by : Proc, refreshed : BOOLEAN, status : {"valid", "revoked", "expired"}]
Optional(S) == S \cup {None}

ASSUME ConfigurationAssumption ==
    /\ Default \in Server
    /\ None \notin Server \cup Record /\ Torn \notin Server /\ None # Torn
    /\ MaxTask \in Nat /\ MaxFault \in Nat

VARIABLES
    file,       \* config.toml as commands read it
    disk,       \* what it may be after a power loss
    record,     \* server -> its credential record
    pc,         \* what each terminal does next
    want,       \* the server its user names, if any
    server,     \* the server its command resolved
    previous,   \* the record its login replaced
    tasks,      \* tasks begun
    faults,     \* faults so far
    ended       \* history: servers whose completed login has been ended,
                \* replaced unread or lost

user == <<want, tasks>>
vars == <<file, disk, record, pc, user, server, previous, faults, ended>>

PC == {"idle", "load", "check", "authorize", "save", "config", "rollback",
       "revoke", "loadLogout", "logout"}

Goto(p, l) == pc' = [pc EXCEPT ![p] = l]
Fault == faults < MaxFault /\ faults' = faults + 1
Has(s, status) == record[s] # None /\ record[s].status = status
Mine(p) == record[server[p]] # None /\ record[server[p]].by = p

-----------------------------------------------------------------------------
(* The user *)

Begin(p, s) ==
    /\ pc[p] = "idle" /\ tasks < MaxTask
    /\ tasks' = tasks + 1
    /\ want' = [want EXCEPT ![p] = s]
    /\ Goto(p, "load")
    /\ UNCHANGED <<file, disk, record, server, previous, faults, ended>>

-----------------------------------------------------------------------------
(* auth login *)

(* Load: defaults, file, and then what the user names. *)
WithoutDefault(p) ==    \* variant: a missing file is an empty address
    IF want[p] # None THEN want[p] ELSE file
FileFirst(p) ==         \* variant: the file outranks the flag
    IF file # None THEN file ELSE IF want[p] # None THEN want[p] ELSE Default
Resolved(p) ==
    IF want[p] # None THEN want[p] ELSE IF file # None THEN file ELSE Default

LoadConfig(p) ==
    /\ pc[p] \in {"load", "loadLogout"}
    /\ file # Torn
    /\ server' = [server EXCEPT ![p] = Resolved(p)]
    /\ Goto(p, IF pc[p] = "load" THEN "check" ELSE "logout")
    /\ UNCHANGED <<file, disk, record, user, previous, faults, ended>>

(* RenewableLogin and refuseSecondLogin: an expired login may be replaced;  *)
(* one the server no longer accepts is removed when that shows.             *)
CheckPasses(p) ==
    /\ pc[p] = "check"
    /\ ~Has(server[p], "valid")
    /\ record' = IF Has(server[p], "revoked")
                   THEN [record EXCEPT ![server[p]] = None] ELSE record
    /\ ended' = IF Has(server[p], "revoked") THEN ended \cup {server[p]} ELSE ended
    /\ Goto(p, "authorize")
    /\ UNCHANGED <<file, disk, user, server, previous, faults>>

(* A keyring that cannot be read counts as no login, whatever it holds.    *)
CheckUnreadable(p) ==
    /\ pc[p] = "check"
    /\ record[server[p]] # None
    /\ Goto(p, "authorize")
    /\ UNCHANGED <<file, disk, record, user, server, previous, faults, ended>>

(* "already logged in": the hint is to log out first. *)
CheckRefuses(p) ==
    /\ pc[p] = "check"
    /\ \/ Has(server[p], "valid") /\ UNCHANGED faults
       \/ Has(server[p], "revoked") /\ Fault
    /\ Goto(p, "loadLogout")
    /\ UNCHANGED <<file, disk, record, user, server, previous, ended>>

Authorized(p) ==
    /\ pc[p] = "authorize"
    /\ Goto(p, "save")
    /\ UNCHANGED <<file, disk, record, user, server, previous, faults, ended>>

(* SaveLogin, under the lock. *)
Install(p) ==
    record' = [record EXCEPT ![server[p]] =
                  [by |-> p, refreshed |-> FALSE, status |-> "valid"]]

SaveLogin(p) ==
    /\ pc[p] = "save"
    /\ IF record[server[p]] = None \/ Has(server[p], "expired")
         THEN /\ previous' = [previous EXCEPT ![p] = record[server[p]]]
              /\ Install(p)
              /\ Goto(p, "config")
         ELSE /\ Goto(p, "loadLogout")
              /\ UNCHANGED <<record, previous>>
    /\ UNCHANGED <<file, disk, user, server, faults, ended>>

(* A record that cannot be read is replaced as if there were none, and a   *)
(* rollback will not bring it back.                                        *)
SaveUnread(p) ==
    /\ pc[p] = "save"
    /\ record[server[p]] # None /\ Fault
    /\ Install(p)
    /\ previous' = [previous EXCEPT ![p] = None]
    /\ ended' = ended \cup {server[p]}
    /\ Goto(p, "config")
    /\ UNCHANGED <<file, disk, user, server>>

(* Replace fails: before it writes, after it has cleaned up what there was, *)
(* or with the new login in place.                                         *)
SaveFails(p) ==
    /\ pc[p] = "save" /\ Fault
    /\ \/ UNCHANGED <<record, ended>>
       \/ /\ Install(p) \/ record' = [record EXCEPT ![server[p]] = None]
          /\ ended' = IF record[server[p]] # None
                         THEN ended \cup {server[p]} ELSE ended
    /\ Goto(p, "revoke")
    /\ UNCHANGED <<file, disk, user, server, previous>>

(* config.Save: a temporary file is written, synced and renamed. *)
Unsynced(p) == disk \cup {server[p], Torn}  \* variant: renamed before it is synced
Synced(p) == disk \cup {server[p]}

SaveConfig(p) ==
    /\ pc[p] = "config"
    /\ file' = server[p]
    /\ disk' = Synced(p)
    /\ ended' = IF Mine(p) THEN ended \ {server[p]} ELSE ended
    /\ previous' = [previous EXCEPT ![p] = None]
    /\ Goto(p, "idle")
    /\ UNCHANGED <<record, user, server, faults>>

ConfigFails(p) ==
    /\ pc[p] = "config"
    /\ Fault
    /\ Goto(p, "rollback")
    /\ UNCHANGED <<file, disk, record, user, server, previous, ended>>

(* RestoreLogin acts on the login it wrote only, under the lock. *)
Always(p) == record[server[p]] # None   \* variant: whoever wrote it
StillWritten(p) == Mine(p) /\ ~record[server[p]].refreshed

RestoreLogin(p) ==
    /\ pc[p] = "rollback"
    /\ record' = IF StillWritten(p)
                   THEN [record EXCEPT ![server[p]] = previous[p]] ELSE record
    /\ previous' = [previous EXCEPT ![p] = None]
    /\ Goto(p, "revoke")
    /\ UNCHANGED <<file, disk, user, server, faults, ended>>

RestoreFails(p) ==
    /\ pc[p] = "rollback"
    /\ Fault
    /\ previous' = [previous EXCEPT ![p] = None]
    /\ Goto(p, "revoke")
    /\ UNCHANGED <<file, disk, record, user, server, ended>>

(* revokeIssuedLogin; its failure is not reported. *)
RevokeIssued(p) ==
    /\ pc[p] = "revoke"
    /\ \/ /\ record' = IF Mine(p) /\ Has(server[p], "valid")
                        THEN [record EXCEPT ![server[p]].status = "revoked"]
                        ELSE record
          /\ UNCHANGED faults
       \/ Fault /\ UNCHANGED record
    /\ Goto(p, "load")
    /\ UNCHANGED <<file, disk, user, server, previous, ended>>

(* auth logout, with the server named as it was before. *)
Logout(p) ==
    /\ pc[p] = "logout"
    /\ record' = [record EXCEPT ![server[p]] = None]
    /\ ended' = IF record[server[p]] # None THEN ended \cup {server[p]} ELSE ended
    /\ Goto(p, "load")
    /\ UNCHANGED <<file, disk, user, server, previous, faults>>

(* The command fails before it changes anything, and is run again. *)
Fails(p) ==
    /\ pc[p] \in {"check", "authorize", "logout"}
    /\ Fault
    /\ Goto(p, "load")
    /\ UNCHANGED <<file, disk, record, user, server, previous, ended>>

-----------------------------------------------------------------------------
(* Everything else that happens *)

Kill(p) ==
    /\ pc[p] \notin {"idle", "load", "loadLogout"}
    /\ Fault
    /\ previous' = [previous EXCEPT ![p] = None]
    /\ Goto(p, "load")
    /\ UNCHANGED <<file, disk, record, user, server, ended>>

(* A rename is not synced, in config.toml no more than in credentials.json. *)
(* So a record may be lost, or one that was removed come back, of a login  *)
(* the server has ended; which writes were safe by then is left open.      *)
Undone(s) ==
    {None, record[s]} \cup
       (IF record[s] = None THEN {r \in Record : r.refreshed /\ r.status = "revoked"}
                            ELSE {})

PowerLoss ==
    /\ Fault
    /\ file' \in disk
    /\ disk' = {file'}
    /\ pc' = [p \in Proc |-> IF pc[p] = "idle" THEN "idle" ELSE "load"]
    /\ previous' = [p \in Proc |-> None]
    /\ record' \in {r \in [Server -> Optional(Record)] : \A s \in Server : r[s] \in Undone(s)}
    /\ ended' = ended \cup {s \in Server : record[s] # None /\ record'[s] = None}
    /\ UNCHANGED <<user, server>>

(* The file system writes the rename out. *)
Flush ==
    /\ disk # {file}
    /\ disk' = {file}
    /\ UNCHANGED <<file, record, pc, user, server, previous, faults, ended>>

(* A command with this login refreshes its tokens, or the login ends: at   *)
(* its time, in the Console, or by a command that logs out or finds out.   *)
Refreshed(s) ==
    /\ Has(s, "valid") /\ ~record[s].refreshed
    /\ record' = [record EXCEPT ![s].refreshed = TRUE]
    /\ UNCHANGED <<file, disk, pc, user, server, previous, faults, ended>>

Lapses(s) ==
    /\ Has(s, "valid")
    /\ \E status \in {"revoked", "expired"} :
          record' = [record EXCEPT ![s].status = status]
    /\ UNCHANGED <<file, disk, pc, user, server, previous, faults, ended>>

LogoutElsewhere(s) ==
    /\ record[s] # None
    /\ record' = [record EXCEPT ![s] = None]
    /\ ended' = ended \cup {s}
    /\ UNCHANGED <<file, disk, pc, user, server, previous, faults>>

-----------------------------------------------------------------------------
Init ==
    /\ file = None
    /\ disk = {None}
    /\ record = [s \in Server |-> None]
    /\ pc = [p \in Proc |-> "idle"]
    /\ want = [p \in Proc |-> None]
    /\ server = [p \in Proc |-> Default]
    /\ previous = [p \in Proc |-> None]
    /\ tasks = 0
    /\ faults = 0
    /\ ended = {}

CommandStep(p) ==
    \/ LoadConfig(p) \/ CheckPasses(p) \/ CheckUnreadable(p) \/ CheckRefuses(p)
    \/ Authorized(p) \/ SaveLogin(p) \/ SaveConfig(p)
    \/ RestoreLogin(p) \/ RevokeIssued(p) \/ Logout(p)

Next ==
    \/ \E p \in Proc :
          \/ \E s \in Optional(Server) : Begin(p, s)
          \/ CommandStep(p)
          \/ SaveUnread(p) \/ SaveFails(p) \/ ConfigFails(p) \/ RestoreFails(p)
          \/ Fails(p) \/ Kill(p)
    \/ PowerLoss \/ Flush
    \/ \E s \in Server : Refreshed(s) \/ Lapses(s) \/ LogoutElsewhere(s)

Spec == Init /\ [][Next]_vars

(* Users go on until they are logged in, and commands do not stop by       *)
(* themselves; nothing is assumed of the faults but their number.          *)
FairSpec == Spec /\ \A p \in Proc : WF_vars(CommandStep(p))

-----------------------------------------------------------------------------
(* Properties *)

(* Types of the file, the records and what each command remembers. *)
TypeOK ==
    /\ file \in Content /\ disk \subseteq Content
    /\ record \in [Server -> Optional(Record)]
    /\ pc \in [Proc -> PC]
    /\ want \in [Proc -> Optional(Server)]
    /\ server \in [Proc -> Server]
    /\ previous \in [Proc -> Optional(Record)]
    /\ tasks \in 0..MaxTask /\ faults \in 0..MaxFault
    /\ ended \subseteq Server

(* The file always parses ("Save persists non-secret configuration         *)
(* atomically", config.go:141), and it names a server only with a login    *)
(* ("no longer saves endpoint settings before authentication succeeds",    *)
(* CHANGELOG.md:73): one that is stored, or was until somebody ended it, a  *)
(* login replaced it unread, a failed replacement cost it or a power loss  *)
(* took it.  The rollback of a login that could read what it replaced is   *)
(* not among these reasons, whatever other logins, rollbacks, refreshes    *)
(* and logouts it interleaves with, and neither is a killed command.       *)
ConfigUsable ==
    /\ file # Torn /\ Torn \notin disk
    /\ file \in Server => record[file] # None \/ file \in ended

(* A user who follows the hints, with the same flags, ends up logged in to  *)
(* the server they named: no crash, failed write, lapsed or foreign login   *)
(* leaves a state in which login and logout refer to each other for ever.   *)
LoginTakesHold ==
    \A p \in Proc :
        pc[p] # "idle" ~> pc[p] = "idle" /\ want[p] \in {None, server[p]}
=============================================================================
