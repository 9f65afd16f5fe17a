------------------------------- MODULE ApiKeys -------------------------------
(***************************************************************************)
(* scope api-key create and revoke (internal/command/api_key.go).  revoke  *)
(* lists the keys of the selected workspace, finds the one that is meant   *)
(* by ID or by unique name, has it confirmed, and asks the server to       *)
(* revoke it.  While it works and while its user thinks, other clients     *)
(* create and revoke keys, another workspace is selected, or another user  *)
(* logs in: the one command modelled here runs among all of them.          *)
(***************************************************************************)
EXTENDS Naturals

CONSTANTS
    Id,         \* key IDs
    Name,       \* key names, some of which may be the ID of another key
    Site,       \* workspaces
    User,       \* accounts
    Owner,      \* the account that owns the workspaces
    None

Target == [key : Id, ws : Site]

ASSUME KeyAssumption ==
    /\ Owner \in User
    /\ None \notin Id \cup Name \cup Site \cup User \cup Target

Key == [name : Name, ws : Site, by : User, active : BOOLEAN]
Session == [user : User, ws : Site]
Listing == UNION {[ids -> Name] : ids \in SUBSET Id}
Empty == [i \in {} |-> None]

VARIABLES
    keys,       \* server: ID -> key, or None
    session,    \* the stored login and its selected workspace, or None
    pc,         \* what the command does next
    value,      \* the ID or name it was called with
    yes,        \* --yes
    user,       \* the account its access token belongs to
    ws,         \* the workspace it works in
    listed,     \* the keys it was shown: ID -> name
    key,        \* the key it is about to revoke
    result,     \* what it reported
    agreed,     \* history: the key and workspace the user confirmed
    did         \* history: keys revoked by this command

command == <<pc, value, yes, user, ws, listed, key, result>>
vars == <<keys, session, command, agreed, did>>

PC == {"idle", "access", "list", "confirm", "reload", "revoke", "create"}
Results == {"none", "failed", "declined", "revoked", "created"}

-----------------------------------------------------------------------------
(* The server: the owner manages every key, a member their own. *)

Manages(u, i) == u = Owner \/ keys[i].by = u
Shown(u, w) == {i \in Id : keys[i] # None /\ keys[i].ws = w /\ Manages(u, i)}

-----------------------------------------------------------------------------
(* The command *)

Ends(r) ==
    /\ pc' = "idle"
    /\ result' = r
    /\ user' = None /\ ws' = None /\ listed' = Empty
    /\ UNCHANGED <<value, yes, key>>

StartRevoke(v, y) ==
    /\ pc = "idle"
    /\ pc' = "access" /\ value' = v /\ yes' = y
    /\ key' = None /\ result' = "none" /\ agreed' = None /\ did' = {}
    /\ UNCHANGED <<keys, session, user, ws, listed>>

StartCreate ==
    /\ pc = "idle"
    /\ pc' = "access" /\ value' = None /\ yes' = FALSE
    /\ key' = None /\ result' = "none" /\ agreed' = None /\ did' = {}
    /\ UNCHANGED <<keys, session, user, ws, listed>>

(* Account and its selected workspace are read as one snapshot. *)
LoadWorkspaceAccess ==
    /\ pc = "access" /\ session # None
    /\ user' = session.user /\ ws' = session.ws
    /\ pc' = IF value = None THEN "create" ELSE "list"
    /\ UNCHANGED <<keys, session, value, yes, listed, key, result, agreed, did>>

(* A request or an input fails, or the command is interrupted. *)
Fails ==
    /\ pc # "idle"
    /\ Ends("failed")
    /\ UNCHANGED <<keys, session, agreed, did>>

(* resolveAPIKey: an ID matches before any name does. *)
MatchesNames(l, v) ==   \* variant: names are looked at first
    LET named == {i \in DOMAIN l : l[i] = v}
    IN IF named # {} THEN named ELSE DOMAIN l \cap {v}
Matches(l, v) ==
    IF v \in DOMAIN l THEN {v} ELSE {i \in DOMAIN l : l[i] = v}

List ==
    /\ pc = "list"
    /\ listed' = [i \in Shown(user, ws) |-> keys[i].name]
    /\ \E k \in Id : Matches(listed', value) = {k} /\ key' = k
    /\ pc' = IF yes THEN "revoke" ELSE "confirm"
    /\ UNCHANGED <<keys, session, value, yes, user, ws, result, agreed, did>>

ListNoMatch ==
    /\ pc = "list"
    /\ LET l == [i \in Shown(user, ws) |-> keys[i].name]
       IN \A k \in Id : Matches(l, value) # {k}
    /\ Ends("failed")
    /\ UNCHANGED <<keys, session, agreed, did>>

Decline ==
    /\ pc = "confirm"
    /\ Ends("declined")
    /\ UNCHANGED <<keys, session, agreed, did>>

Confirm ==
    /\ pc = "confirm"
    /\ pc' = "reload"
    /\ agreed' = [key |-> key, ws |-> ws]
    /\ UNCHANGED <<keys, session, value, yes, user, ws, listed, key, result, did>>

(* Waiting for the confirmation may have outlived the token. *)
ReloadAll ==        \* variant: takes over the selection as well
    /\ session # None
    /\ user' = session.user /\ ws' = session.ws
Reloads ==
    /\ session # None
    /\ user' = session.user
    /\ UNCHANGED ws

LoadAccess ==
    /\ pc = "reload"
    /\ Reloads
    /\ pc' = "revoke"
    /\ UNCHANGED <<keys, session, value, yes, listed, key, result, agreed, did>>

Permitted == key \in Shown(user, ws)

Revokes ==
    /\ keys' = [keys EXCEPT ![key].active = FALSE]
    /\ did' = IF keys[key].active THEN did \cup {key} ELSE did

RevokeAPIKey ==
    /\ pc = "revoke" /\ Permitted
    /\ Revokes
    /\ Ends("revoked")
    /\ UNCHANGED <<session, agreed>>

ReportsRevoked == Ends("revoked")   \* variant: a lost answer counts as done
ReportsLost == Ends("failed")

(* The answer is lost, and maybe the request with it. *)
RevokeLost ==
    /\ pc = "revoke"
    /\ \/ Permitted /\ Revokes
       \/ UNCHANGED <<keys, did>>
    /\ ReportsLost
    /\ UNCHANGED <<session, agreed>>

NewKey(i, k) ==
    /\ keys[i] = None
    /\ keys' = [keys EXCEPT ![i] = k]

(* The secret is in the answer: it is shown once or never. *)
CreateAPIKey ==
    /\ pc = "create"
    /\ \E i \in Id, n \in Name :
          NewKey(i, [name |-> n, ws |-> ws, by |-> user, active |-> TRUE])
    /\ Ends("created") \/ Ends("failed")
    /\ UNCHANGED <<session, agreed, did>>

-----------------------------------------------------------------------------
(* Everybody else *)

CreatedElsewhere ==
    /\ \E i \in Id, k \in Key : k.active /\ NewKey(i, k)
    /\ UNCHANGED <<session, command, agreed, did>>

RevokedElsewhere ==
    /\ \E i \in Id : /\ keys[i] # None
                     /\ keys[i].active
                     /\ keys' = [keys EXCEPT ![i].active = FALSE]
    /\ UNCHANGED <<session, command, agreed, did>>

(* scope auth login and logout, scope workspace use *)
SessionChanges ==
    /\ session' \in (Session \cup {None}) \ {session}
    /\ UNCHANGED <<keys, command, agreed, did>>

-----------------------------------------------------------------------------
Init ==
    /\ keys = [i \in Id |-> None]
    /\ session \in Session \cup {None}
    /\ pc = "idle" /\ value = None /\ yes = FALSE
    /\ user = None /\ ws = None /\ listed = Empty
    /\ key = None /\ result = "none"
    /\ agreed = None /\ did = {}

Next ==
    \/ \E v \in Id \cup Name, y \in BOOLEAN : StartRevoke(v, y)
    \/ StartCreate
    \/ LoadWorkspaceAccess \/ Fails
    \/ List \/ ListNoMatch \/ Decline \/ Confirm \/ LoadAccess
    \/ RevokeAPIKey \/ RevokeLost \/ CreateAPIKey
    \/ CreatedElsewhere \/ RevokedElsewhere \/ SessionChanges

Spec == Init /\ [][Next]_vars

-----------------------------------------------------------------------------
(* Properties *)

(* Types; every request is made with a token and for a workspace. *)
TypeOK ==
    /\ keys \in [Id -> Key \cup {None}]
    /\ session \in Session \cup {None}
    /\ pc \in PC /\ value \in Id \cup Name \cup {None} /\ yes \in BOOLEAN
    /\ user \in User \cup {None} /\ ws \in Site \cup {None}
    /\ listed \in Listing
    /\ key \in Id \cup {None} /\ result \in Results
    /\ agreed \in Target \cup {None} /\ did \subseteq Id
    /\ pc \in PC \ {"idle", "access"} => user # None /\ ws # None

(* The command revokes at most the one key that its argument named without *)
(* doubt in what its user was shown, whatever happened to names, keys and   *)
(* logins since ("repeated names require an ID; if an ID also matches       *)
(* another key's name, the ID wins", docs/connect.md:67), and it reports a  *)
(* revocation only of a key that is revoked, also when answers are lost.    *)
RevokesMeant ==
    [][/\ \A i \in did' \ did :
             /\ i \in DOMAIN listed
             /\ value = i \/ (value \notin DOMAIN listed
                              /\ {j \in DOMAIN listed : listed[j] = value} = {i})
       /\ pc # "idle" /\ result' = "revoked" => ~keys'[key].active]_vars

(* Without --yes it acts on the key and in the workspace the user confirmed *)
(* ("keep the confirmed target", api_key.go:253), also when another         *)
(* workspace was selected while the question was open.                      *)
KeepsConfirmed ==
    pc = "revoke" /\ ~yes => agreed # None /\ agreed.key = key /\ agreed.ws = ws
=============================================================================
