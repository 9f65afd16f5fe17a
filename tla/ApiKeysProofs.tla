----------------------------- MODULE ApiKeysProofs -----------------------------
(***************************************************************************)
(* Proofs about ApiKeys, for any keys, names, workspaces and accounts:     *)
(* types, KeepsConfirmed and RevokesMeant.                                 *)
(*                                                                         *)
(* The inductive invariant ties the key the command works on to what was   *)
(* listed: it is the only match, and it stays that until the command ends, *)
(* because nothing in the command changes the listing or the argument.     *)
(***************************************************************************)
EXTENDS ApiKeys, TLAPS

(* The steps that know which key is meant. *)
Chosen == {"confirm", "reload", "revoke"}

ChosenInv == pc \in Chosen => key \in Id /\ Matches(listed, value) = {key}
ResultInv == pc # "idle" => result = "none"
AgreedInv == pc = "reload" => agreed = [key |-> key, ws |-> ws]

IInv == TypeOK /\ ChosenInv /\ ResultInv /\ AgreedInv /\ KeepsConfirmed

-----------------------------------------------------------------------------
(* The argument is an ID that was listed, or a name that only one listed   *)
(* key has.                                                                *)
LEMMA MatchIsMeant ==
    ASSUME NEW l, NEW v, NEW k, Matches(l, v) = {k}
    PROVE  /\ k \in DOMAIN l
           /\ v = k \/ (v \notin DOMAIN l /\ {j \in DOMAIN l : l[j] = v} = {k})
BY DEF Matches

(* Ending forgets the token, the workspace and the listing.                *)
LEMMA EndsTypes ==
    ASSUME TypeOK, NEW r \in Results, Ends(r), UNCHANGED <<session, agreed>>,
           keys' \in [Id -> Key \cup {None}], did' \subseteq Id
    PROVE  TypeOK'
<1>1. Empty \in Listing
  <2>1. Empty \in [{} -> Name]
    BY DEF Empty
  <2> QED
    BY <2>1 DEF Listing
<1> QED
  BY <1>1 DEF TypeOK, Ends, PC

LEMMA EndsInv ==
    ASSUME IInv, NEW r \in Results, Ends(r), UNCHANGED <<session, agreed>>,
           keys' \in [Id -> Key \cup {None}], did' \subseteq Id
    PROVE  IInv'
<1>1. TypeOK'
  BY EndsTypes DEF IInv
<1>2. pc' = "idle"
  BY DEF Ends
<1> QED
  BY <1>1, <1>2 DEF IInv, ChosenInv, ResultInv, AgreedInv, KeepsConfirmed, Chosen

(* Steps of others leave the command alone. *)
LEMMA OthersInv ==
    ASSUME IInv, UNCHANGED <<command, agreed, did>>,
           keys' \in [Id -> Key \cup {None}], session' \in Session \cup {None}
    PROVE  IInv'
BY DEF IInv, TypeOK, ChosenInv, ResultInv, AgreedInv, KeepsConfirmed, command

LEMMA RevokesTypes ==
    ASSUME TypeOK, key \in Id, Permitted, Revokes
    PROVE  /\ keys' \in [Id -> Key \cup {None}] /\ did' \subseteq Id
           /\ did' \ did \subseteq {key}
           /\ ~keys'[key].active
<1>1. keys[key] \in Key
  BY DEF Permitted, Shown, TypeOK
<1>2. [keys[key] EXCEPT !.active = FALSE] \in Key
        /\ ~[keys[key] EXCEPT !.active = FALSE].active
  BY <1>1 DEF Key
<1>3. keys' = [keys EXCEPT ![key] = [keys[key] EXCEPT !.active = FALSE]]
  BY DEF Revokes
<1>4. keys' \in [Id -> Key \cup {None}] /\ ~keys'[key].active
  BY <1>2, <1>3 DEF TypeOK
<1> QED
  BY <1>4 DEF Revokes, TypeOK

LEMMA NewKeyTypes ==
    ASSUME TypeOK, NEW i \in Id, NEW k \in Key, NewKey(i, k)
    PROVE  keys' \in [Id -> Key \cup {None}]
BY DEF TypeOK, NewKey

-----------------------------------------------------------------------------
LEMMA InitInv == Init => IInv
<1> SUFFICES ASSUME Init PROVE IInv
  OBVIOUS
<1>1. Empty \in Listing
  <2>1. Empty \in [{} -> Name]
    BY DEF Empty
  <2> QED
    BY <2>1 DEF Listing
<1>2. TypeOK
  BY <1>1 DEF Init, TypeOK, PC, Results
<1> QED
  BY <1>2 DEF Init, IInv, ChosenInv, ResultInv, AgreedInv, KeepsConfirmed, Chosen

LEMMA StartInv ==
    ASSUME IInv,
           StartCreate \/ \E v \in Id \cup Name, y \in BOOLEAN : StartRevoke(v, y)
    PROVE  IInv'
<1>1. pc' = "access" /\ value' \in Id \cup Name \cup {None} /\ yes' \in BOOLEAN
        /\ key' = None /\ result' = "none" /\ agreed' = None /\ did' = {}
        /\ UNCHANGED <<keys, session, user, ws, listed>>
  BY DEF StartRevoke, StartCreate
<1>2. TypeOK'
  BY <1>1 DEF IInv, TypeOK, PC, Results
<1> QED
  BY <1>1, <1>2 DEF IInv, ChosenInv, ResultInv, AgreedInv, KeepsConfirmed, Chosen

LEMMA LoadWorkspaceAccessInv == IInv /\ LoadWorkspaceAccess => IInv'
<1> SUFFICES ASSUME IInv, LoadWorkspaceAccess PROVE IInv'
  OBVIOUS
<1>1. /\ session \in Session /\ user' = session.user /\ ws' = session.ws
      /\ pc # "idle" /\ pc' \in {"create", "list"}
      /\ UNCHANGED <<keys, session, value, yes, listed, key, result, agreed, did>>
  BY DEF LoadWorkspaceAccess, IInv, TypeOK
<1>2. user' \in User /\ ws' \in Site
  BY <1>1 DEF Session
<1>3. TypeOK'
  BY <1>1, <1>2, KeyAssumption DEF IInv, TypeOK, PC
<1> QED
  BY <1>1, <1>3 DEF IInv, ChosenInv, ResultInv, AgreedInv, KeepsConfirmed, Chosen

LEMMA ListInv == IInv /\ List => IInv'
<1> SUFFICES ASSUME IInv, List PROVE IInv'
  OBVIOUS
<1>1. /\ pc = "list" /\ listed' = [i \in Shown(user, ws) |-> keys[i].name]
      /\ pc' = IF yes THEN "revoke" ELSE "confirm"
      /\ UNCHANGED <<keys, session, value, yes, user, ws, result, agreed, did>>
  BY DEF List
<1>2. PICK k \in Id : Matches(listed', value) = {k} /\ key' = k
  BY DEF List
<1>3. listed' \in Listing
  <2>1. \A i \in Shown(user, ws) : i \in Id /\ keys[i] \in Key
    BY DEF Shown, IInv, TypeOK
  <2>2. \A i \in Shown(user, ws) : keys[i].name \in Name
    BY <2>1 DEF Key
  <2>3. listed' \in [Shown(user, ws) -> Name] /\ Shown(user, ws) \in SUBSET Id
    BY <1>1, <2>2 DEF Shown
  <2> QED
    BY <2>3 DEF Listing
<1>4. TypeOK'
  BY <1>1, <1>2, <1>3 DEF IInv, TypeOK, PC
<1>5. ChosenInv'
  BY <1>1, <1>2 DEF ChosenInv
<1>6. KeepsConfirmed' /\ ResultInv' /\ AgreedInv'
  BY <1>1 DEF IInv, KeepsConfirmed, ResultInv, AgreedInv
<1> QED
  BY <1>4, <1>5, <1>6 DEF IInv

LEMMA ConfirmInv == IInv /\ Confirm => IInv'
<1> SUFFICES ASSUME IInv, Confirm PROVE IInv'
  OBVIOUS
<1>1. /\ pc = "confirm" /\ pc' = "reload" /\ agreed' = [key |-> key, ws |-> ws]
      /\ UNCHANGED <<keys, session, value, yes, user, ws, listed, key, result, did>>
  BY DEF Confirm
<1>2. key \in Id /\ ws \in Site /\ user # None
  BY <1>1 DEF IInv, ChosenInv, Chosen, TypeOK, PC
<1>3. TypeOK'
  BY <1>1, <1>2, KeyAssumption DEF IInv, TypeOK, PC, Target
<1> QED
  BY <1>1, <1>3 DEF IInv, ChosenInv, ResultInv, AgreedInv, KeepsConfirmed, Chosen

LEMMA LoadAccessInv == IInv /\ LoadAccess => IInv'
<1> SUFFICES ASSUME IInv, LoadAccess PROVE IInv'
  OBVIOUS
<1>1. /\ pc = "reload" /\ pc' = "revoke" /\ session \in Session /\ user' = session.user
      /\ UNCHANGED <<keys, session, value, yes, ws, listed, key, result, agreed, did>>
  BY DEF LoadAccess, Reloads, IInv, TypeOK
<1>2. user' \in User /\ ws # None
  BY <1>1 DEF Session, IInv, TypeOK, PC
<1>3. TypeOK'
  BY <1>1, <1>2, KeyAssumption DEF IInv, TypeOK, PC
<1>4. agreed.key = key /\ agreed.ws = ws /\ agreed # None
  <2>1. agreed = [key |-> key, ws |-> ws]
    BY <1>1 DEF IInv, AgreedInv
  <2>2. key \in Id /\ ws \in Site
    BY <1>1 DEF IInv, ChosenInv, Chosen, TypeOK, PC
  <2>3. agreed \in Target
    BY <2>1, <2>2 DEF Target
  <2> QED
    BY <2>1, <2>3, KeyAssumption
<1>5. KeepsConfirmed'
  BY <1>1, <1>4 DEF KeepsConfirmed
<1> QED
  BY <1>1, <1>3, <1>5 DEF IInv, ChosenInv, ResultInv, AgreedInv, Chosen

(* The command ends: nothing happened, the key was revoked, or the answer  *)
(* was lost on one of the ways.                                            *)
LEMMA FailsInv == IInv /\ (Fails \/ ListNoMatch \/ Decline) => IInv'
BY EndsInv DEF Fails, ListNoMatch, Decline, Results, IInv, TypeOK

LEMMA RevokeInv == IInv /\ (RevokeAPIKey \/ RevokeLost) => IInv'
<1> SUFFICES ASSUME IInv, pc = "revoke", NEW r \in Results, Ends(r),
                    (Permitted /\ Revokes) \/ UNCHANGED <<keys, did>>,
                    UNCHANGED <<session, agreed>>
             PROVE  IInv'
  BY DEF RevokeAPIKey, RevokeLost, ReportsLost, Results
<1>1. key \in Id
  BY DEF IInv, ChosenInv, Chosen
<1>2. keys' \in [Id -> Key \cup {None}] /\ did' \subseteq Id
  BY <1>1, RevokesTypes DEF IInv, TypeOK
<1> QED
  BY <1>2, EndsInv

LEMMA CreateInv == IInv /\ CreateAPIKey => IInv'
<1> SUFFICES ASSUME IInv, pc = "create", NEW i \in Id, NEW n \in Name,
                    NewKey(i, [name |-> n, ws |-> ws, by |-> user, active |-> TRUE]),
                    NEW r \in Results, Ends(r), UNCHANGED <<session, agreed, did>>
             PROVE  IInv'
  BY DEF CreateAPIKey, Results
<1> DEFINE k == [name |-> n, ws |-> ws, by |-> user, active |-> TRUE]
<1>1. user \in User /\ ws \in Site
  BY DEF IInv, TypeOK, PC
<1>2. k \in Key
  BY <1>1 DEF Key
<1>3. keys' \in [Id -> Key \cup {None}]
  BY <1>2, NewKeyTypes DEF IInv
<1> QED
  BY <1>3, EndsInv DEF IInv, TypeOK

LEMMA ElsewhereInv ==
    IInv /\ (CreatedElsewhere \/ RevokedElsewhere \/ SessionChanges) => IInv'
<1> SUFFICES ASSUME IInv, CreatedElsewhere \/ RevokedElsewhere \/ SessionChanges
             PROVE  IInv'
  OBVIOUS
<1>1. CASE CreatedElsewhere
  BY <1>1, NewKeyTypes, OthersInv DEF CreatedElsewhere, IInv, TypeOK
<1>2. CASE RevokedElsewhere
  <2>1. PICK i \in Id : keys[i] # None /\ keys' = [keys EXCEPT ![i].active = FALSE]
    BY <1>2 DEF RevokedElsewhere
  <2>2. keys[i] \in Key
    BY <2>1 DEF IInv, TypeOK
  <2>3. [keys[i] EXCEPT !.active = FALSE] \in Key
    BY <2>2 DEF Key
  <2>4. keys' \in [Id -> Key \cup {None}]
    BY <2>1, <2>3 DEF IInv, TypeOK
  <2> QED
    BY <1>2, <2>4, OthersInv DEF RevokedElsewhere, IInv, TypeOK
<1>3. CASE SessionChanges
  BY <1>3, OthersInv DEF SessionChanges, IInv, TypeOK
<1> QED
  BY <1>1, <1>2, <1>3

LEMMA NextInv == IInv /\ [Next]_vars => IInv'
<1> SUFFICES ASSUME IInv, [Next]_vars PROVE IInv'
  OBVIOUS
<1>1. CASE UNCHANGED vars
  BY <1>1 DEF vars, command, IInv, TypeOK, ChosenInv, ResultInv, AgreedInv, KeepsConfirmed
<1>2. CASE Next
  BY <1>2, StartInv, LoadWorkspaceAccessInv, ListInv, ConfirmInv, LoadAccessInv, FailsInv,
     RevokeInv, CreateInv, ElsewhereInv DEF Next
<1> QED
  BY <1>1, <1>2

-----------------------------------------------------------------------------
(* The inductive invariant: the key the command works on is the only match *)
(* among the keys it listed, and the one the user agreed to.               *)
THEOREM InductiveInvariant == Spec => []IInv
<1> QED
  BY InitInv, NextInv, PTL DEF Spec

(* Types, and a token and a workspace for every request. *)
THEOREM TypeCorrect == Spec => []TypeOK
<1>1. IInv => TypeOK
  BY DEF IInv
<1> QED
  BY <1>1, InductiveInvariant, PTL

(* The confirmed key and workspace stay the target, whoever logs in or     *)
(* selects another workspace meanwhile.                                    *)
THEOREM KeepsConfirmedHolds == Spec => []KeepsConfirmed
<1>1. IInv => KeepsConfirmed
  BY DEF IInv
<1> QED
  BY <1>1, InductiveInvariant, PTL

Meant(i) ==
    /\ i \in DOMAIN listed
    /\ value = i \/ (value \notin DOMAIN listed
                     /\ {j \in DOMAIN listed : listed[j] = value} = {i})

(* A step revokes what was meant, and reports only what it did. *)
LEMMA StepRevokesMeant ==
    ASSUME IInv, [Next]_vars
    PROVE  /\ \A i \in did' \ did : Meant(i)
           /\ pc # "idle" /\ result' = "revoked" => ~keys'[key].active
<1>1. CASE pc = "revoke" /\ Permitted /\ Revokes
  <2>1. key \in Id /\ Matches(listed, value) = {key}
    BY <1>1 DEF IInv, ChosenInv, Chosen
  <2>2. did' \ did \subseteq {key} /\ ~keys'[key].active
    BY <1>1, <2>1, RevokesTypes DEF IInv
  <2>3. Meant(key)
    BY <2>1, MatchIsMeant DEF Meant
  <2> QED
    BY <2>2, <2>3
<1>2. CASE ~(pc = "revoke" /\ Permitted /\ Revokes)
  <2>1. result' # "revoked" \/ UNCHANGED result
    BY <1>2 DEF Next, vars, command, StartRevoke, StartCreate, LoadWorkspaceAccess, Fails, Ends,
       List, ListNoMatch, Decline, Confirm, LoadAccess, RevokeAPIKey, RevokeLost,
       ReportsLost, CreateAPIKey, CreatedElsewhere, RevokedElsewhere, SessionChanges
  <2>2. did' \subseteq did
    BY <1>2 DEF Next, vars, StartRevoke, StartCreate, LoadWorkspaceAccess, Fails,
       List, ListNoMatch, Decline, Confirm, LoadAccess, RevokeAPIKey, RevokeLost,
       CreateAPIKey, CreatedElsewhere, RevokedElsewhere, SessionChanges
  <2>3. pc # "idle" => result # "revoked"
    BY DEF IInv, ResultInv
  <2> QED
    BY <2>1, <2>2, <2>3
<1> QED
  BY <1>1, <1>2

(* Only the key that the argument named without doubt is revoked, and a    *)
(* revocation is reported only of a key that is revoked.                   *)
THEOREM RevokesMeantHolds == Spec => RevokesMeant
<1>1. IInv /\ [Next]_vars =>
         [/\ \A i \in did' \ did :
               /\ i \in DOMAIN listed
               /\ value = i \/ (value \notin DOMAIN listed
                                /\ {j \in DOMAIN listed : listed[j] = value} = {i})
          /\ pc # "idle" /\ result' = "revoked" => ~keys'[key].active]_vars
  BY StepRevokesMeant DEF Meant
<1> QED
  BY <1>1, InductiveInvariant, PTL DEF Spec, RevokesMeant
=============================================================================
