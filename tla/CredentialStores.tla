-------------------------- MODULE CredentialStores --------------------------
(***************************************************************************)
(* internal/credential/stores.go: the record of one control plane, kept in *)
(* the OS keyring or in a plaintext file.  Both may hold an entry at once; *)
(* Load decides which one counts.  Every access to one of the two stores   *)
(* is a step that may fail, and the process may be killed between steps.   *)
(*                                                                         *)
(* Writers run under the auth manager's file lock (one job at a time).     *)
(* Readers take no lock: Load reads the file, then the keyring.            *)
(***************************************************************************)
EXTENDS CredentialRecord

VARIABLES
    keyring,    \* the entry in the OS keyring
    plaintext,  \* the profile's entry in the plaintext credential file
    job,        \* the mutation that holds the lock
    step,       \* the store access it makes next
    result,     \* how the last mutation ended
    undo,       \* what SaveLogin returned for RestoreLogin to put back
    reader,     \* a concurrent Load
    used,       \* history: logins that were ever handed to Replace
    retired     \* history: logins that were replaced, removed or given up

storeVars == <<keyring, plaintext>>
vars == <<keyring, plaintext, job, step, result, undo, reader, used, retired>>

Source == {"keyring", "plaintext"}
Steps == {"idle", "save", "keyringSave", "dropPlaintext", "undoKeyring",
          "plaintextSave", "dropKeyring", "deleteKeyring", "tombstone",
          "deletePlaintext"}

(* The record Load returns, as a function of the two stores. *)
VisibleMarker(k, p) == IF p = None THEN k ELSE p  \* variant: the marker is a record
Visible(k, p) ==
    IF p = None THEN k ELSE IF p = Cleared THEN None ELSE p

Current == Visible(keyring, plaintext)
LoginOf(r) == IF r \in Record THEN {r.login} ELSE {}

(* Load resolves Source; later updates keep that destination. *)
LoadedFrom == IF plaintext = None THEN "keyring" ELSE "plaintext"

NoJob == [op |-> "idle", rec |-> None, source |-> "none"]
NoUndo == [previous |-> None, source |-> "none"]
NoRead == [at |-> "idle", got |-> None, hidden |-> {}]

Jobs ==
    [op : {"save", "restore"}, rec : Record, source : Source]
        \cup [op : {"replace"}, rec : Record, source : {"new", "insecure"}]
        \cup [op : {"delete"}, rec : {None}, source : {"none"}]
        \cup {NoJob}

-----------------------------------------------------------------------------
(* History: a login that stops being the visible one is retired, and so is *)
(* one whose installation did not succeed; a restore takes its login back, *)
(* for a read that is under way as well.                                   *)

Unhide(logins) ==
    reader' = IF reader.at = "keyring"
                THEN [reader EXCEPT !.hidden = @ \ logins] ELSE reader

Track(given) ==
    LET visible == LoginOf(Visible(keyring', plaintext'))
    IN  /\ retired' = (retired \cup LoginOf(Current) \cup given) \ visible
        /\ Unhide(visible)

Start(j, s) ==
    /\ step = "idle"
    /\ job' = j
    /\ step' = s
    /\ Unhide(IF j.op = "restore" THEN LoginOf(j.rec) ELSE {})
    /\ UNCHANGED <<keyring, plaintext, result, retired>>

Advance(s) ==
    /\ step' = s
    /\ Track({})
    /\ UNCHANGED <<job, result, undo, used>>

(* A mutation that ends: its caller learns the outcome and the lock is     *)
(* released.  SaveLogin hands out something to restore only on success.    *)
Finish(r) ==
    /\ step' = "idle"
    /\ job' = NoJob
    /\ result' = r
    /\ undo' = IF job.op = "replace" /\ r # "ok"
                 THEN [undo EXCEPT ![job.rec.login] = NoUndo]
                 ELSE undo
    /\ Track(IF r = "ok" THEN {} ELSE LoginOf(job.rec))
    /\ UNCHANGED used

-----------------------------------------------------------------------------
(* The calls the auth manager makes. *)

(* Stores.Save: the rewritten record goes to the store it was read from.   *)
(* A refresh renews the tokens; a workspace or data token keeps them.      *)
CallSave ==
    /\ Current \in Record
    /\ \E n \in {Current.rev, Current.rev + 1} :
          /\ n <= MaxRev
          /\ Start([op |-> "save", rec |-> [Current EXCEPT !.rev = n],
                    source |-> LoadedFrom], "save")
    /\ UNCHANGED <<undo, used>>

(* Stores.Replace with a new login.  SaveLogin keeps what it loaded before *)
(* for RestoreLogin; an unusable record or an unreadable keyring counts as *)
(* no login.                                                               *)
CallReplace(l, source, readable) ==
    /\ l \notin used
    /\ Start([op |-> "replace", rec |-> [login |-> l, rev |-> 0],
              source |-> source],
             IF source = "insecure" THEN "plaintextSave" ELSE "keyringSave")
    /\ used' = used \cup {l}
    /\ undo' = [undo EXCEPT ![l] =
         [previous |-> IF Current \in Record
                            /\ (readable \/ LoadedFrom = "plaintext")
                         THEN Current ELSE None,
          source |-> LoadedFrom]]

(* RestoreLogin: only while the record still has the tokens l was saved    *)
(* with.  The record that was there before l comes back; if there was none *)
(* the record is deleted.                                                  *)
CallRestore(l) ==
    /\ undo[l] # NoUndo
    /\ Current = [login |-> l, rev |-> 0]
    /\ IF undo[l].previous \in Record
         THEN Start([op |-> "restore", rec |-> undo[l].previous,
                     source |-> undo[l].source],
                    IF undo[l].source = "plaintext"
                      THEN "plaintextSave" ELSE "keyringSave")
         ELSE Start([op |-> "delete", rec |-> None, source |-> "none"],
                    "deleteKeyring")
    /\ undo' = [undo EXCEPT ![l] = NoUndo]
    /\ UNCHANGED used

(* Stores.Delete, from Logout or from a refresh that was refused. *)
CallDelete ==
    /\ Start([op |-> "delete", rec |-> None, source |-> "none"],
             "deleteKeyring")
    /\ UNCHANGED <<undo, used>>

-----------------------------------------------------------------------------
(* One action per access to a store; ok says whether the access succeeds.  *)

PutKeyring(r, ok) == keyring' = (IF ok THEN r ELSE keyring)
PutPlaintext(r, ok) == plaintext' = (IF ok THEN r ELSE plaintext)
Outcome(ok) == IF ok THEN "ok" ELSE "error"

SaveStep(ok) ==
    /\ step = "save"
    /\ IF job.source = "keyring"
         THEN PutKeyring(job.rec, ok) /\ UNCHANGED plaintext
         ELSE PutPlaintext(job.rec, ok) /\ UNCHANGED keyring
    /\ Finish(Outcome(ok))

(* Only a new login falls back to the file when the keyring refuses it. *)
KeyringSaveOnly(ok) ==  \* variant: an old file entry stays
    /\ step = "keyringSave"
    /\ PutKeyring(job.rec, ok)
    /\ UNCHANGED plaintext
    /\ IF ok \/ job.op = "restore" THEN Finish(Outcome(ok))
       ELSE Advance("plaintextSave")

KeyringSave(ok) ==
    /\ step = "keyringSave"
    /\ PutKeyring(job.rec, ok)
    /\ UNCHANGED plaintext
    /\ IF ok THEN Advance("dropPlaintext")
       ELSE IF job.op = "restore" THEN Finish("error")
       ELSE Advance("plaintextSave")

DropPlaintext(ok) ==
    /\ step = "dropPlaintext"
    /\ PutPlaintext(None, ok)
    /\ UNCHANGED keyring
    /\ IF ok \/ job.op = "restore" THEN Finish(Outcome(ok))
       ELSE Advance("undoKeyring")

UndoKeyring(ok) ==
    /\ step = "undoKeyring"
    /\ PutKeyring(None, ok)
    /\ UNCHANGED plaintext
    /\ Finish("error")

PlaintextSave(ok) ==
    /\ step = "plaintextSave"
    /\ PutPlaintext(job.rec, ok)
    /\ UNCHANGED keyring
    /\ IF ok THEN Advance("dropKeyring") ELSE Finish("error")

(* A keyring that cannot be cleaned up does not fail a new login. *)
DropKeyring(ok) ==
    /\ step = "dropKeyring"
    /\ PutKeyring(None, ok)
    /\ UNCHANGED plaintext
    /\ Finish(IF job.op = "restore" THEN Outcome(ok) ELSE "ok")

DeleteKeyringUnmarked(ok) ==  \* variant: a failure leaves no marker behind
    /\ step = "deleteKeyring"
    /\ PutKeyring(None, ok)
    /\ UNCHANGED plaintext
    /\ Advance("deletePlaintext")

DeleteKeyring(ok) ==
    /\ step = "deleteKeyring"
    /\ PutKeyring(None, ok)
    /\ UNCHANGED plaintext
    /\ Advance(IF ok THEN "deletePlaintext" ELSE "tombstone")

TombstoneSilent(ok) ==  \* variant: a written marker counts as success
    /\ step = "tombstone"
    /\ PutPlaintext(Cleared, ok)
    /\ UNCHANGED keyring
    /\ Finish(Outcome(ok))

Tombstone(ok) ==
    /\ step = "tombstone"
    /\ PutPlaintext(Cleared, ok)
    /\ UNCHANGED keyring
    /\ Finish("error")

DeletePlaintext(ok) ==
    /\ step = "deletePlaintext"
    /\ PutPlaintext(None, ok)
    /\ UNCHANGED keyring
    /\ Finish(Outcome(ok))

(* The process is killed; the file lock goes with it. *)
Crash ==
    /\ step # "idle"
    /\ UNCHANGED storeVars
    /\ Finish("crash")

-----------------------------------------------------------------------------
(* Load by a process that holds no lock. *)

ReadPastMarker ==  \* variant: a marker is taken for a missing entry
    /\ reader.at # "keyring"
    /\ reader' =
         IF plaintext \in {None, Cleared}
           THEN [at |-> "keyring", got |-> None, hidden |-> retired]
           ELSE [at |-> "done", got |-> plaintext, hidden |-> retired]
    /\ UNCHANGED <<keyring, plaintext, job, step, result, undo, used, retired>>

ReadPlaintext ==
    /\ reader.at # "keyring"
    /\ reader' =
         IF plaintext = None
           THEN [at |-> "keyring", got |-> None, hidden |-> retired]
           ELSE [at |-> "done", got |-> Visible(None, plaintext),
                 hidden |-> retired]
    /\ UNCHANGED <<keyring, plaintext, job, step, result, undo, used, retired>>

ReadKeyring ==
    /\ reader.at = "keyring"
    /\ reader' = [reader EXCEPT !.at = "done", !.got = keyring]
    /\ UNCHANGED <<keyring, plaintext, job, step, result, undo, used, retired>>

-----------------------------------------------------------------------------
Init ==
    /\ keyring \in {None, Invalid}
    /\ plaintext \in {None, Invalid}
    /\ job = NoJob
    /\ step = "idle"
    /\ result = "none"
    /\ undo = [l \in Login |-> NoUndo]
    /\ reader = NoRead
    /\ used = {}
    /\ retired = {}

StoreStep(ok) ==
    \/ SaveStep(ok)
    \/ KeyringSave(ok)
    \/ DropPlaintext(ok)
    \/ UndoKeyring(ok)
    \/ PlaintextSave(ok)
    \/ DropKeyring(ok)
    \/ DeleteKeyring(ok)
    \/ Tombstone(ok)
    \/ DeletePlaintext(ok)

Next ==
    \/ CallSave
    \/ \E l \in Login, source \in {"new", "insecure"}, readable \in BOOLEAN :
          CallReplace(l, source, readable)
    \/ \E l \in Login : CallRestore(l)
    \/ CallDelete
    \/ \E ok \in BOOLEAN : StoreStep(ok)
    \/ Crash
    \/ ReadPlaintext
    \/ ReadKeyring

Spec == Init /\ [][Next]_vars

-----------------------------------------------------------------------------
(* Properties *)

(* Types: what each store may hold.  The logout marker is only ever written *)
(* to the file.                                                             *)
TypeOK ==
    /\ keyring \in Record \cup {None, Invalid}
    /\ plaintext \in Record \cup {None, Invalid, Cleared}
    /\ job \in Jobs
    /\ step \in Steps
    /\ result \in {"none", "ok", "error", "crash"}
    /\ undo \in [Login -> [previous : Record \cup {None},
                          source : Source \cup {"none"}]]
    /\ reader \in [at : {"idle", "keyring", "done"},
                   got : Record \cup {None, Invalid}, hidden : SUBSET Login]
    /\ used \subseteq Login
    /\ retired \subseteq used

(* A login that was replaced, logged out or given up never becomes the      *)
(* visible one again, unless RestoreLogin puts it back: whatever store      *)
(* access failed and wherever the process was killed, an old entry in the   *)
(* keyring stays hidden ("so an old keyring entry cannot become active      *)
(* again", docs/connect.md).                                                *)
NoResurrection ==
    [][\A l \in retired :
          l \in LoginOf(Visible(keyring', plaintext'))
            => job.op = "restore" /\ job.rec.login = l]_vars

(* Load takes no lock and makes two accesses.  Whatever happens between     *)
(* them, it never returns a login that was already retired when it began,   *)
(* unless that login was restored meanwhile.                                *)
NoRetiredRead ==
    reader.at = "done" => LoginOf(reader.got) \cap reader.hidden = {}

(* A Delete that reports success leaves no tokens in either store, also     *)
(* when earlier calls left copies behind.                                   *)
CleanDelete ==
    [][job.op = "delete" /\ job' = NoJob /\ result' = "ok"
          => keyring' = None /\ plaintext' = None]_vars

(* The two stores implement the single record the auth manager relies on:   *)
(* Visible moves from the old record to the call's target (or to nothing    *)
(* when a new login could not be installed) and to no third record.         *)
Slot == INSTANCE CredentialSlot WITH
    slot <- Current,
    call <- [op |-> job.op, target |-> job.rec]
SlotSpec == Slot!SlotSpec
=============================================================================
