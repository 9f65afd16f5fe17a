----------------------- MODULE CredentialStoresProofs -----------------------
(***************************************************************************)
(* The two credential stores, for any number of logins and refreshes: they *)
(* implement the one record of CredentialSlot, a login that is gone stays  *)
(* gone, a logout that succeeds leaves nothing, and a Load without the     *)
(* lock returns no login that was gone when it began.                      *)
(*                                                                         *)
(* Each store access moves the visible record to what the call asked for,  *)
(* to nothing, or not at all (NextMoves); the rest follows from that.      *)
(***************************************************************************)
EXTENDS CredentialStores, TLAPS

(* Logins are known once they were handed to Replace. *)
UsedInv ==
    /\ LoginOf(keyring) \subseteq used /\ LoginOf(plaintext) \subseteq used
    /\ LoginOf(job.rec) \subseteq used
    /\ \A l \in Login : LoginOf(undo[l].previous) \subseteq used
    /\ reader.hidden \subseteq used

(* What each step of a call has behind it. *)
StageInv ==
    /\ step = "idle" <=> job = NoJob
    /\ step = "save" <=> job.op = "save"
    /\ step \in {"keyringSave", "dropPlaintext", "plaintextSave", "dropKeyring"}
         => job.op \in {"replace", "restore"}
    /\ step = "undoKeyring" => job.op = "replace"
    /\ step \in {"deleteKeyring", "tombstone", "deletePlaintext"} => job.op = "delete"
    /\ step = "dropPlaintext" => keyring = job.rec
    /\ step = "dropKeyring" => plaintext = job.rec
    /\ step = "deletePlaintext" => keyring = None

(* Save rewrites the visible record where it is. *)
SaveInv ==
    job.op = "save" => /\ job.source = LoadedFrom
                       /\ Current \in Record /\ Current.login = job.rec.login

(* A login is restored to where it came from. *)
UndoInv ==
    \A l \in Login : undo[l].previous \in Record => undo[l].source \in Source

(* Retired logins are not visible, and a new login is not retired. *)
RetiredInv ==
    /\ LoginOf(Current) \cap retired = {}
    /\ job.op = "replace" => job.rec.login \notin retired \cup reader.hidden

(* A Load that has found no file entry finds no hidden login in the        *)
(* keyring, nor will it when a restore writes the keyring first.           *)
ReaderInv ==
    reader.at = "keyring" =>
        /\ LoginOf(keyring) \cap reader.hidden = {}
        /\ job.op = "restore" /\ step = "keyringSave" =>
              plaintext = None \/ job.rec.login \notin reader.hidden

IInv ==
    /\ TypeOK /\ UsedInv /\ StageInv /\ SaveInv /\ UndoInv /\ RetiredInv
    /\ ReaderInv /\ NoRetiredRead

-----------------------------------------------------------------------------
(* Records and logins *)

LEMMA Logins ==
    /\ LoginOf(None) = {} /\ LoginOf(Invalid) = {} /\ LoginOf(Cleared) = {}
    /\ \A r \in Record : LoginOf(r) = {r.login} /\ r.login \in Login
BY RecordAssumption DEF LoginOf, Record

LEMMA VisibleCases ==
    ASSUME NEW k \in Record \cup {None, Invalid},
           NEW f \in Record \cup {None, Invalid, Cleared}
    PROVE  /\ f = None => Visible(k, f) = k
           /\ f = Cleared => Visible(k, f) = None
           /\ f \notin {None, Cleared} => Visible(k, f) = f
           /\ Visible(k, f) \in Record \cup {None, Invalid}
BY RecordAssumption DEF Visible

LEMMA JobTypes ==
    ASSUME job \in Jobs
    PROVE  /\ job.rec \in Record \cup {None}
           /\ job.op \in {"save", "restore", "replace", "delete", "idle"}
           /\ job.op \in {"save", "restore", "replace"} => job.rec \in Record
           /\ job.op = "delete" => job.rec = None
           /\ job.op = "idle" <=> job = NoJob
           /\ job.op = "save" => job.source \in Source
BY DEF Jobs, NoJob

-----------------------------------------------------------------------------
(* What a store access writes *)

Writes ==
    /\ keyring' \in {keyring, job.rec, None}
    /\ plaintext' \in {plaintext, job.rec, None, Cleared}

(* Writing a login to the keyring shows it to no Load it is hidden from.   *)
ShownByWrite ==
    \/ keyring' \in {keyring, None}
    \/ /\ keyring' = job.rec
       /\ Current' = job.rec \/ job.rec.login \notin reader.hidden
             \/ reader.at # "keyring"

LEMMA WriteTypes ==
    ASSUME TypeOK, UsedInv, Writes
    PROVE  /\ keyring' \in Record \cup {None, Invalid}
           /\ plaintext' \in Record \cup {None, Invalid, Cleared}
           /\ LoginOf(keyring') \subseteq used /\ LoginOf(plaintext') \subseteq used
           /\ Current' \in Record \cup {None, Invalid}
           /\ LoginOf(Current') \subseteq used
<1>1. job.rec \in Record \cup {None}
  BY JobTypes DEF TypeOK
<1>2. /\ keyring' \in Record \cup {None, Invalid}
      /\ plaintext' \in Record \cup {None, Invalid, Cleared}
  BY <1>1 DEF Writes, TypeOK
<1>3. LoginOf(keyring') \subseteq used /\ LoginOf(plaintext') \subseteq used
  BY Logins DEF Writes, UsedInv
<1>4. Current' = Visible(keyring', plaintext')
  BY DEF Current
<1> QED
  BY <1>2, <1>3, <1>4, VisibleCases, Logins

(* What Track does to the retired logins and to a Load under way. *)
LEMMA TrackEffect ==
    ASSUME IInv, Writes, ShownByWrite, UNCHANGED used,
           NEW given \in SUBSET LoginOf(job.rec), Track(given)
    PROVE  /\ retired' \subseteq used
           /\ LoginOf(Current') \cap retired' = {}
           /\ retired' = (retired \cup LoginOf(Current) \cup given) \ LoginOf(Current')
           /\ reader' \in [at : {"idle", "keyring", "done"},
                           got : Record \cup {None, Invalid}, hidden : SUBSET Login]
           /\ reader'.hidden \subseteq used
           /\ reader'.hidden \subseteq reader.hidden
           /\ reader'.at = "keyring" => LoginOf(keyring') \cap reader'.hidden = {}
           /\ NoRetiredRead'
<1>1. Current' = Visible(keyring', plaintext')
  BY DEF Current
<1>2. /\ retired' = (retired \cup LoginOf(Current) \cup given) \ LoginOf(Current')
      /\ Unhide(LoginOf(Current'))
  BY <1>1 DEF Track
<1>3. LoginOf(Current) \subseteq used
  <2>1. Current \in {keyring, plaintext, None}
    BY DEF Current, Visible
  <2> QED
    BY <2>1, Logins DEF IInv, UsedInv
<1>4. retired' \subseteq used /\ LoginOf(Current') \cap retired' = {}
  BY <1>2, <1>3 DEF IInv, TypeOK, UsedInv
<1>5. /\ reader \in [at : {"idle", "keyring", "done"},
                     got : Record \cup {None, Invalid}, hidden : SUBSET Login]
      /\ reader.hidden \subseteq used
  BY DEF IInv, TypeOK, UsedInv
<1>6. CASE reader.at # "keyring"
  <2>1. reader' = reader
    BY <1>2, <1>6 DEF Unhide
  <2> QED
    BY <1>2, <1>4, <1>5, <1>6, <2>1 DEF IInv, NoRetiredRead
<1>7. CASE reader.at = "keyring"
  <2>1. reader' = [reader EXCEPT !.hidden = reader.hidden \ LoginOf(Current')]
    BY <1>2, <1>7 DEF Unhide
  <2>2. /\ reader'.at = "keyring" /\ reader'.got = reader.got
        /\ reader'.hidden = reader.hidden \ LoginOf(Current')
    BY <1>5, <1>7, <2>1
  <2>3. reader' \in [at : {"idle", "keyring", "done"},
                     got : Record \cup {None, Invalid}, hidden : SUBSET Login]
    BY <1>5, <2>1
  <2>4. LoginOf(keyring') \cap reader'.hidden = {}
    <3>1. CASE keyring' \in {keyring, None}
      BY <1>7, <2>2, <3>1, Logins DEF IInv, ReaderInv
    <3>2. CASE keyring' = job.rec /\ Current' = job.rec
      BY <2>2, <3>2
    <3>3. CASE keyring' = job.rec /\ job.rec.login \notin reader.hidden
      <4>1. LoginOf(keyring') \subseteq {job.rec.login}
        BY <3>3 DEF LoginOf
      <4> QED
        BY <2>2, <3>3, <4>1
    <3> QED
      BY <1>7, <3>1, <3>2, <3>3 DEF ShownByWrite
  <2> QED
    BY <1>2, <1>4, <1>5, <2>2, <2>3, <2>4 DEF NoRetiredRead
<1> QED
  BY <1>6, <1>7

-----------------------------------------------------------------------------
(* The invariant and the two ways a store access ends *)

LEMMA AdvanceInv ==
    ASSUME IInv, Writes, ShownByWrite,
           NEW s \in Steps \ {"idle", "save", "keyringSave"}, Advance(s), StageInv',
           step # "save", step # "idle",
           job.op = "replace" => Current' \in {Current, job.rec}
    PROVE  IInv'
<1>1. /\ UNCHANGED <<job, result, undo, used>> /\ step' = s /\ Track({})
  BY DEF Advance
<1>2. /\ retired' \subseteq used
      /\ LoginOf(Current') \cap retired' = {}
      /\ retired' = (retired \cup LoginOf(Current)) \ LoginOf(Current')
      /\ reader' \in [at : {"idle", "keyring", "done"},
                      got : Record \cup {None, Invalid}, hidden : SUBSET Login]
      /\ reader'.hidden \subseteq used
      /\ reader'.hidden \subseteq reader.hidden
      /\ reader'.at = "keyring" => LoginOf(keyring') \cap reader'.hidden = {}
      /\ NoRetiredRead'
  <2>1. {} \in SUBSET LoginOf(job.rec)
    OBVIOUS
  <2> QED
    BY <1>1, <2>1, TrackEffect
<1>3. TypeOK' /\ UsedInv'
  BY <1>1, <1>2, WriteTypes DEF IInv, TypeOK, UsedInv
<1>4. SaveInv'
  BY <1>1 DEF IInv, StageInv, SaveInv
<1>5. UndoInv'
  BY <1>1 DEF IInv, UndoInv
<1>6. RetiredInv'
  <2>1. ASSUME job.op = "replace" PROVE job.rec.login \notin retired' \cup reader'.hidden
    <3>1. job.rec \in Record
      BY <2>1, JobTypes DEF IInv, TypeOK
    <3>2. LoginOf(job.rec) = {job.rec.login}
      BY <3>1, Logins
    <3>3. job.rec.login \notin retired \cup reader.hidden
      BY <2>1 DEF IInv, RetiredInv
    <3> QED
      BY <1>2, <2>1, <3>2, <3>3
  <2> QED
    BY <1>1, <1>2, <2>1 DEF RetiredInv
<1>7. ReaderInv'
  BY <1>1, <1>2 DEF ReaderInv
<1> QED
  BY <1>2, <1>3, <1>4, <1>5, <1>6, <1>7 DEF IInv

LEMMA FinishInv ==
    ASSUME IInv, Writes, ShownByWrite, step # "idle",
           NEW r \in {"ok", "error", "crash"}, Finish(r)
    PROVE  IInv'
<1>1. /\ step' = "idle" /\ job' = NoJob /\ result' = r /\ UNCHANGED used
      /\ Track(IF r = "ok" THEN {} ELSE LoginOf(job.rec))
  BY DEF Finish
<1>2. /\ retired' \subseteq used
      /\ LoginOf(Current') \cap retired' = {}
      /\ reader' \in [at : {"idle", "keyring", "done"},
                      got : Record \cup {None, Invalid}, hidden : SUBSET Login]
      /\ reader'.hidden \subseteq used
      /\ reader'.at = "keyring" => LoginOf(keyring') \cap reader'.hidden = {}
      /\ NoRetiredRead'
  <2>1. (IF r = "ok" THEN {} ELSE LoginOf(job.rec)) \in SUBSET LoginOf(job.rec)
    OBVIOUS
  <2> QED
    BY <1>1, <2>1, TrackEffect
<1>3. /\ NoJob.op = "idle" /\ NoJob.rec = None /\ NoJob \in Jobs
  BY DEF NoJob, Jobs
<1>4. /\ undo' \in [Login -> [previous : Record \cup {None},
                             source : Source \cup {"none"}]]
      /\ \A l \in Login : undo'[l] \in {undo[l], NoUndo}
  <2>1. NoUndo \in [previous : Record \cup {None}, source : Source \cup {"none"}]
    BY DEF NoUndo
  <2>2. undo' = undo \/ undo' = [undo EXCEPT ![job.rec.login] = NoUndo]
    BY DEF Finish
  <2> QED
    BY <2>1, <2>2 DEF IInv, TypeOK
<1>5. NoUndo.previous = None
  BY DEF NoUndo
<1>6. TypeOK'
  BY <1>1, <1>2, <1>3, <1>4, WriteTypes DEF IInv, TypeOK, Steps
<1>7. UsedInv'
  BY <1>1, <1>2, <1>3, <1>4, <1>5, WriteTypes, Logins DEF IInv, UsedInv
<1>8. StageInv'
  BY <1>1, <1>3 DEF StageInv
<1>9. UndoInv'
  BY <1>4, <1>5, RecordAssumption DEF IInv, UndoInv
<1>10. SaveInv' /\ RetiredInv' /\ ReaderInv'
  BY <1>1, <1>2, <1>3 DEF SaveInv, RetiredInv, ReaderInv
<1> QED
  BY <1>2, <1>6, <1>7, <1>8, <1>9, <1>10 DEF IInv

-----------------------------------------------------------------------------
(* Every step preserves the invariant *)

LEMMA StoreStepInv ==
    ASSUME IInv, NEW ok \in BOOLEAN, StoreStep(ok)
    PROVE  IInv'
<1>1. step # "idle"
  BY DEF StoreStep, SaveStep, KeyringSave, DropPlaintext, UndoKeyring,
         PlaintextSave, DropKeyring, DeleteKeyring, Tombstone, DeletePlaintext
<1>2. Outcome(ok) \in {"ok", "error", "crash"}
  BY DEF Outcome
<1>3. StageInv /\ SaveInv /\ TypeOK
  BY DEF IInv
<1>4. job.op \in {"save", "replace", "restore"} => job.rec \in Record
  BY <1>3, JobTypes DEF TypeOK
<1>5. job.op = "delete" => job.rec = None
  BY <1>3, JobTypes DEF TypeOK
<1>6. CASE SaveStep(ok)
  <2>1. Writes /\ Finish(Outcome(ok)) /\ job.op = "save"
    BY <1>3, <1>6 DEF SaveStep, PutKeyring, PutPlaintext, Writes, StageInv
  <2>2. ShownByWrite
    <3>1. CASE job.source = "keyring" /\ ok
      <4>1. plaintext' = None /\ keyring' = job.rec
        BY <1>3, <1>6, <2>1, <3>1 DEF SaveStep, PutKeyring, SaveInv, LoadedFrom
      <4> QED
        BY <4>1 DEF ShownByWrite, Current, Visible
    <3>2. CASE ~(job.source = "keyring" /\ ok)
      BY <1>6, <3>2 DEF SaveStep, PutKeyring, PutPlaintext, ShownByWrite
    <3> QED
      BY <3>1, <3>2
  <2> QED
    BY <1>1, <1>2, <2>1, <2>2, FinishInv
<1>7. CASE KeyringSave(ok)
  <2>1. Writes /\ job.op \in {"replace", "restore"} /\ plaintext' = plaintext
    BY <1>3, <1>7 DEF KeyringSave, PutKeyring, Writes, StageInv
  <2>2. ShownByWrite
    <3>1. CASE ~ok
      BY <1>7, <3>1 DEF KeyringSave, PutKeyring, ShownByWrite
    <3>2. CASE ok /\ plaintext = None
      BY <1>7, <3>2 DEF KeyringSave, PutKeyring, ShownByWrite, Current, Visible
    <3>3. CASE ok /\ job.op = "replace"
      BY <1>7, <3>3 DEF KeyringSave, PutKeyring, ShownByWrite, IInv, RetiredInv
    <3>4. CASE ok /\ job.op = "restore" /\ plaintext # None
      <4>1. CASE job.rec.login \notin reader.hidden
        BY <1>7, <3>4, <4>1 DEF KeyringSave, PutKeyring, ShownByWrite
      <4>2. CASE job.rec.login \in reader.hidden
        <5>1. reader.at # "keyring"
          BY <1>7, <3>4, <4>2 DEF KeyringSave, IInv, ReaderInv
        <5> QED
          BY <1>7, <3>4, <5>1 DEF KeyringSave, PutKeyring, ShownByWrite
      <4> QED
        BY <4>1, <4>2
    <3> QED
      BY <2>1, <3>1, <3>2, <3>3, <3>4
  <2>3. CASE Finish("error")
    BY <1>1, <2>1, <2>2, <2>3, FinishInv
  <2>4. CASE ok /\ Advance("dropPlaintext")
    <3>1. Current' \in {Current, job.rec}
      BY <1>7, <2>1, <2>4 DEF KeyringSave, PutKeyring, Current, Visible
    <3>2. StageInv'
      BY <1>3, <1>7, <2>1, <2>4 DEF Advance, StageInv, KeyringSave, PutKeyring, NoJob
    <3> QED
      BY <1>1, <1>7, <2>1, <2>2, <2>4, <3>1, <3>2, AdvanceInv DEF KeyringSave, Steps
  <2>5. CASE ~ok /\ Advance("plaintextSave")
    <3>1. Current' = Current
      BY <1>7, <2>1, <2>5 DEF KeyringSave, PutKeyring, Current
    <3>2. StageInv'
      BY <1>3, <2>1, <2>5 DEF Advance, StageInv, NoJob
    <3> QED
      BY <1>1, <1>7, <2>1, <2>2, <2>5, <3>1, <3>2, AdvanceInv DEF KeyringSave, Steps
  <2> QED
    BY <1>7, <2>3, <2>4, <2>5 DEF KeyringSave
<1>8. CASE DropPlaintext(ok)
  <2>1. /\ Writes /\ ShownByWrite /\ keyring' = keyring
        /\ job.op \in {"replace", "restore"}
    BY <1>3, <1>8 DEF DropPlaintext, PutPlaintext, Writes, ShownByWrite, StageInv
  <2>2. CASE Finish(Outcome(ok))
    BY <1>1, <1>2, <2>1, <2>2, FinishInv
  <2>3. CASE ~ok /\ job.op # "restore" /\ Advance("undoKeyring")
    <3>1. Current' = Current
      BY <1>8, <2>1, <2>3 DEF DropPlaintext, PutPlaintext, Current
    <3>2. StageInv'
      BY <1>3, <2>1, <2>3 DEF Advance, StageInv, NoJob
    <3> QED
      BY <1>1, <1>8, <2>1, <2>3, <3>1, <3>2, AdvanceInv DEF DropPlaintext, Steps
  <2> QED
    BY <1>8, <2>2, <2>3 DEF DropPlaintext
<1>9. CASE UndoKeyring(ok)
  <2>1. Writes /\ ShownByWrite /\ Finish("error")
    BY <1>9 DEF UndoKeyring, PutKeyring, Writes, ShownByWrite
  <2> QED
    BY <1>1, <2>1, FinishInv
<1>10. CASE PlaintextSave(ok)
  <2>1. /\ Writes /\ ShownByWrite /\ keyring' = keyring
        /\ job.op \in {"replace", "restore"}
    BY <1>3, <1>10 DEF PlaintextSave, PutPlaintext, Writes, ShownByWrite, StageInv
  <2>2. CASE Finish("error")
    BY <1>1, <2>1, <2>2, FinishInv
  <2>3. CASE ok /\ Advance("dropKeyring")
    <3>1. plaintext' = job.rec
      BY <1>10, <2>3 DEF PlaintextSave, PutPlaintext
    <3>2. Current' = job.rec
      BY <1>4, <2>1, <3>1, RecordAssumption DEF Current, Visible
    <3>3. StageInv'
      BY <1>3, <2>1, <2>3, <3>1 DEF Advance, StageInv, NoJob
    <3> QED
      BY <1>1, <1>10, <2>1, <2>3, <3>2, <3>3, AdvanceInv DEF PlaintextSave, Steps
  <2> QED
    BY <1>10, <2>2, <2>3 DEF PlaintextSave
<1>11. CASE DropKeyring(ok)
  <2>1. Writes /\ ShownByWrite
    BY <1>11 DEF DropKeyring, PutKeyring, Writes, ShownByWrite
  <2>2. CASE Finish(Outcome(ok))
    BY <1>1, <1>2, <2>1, <2>2, FinishInv
  <2>3. CASE Finish("ok")
    BY <1>1, <2>1, <2>3, FinishInv
  <2> QED
    BY <1>11, <2>2, <2>3 DEF DropKeyring
<1>12. CASE DeleteKeyring(ok)
  <2>1. Writes /\ ShownByWrite /\ job.op = "delete" /\ plaintext' = plaintext
    BY <1>3, <1>12 DEF DeleteKeyring, PutKeyring, Writes, ShownByWrite, StageInv
  <2>2. CASE ok /\ Advance("deletePlaintext")
    <3>1. StageInv'
      BY <1>3, <1>12, <2>1, <2>2
      DEF DeleteKeyring, PutKeyring, Advance, StageInv, NoJob
    <3> QED
      BY <1>1, <1>12, <2>1, <2>2, <3>1, AdvanceInv DEF DeleteKeyring, Steps
  <2>3. CASE ~ok /\ Advance("tombstone")
    <3>1. StageInv'
      BY <1>3, <2>1, <2>3 DEF Advance, StageInv, NoJob
    <3> QED
      BY <1>1, <1>12, <2>1, <2>3, <3>1, AdvanceInv DEF DeleteKeyring, Steps
  <2> QED
    BY <1>12, <2>2, <2>3 DEF DeleteKeyring
<1>13. CASE Tombstone(ok)
  <2>1. Writes /\ ShownByWrite /\ Finish("error")
    BY <1>13 DEF Tombstone, PutPlaintext, Writes, ShownByWrite
  <2> QED
    BY <1>1, <2>1, FinishInv
<1>14. CASE DeletePlaintext(ok)
  <2>1. Writes /\ ShownByWrite /\ Finish(Outcome(ok))
    BY <1>14 DEF DeletePlaintext, PutPlaintext, Writes, ShownByWrite
  <2> QED
    BY <1>1, <1>2, <2>1, FinishInv
<1> QED
  BY <1>6, <1>7, <1>8, <1>9, <1>10, <1>11, <1>12, <1>13, <1>14 DEF StoreStep

LEMMA CrashInv ==
    ASSUME IInv, Crash
    PROVE  IInv'
<1>1. Writes /\ ShownByWrite /\ step # "idle" /\ Finish("crash")
  BY DEF Crash, storeVars, Writes, ShownByWrite
<1> QED
  BY <1>1, FinishInv

(* A call starts: nothing is written, and a Load under way may see a login *)
(* that is restored.                                                       *)
LEMMA StartEffect ==
    ASSUME IInv, NEW j \in Jobs, NEW s \in Steps, Start(j, s)
    PROVE  /\ step = "idle" /\ job' = j /\ step' = s
           /\ UNCHANGED <<keyring, plaintext, result, retired>>
           /\ UNCHANGED <<Current, LoadedFrom>>
           /\ reader' \in [at : {"idle", "keyring", "done"},
                           got : Record \cup {None, Invalid}, hidden : SUBSET Login]
           /\ reader'.hidden \subseteq reader.hidden
           /\ reader'.at = "keyring" =>
                 /\ LoginOf(keyring') \cap reader'.hidden = {}
                 /\ j.op = "restore" => j.rec.login \notin reader'.hidden
           /\ NoRetiredRead'
<1>1. /\ step = "idle" /\ job' = j /\ step' = s
      /\ UNCHANGED <<keyring, plaintext, result, retired>>
      /\ Unhide(IF j.op = "restore" THEN LoginOf(j.rec) ELSE {})
  BY DEF Start
<1>2. UNCHANGED <<Current, LoadedFrom>>
  BY <1>1 DEF Current, LoadedFrom
<1>3. /\ reader \in [at : {"idle", "keyring", "done"},
                     got : Record \cup {None, Invalid}, hidden : SUBSET Login]
      /\ ReaderInv /\ NoRetiredRead
  BY DEF IInv, TypeOK
<1>4. j.op = "restore" => LoginOf(j.rec) = {j.rec.login}
  BY Logins DEF Jobs, NoJob
<1>5. CASE reader.at # "keyring"
  <2>1. reader' = reader
    BY <1>1, <1>5 DEF Unhide
  <2> QED
    BY <1>1, <1>2, <1>3, <1>5, <2>1 DEF NoRetiredRead
<1>6. CASE reader.at = "keyring"
  <2>1. PICK logins : /\ reader' = [reader EXCEPT !.hidden = reader.hidden \ logins]
                      /\ j.op = "restore" => logins = LoginOf(j.rec)
    BY <1>1, <1>6 DEF Unhide
  <2>2. /\ reader'.at = "keyring" /\ reader'.hidden = reader.hidden \ logins
        /\ reader' \in [at : {"idle", "keyring", "done"},
                        got : Record \cup {None, Invalid}, hidden : SUBSET Login]
    BY <1>3, <1>6, <2>1
  <2>3. j.op = "restore" => j.rec.login \notin reader'.hidden
    BY <1>4, <2>1, <2>2
  <2>4. LoginOf(keyring') \cap reader'.hidden = {}
    BY <1>1, <1>3, <1>6, <2>2 DEF ReaderInv
  <2> QED
    BY <1>1, <1>2, <2>2, <2>3, <2>4 DEF NoRetiredRead
<1> QED
  BY <1>5, <1>6

LEMMA CallInv ==
    ASSUME IInv,
           \/ CallSave
           \/ \E l \in Login, source \in {"new", "insecure"}, readable \in BOOLEAN :
                 CallReplace(l, source, readable)
           \/ \E l \in Login : CallRestore(l)
           \/ CallDelete
    PROVE  IInv'
<1> USE DEF NoJob
<1>1. TypeOK /\ UsedInv /\ StageInv /\ UndoInv /\ RetiredInv
  BY DEF IInv
<1>2. Current \in Record \cup {None, Invalid} /\ LoginOf(Current) \subseteq used
  <2>1. Current \in {keyring, plaintext, None}
    BY DEF Current, Visible
  <2> QED
    BY <1>1, <2>1, Logins, VisibleCases DEF TypeOK, UsedInv, Current
<1>3. LoadedFrom \in Source
  BY DEF LoadedFrom, Source
<1>4. Source \cup {"none"} = {"keyring", "plaintext", "none"}
  BY DEF Source
<1>5. ASSUME CallSave PROVE IInv'
  <2>1. PICK n \in {Current.rev, Current.rev + 1} :
           /\ Current \in Record /\ n <= MaxRev
           /\ Start([op |-> "save", rec |-> [Current EXCEPT !.rev = n],
                     source |-> LoadedFrom], "save")
           /\ UNCHANGED <<undo, used>>
    BY <1>5 DEF CallSave
  <2> DEFINE r == [Current EXCEPT !.rev = n]
             j == [op |-> "save", rec |-> r, source |-> LoadedFrom]
  <2>2. r \in Record /\ r.login = Current.login
    BY <2>1, RecordAssumption DEF Record
  <2>3. j \in Jobs /\ j.op = "save" /\ j.rec = r /\ j.source = LoadedFrom
    BY <2>2, <1>3 DEF Jobs
  <2>4. "save" \in Steps
    BY DEF Steps
  <2> HIDE DEF r, j
  <2>5. Start(j, "save")
    BY <2>1 DEF j, r
  <2>6. /\ job' = j /\ step' = "save"
        /\ UNCHANGED <<keyring, plaintext, result, retired, Current, LoadedFrom>>
        /\ reader' \in [at : {"idle", "keyring", "done"},
                        got : Record \cup {None, Invalid}, hidden : SUBSET Login]
        /\ reader'.hidden \subseteq reader.hidden
        /\ reader'.at = "keyring" => LoginOf(keyring') \cap reader'.hidden = {}
        /\ NoRetiredRead'
    BY <2>3, <2>4, <2>5, StartEffect
  <2>7. LoginOf(r) \subseteq used
    BY <1>2, <2>1, <2>2, Logins
  <2>8. TypeOK' /\ UsedInv'
    BY <1>1, <2>1, <2>3, <2>4, <2>6, <2>7 DEF TypeOK, UsedInv
  <2>9. StageInv' /\ SaveInv' /\ UndoInv' /\ RetiredInv' /\ ReaderInv'
    BY <1>1, <2>1, <2>2, <2>3, <2>6
    DEF StageInv, SaveInv, UndoInv, RetiredInv, ReaderInv
  <2> QED
    BY <2>6, <2>8, <2>9 DEF IInv
<1>6. ASSUME NEW l \in Login, NEW source \in {"new", "insecure"},
             NEW readable \in BOOLEAN, CallReplace(l, source, readable)
      PROVE  IInv'
  <2> DEFINE r == [login |-> l, rev |-> 0]
             j == [op |-> "replace", rec |-> r, source |-> source]
             s == IF source = "insecure" THEN "plaintextSave" ELSE "keyringSave"
             u == [previous |-> IF Current \in Record
                                    /\ (readable \/ LoadedFrom = "plaintext")
                                 THEN Current ELSE None,
                   source |-> LoadedFrom]
  <2>1. /\ l \notin used /\ Start(j, s) /\ used' = used \cup {l}
        /\ undo' = [undo EXCEPT ![l] = u]
    BY <1>6 DEF CallReplace
  <2>2. r \in Record /\ r.login = l /\ LoginOf(r) = {l}
    BY RecordAssumption, Logins DEF Record
  <2>3. j \in Jobs /\ j.op = "replace" /\ j.rec = r
    BY <2>2 DEF Jobs
  <2>4. s \in Steps /\ s \in {"plaintextSave", "keyringSave"}
    BY DEF Steps
  <2>5. /\ u.previous \in Record \cup {None} /\ u.source \in Source
        /\ u \in [previous : Record \cup {None}, source : Source \cup {"none"}]
        /\ LoginOf(u.previous) \subseteq used
    BY <1>2, <1>3, Logins
  <2> HIDE DEF r, j, s, u
  <2>6. /\ job' = j /\ step' = s
        /\ UNCHANGED <<keyring, plaintext, result, retired, Current, LoadedFrom>>
        /\ reader' \in [at : {"idle", "keyring", "done"},
                        got : Record \cup {None, Invalid}, hidden : SUBSET Login]
        /\ reader'.hidden \subseteq reader.hidden
        /\ reader'.at = "keyring" => LoginOf(keyring') \cap reader'.hidden = {}
        /\ NoRetiredRead'
    BY <2>1, <2>3, <2>4, StartEffect
  <2>7. /\ undo' \in [Login -> [previous : Record \cup {None},
                                source : Source \cup {"none"}]]
        /\ \A k \in Login : undo'[k] \in {undo[k], u}
    BY <1>1, <2>1, <2>5 DEF TypeOK
  <2>8. TypeOK' /\ UsedInv'
    BY <1>1, <2>1, <2>2, <2>3, <2>4, <2>5, <2>6, <2>7 DEF TypeOK, UsedInv
  <2>9. StageInv' /\ SaveInv' /\ ReaderInv'
    BY <1>1, <2>3, <2>4, <2>6 DEF StageInv, SaveInv, ReaderInv
  <2>10. RetiredInv'
    BY <1>1, <2>1, <2>2, <2>3, <2>6 DEF TypeOK, UsedInv, RetiredInv
  <2>11. UndoInv'
    BY <1>1, <2>5, <2>7 DEF UndoInv
  <2> QED
    BY <2>6, <2>8, <2>9, <2>10, <2>11 DEF IInv
<1>7. ASSUME NEW l \in Login, CallRestore(l), undo[l].previous \in Record
      PROVE  IInv'
  <2> DEFINE r == undo[l].previous
             j == [op |-> "restore", rec |-> r, source |-> undo[l].source]
             s == IF undo[l].source = "plaintext" THEN "plaintextSave"
                  ELSE "keyringSave"
  <2>1. Start(j, s) /\ undo' = [undo EXCEPT ![l] = NoUndo] /\ used' = used
    BY <1>7 DEF CallRestore
  <2>2. r \in Record /\ undo[l].source \in Source /\ LoginOf(r) \subseteq used
    BY <1>1, <1>7 DEF UndoInv, UsedInv
  <2>3. j \in Jobs /\ j.op = "restore" /\ j.rec = r
    BY <2>2 DEF Jobs
  <2>4. s \in Steps /\ s \in {"plaintextSave", "keyringSave"}
    BY DEF Steps
  <2> HIDE DEF r, j, s
  <2>5. /\ job' = j /\ step' = s
        /\ UNCHANGED <<keyring, plaintext, result, retired, Current, LoadedFrom>>
        /\ reader' \in [at : {"idle", "keyring", "done"},
                        got : Record \cup {None, Invalid}, hidden : SUBSET Login]
        /\ reader'.hidden \subseteq reader.hidden
        /\ reader'.at = "keyring" =>
              /\ LoginOf(keyring') \cap reader'.hidden = {}
              /\ j.op = "restore" => j.rec.login \notin reader'.hidden
        /\ NoRetiredRead'
    BY <2>1, <2>3, <2>4, StartEffect
  <2>6. /\ undo' \in [Login -> [previous : Record \cup {None},
                                source : Source \cup {"none"}]]
        /\ \A k \in Login : undo'[k] \in {undo[k], NoUndo}
        /\ NoUndo.previous = None
    BY <1>1, <2>1 DEF TypeOK, NoUndo
  <2>7. TypeOK' /\ UsedInv'
    BY <1>1, <2>1, <2>2, <2>3, <2>4, <2>5, <2>6, Logins DEF TypeOK, UsedInv
  <2>8. StageInv' /\ SaveInv' /\ RetiredInv' /\ ReaderInv'
    BY <1>1, <2>3, <2>4, <2>5 DEF StageInv, SaveInv, RetiredInv, ReaderInv
  <2>9. UndoInv'
    BY <1>1, <2>6, RecordAssumption DEF UndoInv
  <2> QED
    BY <2>5, <2>7, <2>8, <2>9 DEF IInv
<1>8. ASSUME UNCHANGED used,
             \/ undo' = undo
             \/ \E l \in Login : undo' = [undo EXCEPT ![l] = NoUndo],
             Start([op |-> "delete", rec |-> None, source |-> "none"],
                   "deleteKeyring")
      PROVE  IInv'
  <2> DEFINE j == [op |-> "delete", rec |-> None, source |-> "none"]
  <2>1. j \in Jobs /\ j.op = "delete" /\ j.rec = None /\ "deleteKeyring" \in Steps
    BY DEF Jobs, Steps
  <2> HIDE DEF j
  <2>2. Start(j, "deleteKeyring")
    BY <1>8 DEF j
  <2>3. /\ job' = j /\ step' = "deleteKeyring"
        /\ UNCHANGED <<keyring, plaintext, result, retired, Current, LoadedFrom>>
        /\ reader' \in [at : {"idle", "keyring", "done"},
                        got : Record \cup {None, Invalid}, hidden : SUBSET Login]
        /\ reader'.hidden \subseteq reader.hidden
        /\ reader'.at = "keyring" => LoginOf(keyring') \cap reader'.hidden = {}
        /\ NoRetiredRead'
    BY <2>1, <2>2, StartEffect
  <2>4. /\ undo' \in [Login -> [previous : Record \cup {None},
                                source : Source \cup {"none"}]]
        /\ \A k \in Login : undo'[k] \in {undo[k], NoUndo}
        /\ NoUndo.previous = None
    BY <1>1, <1>8 DEF TypeOK, NoUndo
  <2>5. TypeOK' /\ UsedInv'
    BY <1>1, <1>8, <2>1, <2>3, <2>4, Logins DEF TypeOK, UsedInv
  <2>6. StageInv' /\ SaveInv' /\ RetiredInv' /\ ReaderInv'
    BY <1>1, <2>1, <2>3 DEF StageInv, SaveInv, RetiredInv, ReaderInv
  <2>7. UndoInv'
    BY <1>1, <2>4, RecordAssumption DEF UndoInv
  <2> QED
    BY <2>3, <2>5, <2>6, <2>7 DEF IInv
<1>9. ASSUME NEW l \in Login, CallRestore(l), undo[l].previous \notin Record
      PROVE  IInv'
  BY <1>8, <1>9 DEF CallRestore
<1>10. ASSUME CallDelete PROVE IInv'
  BY <1>8, <1>10 DEF CallDelete
<1> QED
  BY <1>5, <1>6, <1>7, <1>9, <1>10

LEMMA ReadInv ==
    ASSUME IInv, ReadPlaintext \/ ReadKeyring
    PROVE  IInv'
<1>1. /\ UNCHANGED <<keyring, plaintext, job, step, result, undo, used, retired>>
      /\ UNCHANGED <<Current, LoadedFrom>>
  BY DEF ReadPlaintext, ReadKeyring, Current, LoadedFrom
<1>2. TypeOK /\ UsedInv /\ RetiredInv /\ ReaderInv
  BY DEF IInv
<1>3. Visible(None, plaintext) \in Record \cup {None, Invalid}
  BY <1>2, VisibleCases DEF TypeOK
<1>4. /\ reader' \in [at : {"idle", "keyring", "done"},
                      got : Record \cup {None, Invalid}, hidden : SUBSET Login]
      /\ reader'.hidden \in {retired, reader.hidden}
  <2>1. CASE ReadPlaintext
    BY <1>2, <1>3, <2>1 DEF ReadPlaintext, TypeOK
  <2>2. CASE ReadKeyring
    BY <1>2, <2>2 DEF ReadKeyring, TypeOK
  <2> QED
    BY <2>1, <2>2
<1>5. NoRetiredRead'
  <2>1. CASE ReadPlaintext /\ plaintext = None
    BY <2>1 DEF ReadPlaintext, NoRetiredRead
  <2>2. CASE ReadPlaintext /\ plaintext # None
    <3>1. reader'.got = Current /\ reader'.hidden = retired
      BY <2>2 DEF ReadPlaintext, Visible, Current
    <3> QED
      BY <1>2, <3>1 DEF RetiredInv, NoRetiredRead
  <2>3. CASE ReadKeyring
    <3>1. reader'.got = keyring /\ reader'.hidden = reader.hidden
      BY <1>2, <2>3 DEF ReadKeyring, TypeOK
    <3> QED
      BY <1>2, <2>3, <3>1 DEF ReadKeyring, ReaderInv, NoRetiredRead
  <2> QED
    BY <2>1, <2>2, <2>3
<1>6. ReaderInv'
  <2>1. CASE ReadPlaintext /\ plaintext = None
    <3>1. Current = keyring /\ reader'.hidden = retired
      BY <2>1 DEF ReadPlaintext, Visible, Current
    <3> QED
      BY <1>1, <1>2, <2>1, <3>1 DEF RetiredInv, ReaderInv
  <2>2. CASE ReadPlaintext /\ plaintext # None
    <3>1. reader'.at = "done"
      BY <2>2 DEF ReadPlaintext
    <3> QED
      BY <3>1 DEF ReaderInv
  <2>3. CASE ReadKeyring
    <3>1. reader'.at = "done"
      BY <1>2, <2>3 DEF ReadKeyring, TypeOK
    <3> QED
      BY <3>1 DEF ReaderInv
  <2> QED
    BY <2>1, <2>2, <2>3
<1>7. TypeOK' /\ UsedInv'
  BY <1>1, <1>2, <1>4 DEF TypeOK, UsedInv
<1>8. RetiredInv'
  <2>1. job.op = "replace" => job.rec.login \notin retired \cup reader'.hidden
    BY <1>2, <1>4 DEF RetiredInv
  <2> QED
    BY <1>1, <1>2, <2>1 DEF RetiredInv
<1>9. StageInv' /\ SaveInv' /\ UndoInv'
  BY <1>1 DEF IInv, StageInv, SaveInv, UndoInv
<1> QED
  BY <1>5, <1>6, <1>7, <1>8, <1>9 DEF IInv

LEMMA InitInv == Init => IInv
<1> SUFFICES ASSUME Init PROVE IInv
  OBVIOUS
<1>1. /\ Current \in {None, Invalid} /\ LoginOf(Current) = {}
      /\ LoginOf(keyring) = {} /\ LoginOf(plaintext) = {}
  BY Logins DEF Init, Current, Visible
<1>2. NoUndo.previous = None /\ NoJob.op = "idle" /\ NoJob.rec = None
  BY DEF NoUndo, NoJob
<1>3. TypeOK
  BY DEF Init, TypeOK, Jobs, Steps, NoUndo, NoRead
<1>4. UsedInv
  BY <1>1, <1>2, Logins DEF Init, UsedInv, NoRead
<1>5. StageInv /\ SaveInv
  BY <1>2 DEF Init, StageInv, SaveInv
<1>6. UndoInv
  BY <1>2, RecordAssumption DEF Init, UndoInv
<1>7. RetiredInv /\ ReaderInv /\ NoRetiredRead
  BY <1>1, <1>2 DEF Init, RetiredInv, ReaderInv, NoRetiredRead, NoRead
<1> QED
  BY <1>3, <1>4, <1>5, <1>6, <1>7 DEF IInv

LEMMA StutterInv ==
    ASSUME IInv, UNCHANGED vars
    PROVE  IInv'
<1>1. /\ UNCHANGED <<keyring, plaintext, job, step, result, undo, reader, used, retired>>
      /\ UNCHANGED <<Current, LoadedFrom>>
  BY DEF vars, Current, LoadedFrom
<1> QED
  BY <1>1 DEF IInv, TypeOK, UsedInv, StageInv, SaveInv, UndoInv, RetiredInv,
              ReaderInv, NoRetiredRead

(* The invariant the results below follow from: where each call is, what   *)
(* the stores hold by then, and which logins no Load can meet any more.    *)
THEOREM InductiveInvariant == Spec => []IInv
<1>1. Init => IInv
  BY InitInv
<1>2. IInv /\ [Next]_vars => IInv'
  BY StoreStepInv, CrashInv, CallInv, ReadInv, StutterInv DEF Next
<1> QED
  BY <1>1, <1>2, PTL DEF Spec

(* Type correctness: what either store, a call and a Load may hold.        *)
THEOREM TypeCorrect == Spec => []TypeOK
<1>1. IInv => TypeOK
  BY DEF IInv
<1> QED
  BY <1>1, InductiveInvariant, PTL

(* NoRetiredRead: a Load without the lock returns no login that was gone   *)
(* when it began, whatever is written between its two accesses.            *)
THEOREM NoRetiredReadHolds == Spec => []NoRetiredRead
<1>1. IInv => NoRetiredRead
  BY DEF IInv
<1> QED
  BY <1>1, InductiveInvariant, PTL

-----------------------------------------------------------------------------
(* The two stores are one record *)

LEMMA SlotInitially == Init => Slot!SlotInit
BY RecordAssumption
DEF Init, Slot!SlotInit, Slot!Idle, Current, Visible, NoJob

(* How a call ends that leaves what is visible, or installs its target, or *)
(* gives up on a new login.                                                *)
LEMMA FinishMoves ==
    ASSUME IInv, step # "idle", NEW r \in {"ok", "error", "crash"}, Finish(r),
           \/ Current' = Current /\ (r = "ok" => Current = job.rec)
           \/ Current' = job.rec
           \/ job.op = "replace" /\ r = "error" /\ Current' = None
    PROVE  Slot!SlotNext
<1>1. job # NoJob /\ job \in Jobs
  BY DEF IInv, StageInv, TypeOK
<1>2. job.op # "idle"
  BY <1>1, JobTypes
<1>3. job' = NoJob /\ result' = r /\ NoJob.op = "idle" /\ NoJob.rec = None
  BY DEF Finish, NoJob
<1>4. CASE Current' = Current /\ (r = "ok" => Current = job.rec)
  <2>1. Slot!Return(r)
    BY <1>2, <1>3, <1>4 DEF Slot!Return, Slot!Idle
  <2> QED
    BY <2>1 DEF Slot!SlotNext
<1>5. CASE Current' = job.rec
  <2>1. Slot!CommitAndReturn(r)
    BY <1>2, <1>3, <1>5 DEF Slot!CommitAndReturn, Slot!Idle
  <2> QED
    BY <2>1 DEF Slot!SlotNext
<1>6. CASE job.op = "replace" /\ r = "error" /\ Current' = None
  <2>1. Slot!GiveUpAndReturn
    BY <1>3, <1>6 DEF Slot!GiveUpAndReturn, Slot!Idle
  <2> QED
    BY <2>1 DEF Slot!SlotNext
<1> QED
  BY <1>4, <1>5, <1>6

LEMMA AdvanceMoves ==
    ASSUME IInv, step # "idle", NEW s, Advance(s), Current' \in {Current, job.rec}
    PROVE  Slot!SlotNext \/ UNCHANGED Slot!slotVars
<1>1. job # NoJob /\ job \in Jobs
  BY DEF IInv, StageInv, TypeOK
<1>2. job.op # "idle"
  BY <1>1, JobTypes
<1>3. job' = job /\ result' = result
  BY DEF Advance
<1>4. CASE Current' = Current
  BY <1>3, <1>4 DEF Slot!slotVars
<1>5. CASE Current' = job.rec
  <2>1. Slot!Commit
    BY <1>2, <1>3, <1>5 DEF Slot!Commit, Slot!Idle
  <2> QED
    BY <2>1 DEF Slot!SlotNext
<1> QED
  BY <1>4, <1>5

LEMMA StoreStepMoves ==
    ASSUME IInv, NEW ok \in BOOLEAN, StoreStep(ok)
    PROVE  Slot!SlotNext \/ UNCHANGED Slot!slotVars
<1>1. step # "idle"
  BY DEF StoreStep, SaveStep, KeyringSave, DropPlaintext, UndoKeyring,
         PlaintextSave, DropKeyring, DeleteKeyring, Tombstone, DeletePlaintext
<1>2. Outcome(ok) \in {"ok", "error", "crash"} /\ (Outcome(ok) = "ok" <=> ok)
  BY DEF Outcome
<1>3. StageInv /\ SaveInv /\ TypeOK
  BY DEF IInv
<1>4. job.op \in {"save", "replace", "restore"} => job.rec \in Record
  BY <1>3, JobTypes DEF TypeOK
<1>5. job.op = "delete" => job.rec = None
  BY <1>3, JobTypes DEF TypeOK
<1>6. \A k, f : f \in Record => Visible(k, f) = f
  BY RecordAssumption DEF Visible
<1>7. \A k, f : f = None => Visible(k, f) = k
  BY DEF Visible
<1>8. Current = Visible(keyring, plaintext) /\ Current' = Visible(keyring', plaintext')
  BY DEF Current
<1>9. CASE SaveStep(ok)
  <2>1. Finish(Outcome(ok)) /\ job.rec \in Record
    BY <1>3, <1>4, <1>9 DEF SaveStep, StageInv
  <2>2. CASE ~ok
    <3>1. Current' = Current
      BY <1>8, <1>9, <2>2 DEF SaveStep, PutKeyring, PutPlaintext
    <3> QED
      BY <1>1, <1>2, <2>1, <2>2, <3>1, FinishMoves
  <2>3. CASE ok
    <3>1. job.source = "keyring" => plaintext = None
      BY <1>3, <1>9 DEF SaveStep, StageInv, SaveInv, LoadedFrom
    <3>2. Current' = job.rec
      BY <1>6, <1>7, <1>8, <1>9, <2>1, <2>3, <3>1
      DEF SaveStep, PutKeyring, PutPlaintext
    <3> QED
      BY <1>1, <1>2, <2>1, <3>2, FinishMoves
  <2> QED
    BY <2>2, <2>3
<1>10. CASE KeyringSave(ok)
  <2>1. CASE ok
    <3>1. Current' \in {Current, job.rec}
      BY <1>8, <1>10, <2>1 DEF KeyringSave, PutKeyring, Visible
    <3> QED
      BY <1>1, <1>10, <2>1, <3>1, AdvanceMoves DEF KeyringSave
  <2>2. CASE ~ok
    <3>1. Current' = Current
      BY <1>8, <1>10, <2>2 DEF KeyringSave, PutKeyring
    <3>2. Finish("error") \/ Advance("plaintextSave")
      BY <1>10, <2>2 DEF KeyringSave
    <3> QED
      BY <1>1, <3>1, <3>2, AdvanceMoves, FinishMoves
  <2> QED
    BY <2>1, <2>2
<1>11. CASE DropPlaintext(ok)
  <2>1. CASE ok
    <3>1. Current' = job.rec
      BY <1>3, <1>7, <1>8, <1>11, <2>1 DEF DropPlaintext, PutPlaintext, StageInv
    <3> QED
      BY <1>1, <1>2, <1>11, <2>1, <3>1, FinishMoves DEF DropPlaintext
  <2>2. CASE ~ok
    <3>1. Current' = Current
      BY <1>8, <1>11, <2>2 DEF DropPlaintext, PutPlaintext
    <3>2. Finish(Outcome(ok)) \/ Advance("undoKeyring")
      BY <1>11 DEF DropPlaintext
    <3> QED
      BY <1>1, <1>2, <2>2, <3>1, <3>2, AdvanceMoves, FinishMoves
  <2> QED
    BY <2>1, <2>2
<1>12. CASE UndoKeyring(ok)
  <2>1. job.op = "replace" /\ Finish("error")
    BY <1>3, <1>12 DEF UndoKeyring, StageInv
  <2>2. Current' \in {Current, None}
    BY <1>8, <1>12 DEF UndoKeyring, PutKeyring, Visible
  <2> QED
    BY <1>1, <2>1, <2>2, FinishMoves
<1>13. CASE PlaintextSave(ok)
  <2>1. job.rec \in Record
    BY <1>3, <1>4, <1>13 DEF PlaintextSave, StageInv
  <2>2. CASE ok
    <3>1. Current' = job.rec
      BY <1>6, <1>8, <1>13, <2>1, <2>2 DEF PlaintextSave, PutPlaintext
    <3> QED
      BY <1>1, <1>13, <2>2, <3>1, AdvanceMoves DEF PlaintextSave
  <2>3. CASE ~ok
    <3>1. Current' = Current
      BY <1>8, <1>13, <2>3 DEF PlaintextSave, PutPlaintext
    <3> QED
      BY <1>1, <1>13, <2>3, <3>1, FinishMoves DEF PlaintextSave
  <2> QED
    BY <2>2, <2>3
<1>14. CASE DropKeyring(ok)
  <2>1. plaintext = job.rec /\ plaintext' = plaintext /\ job.rec \in Record
    BY <1>3, <1>4, <1>14 DEF DropKeyring, StageInv
  <2>2. Current' = job.rec
    BY <1>6, <1>8, <2>1
  <2>3. Finish(Outcome(ok)) \/ Finish("ok")
    BY <1>14 DEF DropKeyring
  <2> QED
    BY <1>1, <1>2, <2>2, <2>3, FinishMoves
<1>15. CASE DeleteKeyring(ok)
  <2>1. job.rec = None
    BY <1>3, <1>5, <1>15 DEF DeleteKeyring, StageInv
  <2>2. Current' \in {Current, job.rec}
    BY <1>8, <1>15, <2>1 DEF DeleteKeyring, PutKeyring, Visible
  <2> QED
    BY <1>1, <1>15, <2>2, AdvanceMoves DEF DeleteKeyring
<1>16. CASE Tombstone(ok)
  <2>1. job.rec = None /\ Finish("error")
    BY <1>3, <1>5, <1>16 DEF Tombstone, StageInv
  <2>2. Current' \in {Current, job.rec}
    BY <1>8, <1>16, <2>1, RecordAssumption DEF Tombstone, PutPlaintext, Visible
  <2> QED
    BY <1>1, <2>1, <2>2, FinishMoves
<1>17. CASE DeletePlaintext(ok)
  <2>1. job.rec = None /\ keyring = None /\ Finish(Outcome(ok))
    BY <1>3, <1>5, <1>17 DEF DeletePlaintext, StageInv
  <2>2. CASE ok
    <3>1. Current' = job.rec
      BY <1>7, <1>8, <1>17, <2>1, <2>2 DEF DeletePlaintext, PutPlaintext
    <3> QED
      BY <1>1, <1>2, <2>1, <3>1, FinishMoves
  <2>3. CASE ~ok
    <3>1. Current' = Current
      BY <1>8, <1>17, <2>3 DEF DeletePlaintext, PutPlaintext
    <3> QED
      BY <1>1, <1>2, <2>1, <2>3, <3>1, FinishMoves
  <2> QED
    BY <2>2, <2>3
<1> QED
  BY <1>9, <1>10, <1>11, <1>12, <1>13, <1>14, <1>15, <1>16, <1>17 DEF StoreStep

LEMMA CrashMoves ==
    ASSUME IInv, Crash
    PROVE  Slot!SlotNext
<1>1. Current' = Current
  BY DEF Crash, storeVars, Current
<1> QED
  BY <1>1, FinishMoves DEF Crash

LEMMA StartMoves ==
    ASSUME IInv, IInv', NEW j, NEW s, Start(j, s), s # "idle"
    PROVE  Slot!SlotNext
<1>1. /\ job' = j /\ step' = s /\ step = "idle"
      /\ UNCHANGED <<keyring, plaintext, result>>
  BY DEF Start
<1>2. UNCHANGED Current /\ job = NoJob
  BY <1>1 DEF Current, IInv, StageInv
<1>3. j \in Jobs /\ j # NoJob
  BY <1>1 DEF IInv, TypeOK, StageInv
<1>4. j.op # "idle" /\ [op |-> j.op, target |-> j.rec] \in Slot!Calls
  BY <1>3 DEF Jobs, NoJob, Slot!Calls, Record, Slot!Record
<1>5. j.op = "save" => Current \in Record /\ Current.login = j.rec.login
  BY <1>1, <1>2 DEF IInv, SaveInv
<1>6. Slot!Call([op |-> j.op, target |-> j.rec])
  BY <1>1, <1>2, <1>5 DEF Slot!Call, Slot!Idle, NoJob, Record, Slot!Record
<1> QED
  BY <1>4, <1>6 DEF Slot!SlotNext

LEMMA NextMoves ==
    ASSUME IInv, IInv', [Next]_vars
    PROVE  Slot!SlotNext \/ UNCHANGED Slot!slotVars
<1>1. ASSUME CallSave PROVE Slot!SlotNext
  BY <1>1, StartMoves DEF CallSave
<1>2. ASSUME NEW l \in Login, NEW source \in {"new", "insecure"},
             NEW readable \in BOOLEAN, CallReplace(l, source, readable)
      PROVE  Slot!SlotNext
  <2>1. CASE source = "insecure"
    BY <1>2, <2>1, StartMoves DEF CallReplace
  <2>2. CASE source = "new"
    BY <1>2, <2>2, StartMoves DEF CallReplace
  <2> QED
    BY <2>1, <2>2
<1>3. ASSUME NEW l \in Login, CallRestore(l) PROVE Slot!SlotNext
  <2>1. CASE undo[l].previous \in Record /\ undo[l].source = "plaintext"
    BY <1>3, <2>1, StartMoves DEF CallRestore
  <2>2. CASE undo[l].previous \in Record /\ undo[l].source # "plaintext"
    BY <1>3, <2>2, StartMoves DEF CallRestore
  <2>3. CASE undo[l].previous \notin Record
    BY <1>3, <2>3, StartMoves DEF CallRestore
  <2> QED
    BY <2>1, <2>2, <2>3
<1>4. ASSUME CallDelete PROVE Slot!SlotNext
  BY <1>4, StartMoves DEF CallDelete
<1>5. ASSUME ReadPlaintext \/ ReadKeyring \/ UNCHANGED vars
      PROVE  UNCHANGED Slot!slotVars
  BY <1>5 DEF ReadPlaintext, ReadKeyring, vars, Slot!slotVars, Current
<1> QED
  BY <1>1, <1>2, <1>3, <1>4, <1>5, StoreStepMoves, CrashMoves DEF Next

(* The credential stores implement the single record the auth manager       *)
(* relies on, whichever accesses fail and wherever the process is killed.  *)
THEOREM StoresImplementSlot == Spec => SlotSpec
<1>1. IInv /\ IInv' /\ [Next]_vars => [Slot!SlotNext]_(Slot!slotVars)
  BY NextMoves
<1> QED
  BY <1>1, SlotInitially, InductiveInvariant, PTL DEF Spec, SlotSpec, Slot!SlotSpec

-----------------------------------------------------------------------------
(* Logins that are gone *)

LEMMA SlotTargets ==
    ASSUME Slot!SlotNext \/ UNCHANGED Slot!slotVars
    PROVE  Current' \in {Current, job.rec, None}
<1>1. CASE Slot!SlotNext
  BY <1>1 DEF Slot!SlotNext, Slot!Call, Slot!Commit, Slot!GiveUp, Slot!Return,
              Slot!CommitAndReturn, Slot!GiveUpAndReturn
<1>2. CASE UNCHANGED Slot!slotVars
  BY <1>2 DEF Slot!slotVars
<1> QED
  BY <1>1, <1>2

(* NoResurrection: a login that was replaced, logged out or given up never *)
(* becomes the visible one again, but by RestoreLogin.                     *)
THEOREM NoResurrectionHolds == Spec => NoResurrection
<1> DEFINE A == \A l \in retired :
                   l \in LoginOf(Visible(keyring', plaintext'))
                     => job.op = "restore" /\ job.rec.login = l
<1>1. IInv /\ IInv' /\ [Next]_vars => A
  <2> SUFFICES ASSUME IInv, IInv', [Next]_vars, NEW l \in retired,
                      l \in LoginOf(Visible(keyring', plaintext'))
               PROVE  job.op = "restore" /\ job.rec.login = l
    OBVIOUS
  <2>1. Current' = Visible(keyring', plaintext')
    BY DEF Current
  <2>2. Current' \in {Current, job.rec, None}
    BY NextMoves, SlotTargets
  <2>3. l \notin LoginOf(Current) /\ l \notin LoginOf(None)
    BY Logins DEF IInv, RetiredInv
  <2>4. l \in LoginOf(job.rec)
    BY <2>1, <2>2, <2>3
  <2>5. job.rec.login = l
    BY <2>4 DEF LoginOf
  <2>6. job \in Jobs
    BY DEF IInv, TypeOK
  <2>7. job.op \notin {"delete", "idle"}
    BY <2>3, <2>4, <2>6, JobTypes DEF NoJob
  <2>8. job.op # "replace"
    BY <2>5 DEF IInv, RetiredInv
  <2>9. job.op # "save"
    <3>1. SUFFICES ASSUME job.op = "save" PROVE FALSE
      OBVIOUS
    <3>2. LoginOf(Current) = {l}
      BY <2>5, <3>1, Logins DEF IInv, SaveInv
    <3> QED
      BY <2>3, <3>2
  <2> QED
    BY <2>5, <2>6, <2>7, <2>8, <2>9, JobTypes
<1>2. IInv /\ IInv' /\ [Next]_vars => [A]_vars
  BY <1>1
<1>3. NoResurrection <=> [][A]_vars
  BY PTL DEF NoResurrection
<1> QED
  BY <1>2, <1>3, InductiveInvariant, PTL DEF Spec

(* CleanDelete: a Delete that reports success leaves no tokens behind.     *)
THEOREM CleanDeleteHolds == Spec => CleanDelete
<1> DEFINE A == job.op = "delete" /\ job' = NoJob /\ result' = "ok"
                  => keyring' = None /\ plaintext' = None
<1>1. IInv /\ [Next]_vars => [A]_vars
  <2> SUFFICES ASSUME IInv, Next, job.op = "delete", job' = NoJob, result' = "ok"
               PROVE  keyring' = None /\ plaintext' = None
    OBVIOUS
  <2>1. job.op # NoJob.op /\ StageInv /\ NoJob # job
    BY DEF NoJob, IInv
  <2>2. step \in {"deleteKeyring", "tombstone", "deletePlaintext"}
    BY <2>1 DEF IInv, TypeOK, Steps, StageInv
  <2>3. \E ok \in BOOLEAN :
           DeleteKeyring(ok) \/ Tombstone(ok) \/ DeletePlaintext(ok)
    BY <2>1, <2>2 DEF Next, StoreStep, SaveStep, KeyringSave, DropPlaintext,
       UndoKeyring, PlaintextSave, DropKeyring, Crash, Finish, CallSave, CallReplace,
       CallRestore, CallDelete, Start, ReadPlaintext, ReadKeyring
  <2>4. PICK ok \in BOOLEAN : DeletePlaintext(ok)
    BY <2>1, <2>3 DEF DeleteKeyring, Advance, Tombstone, Finish
  <2>5. ok /\ keyring = None
    BY <2>1, <2>4 DEF DeletePlaintext, Finish, Outcome, StageInv
  <2> QED
    BY <2>4, <2>5 DEF DeletePlaintext, PutPlaintext
<1>2. CleanDelete <=> [][A]_vars
  BY PTL DEF CleanDelete
<1> QED
  BY <1>1, <1>2, InductiveInvariant, PTL DEF Spec
=============================================================================
