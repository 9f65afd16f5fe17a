------------------------- MODULE QueryExecutionProofs -------------------------
(***************************************************************************)
(* Proofs about QueryExecution, for any number of runs: types, AtMostOnce  *)
(* and Diagnosed.                                                          *)
(*                                                                         *)
(* A run that the user repeats has left a statement that cannot take       *)
(* effect any more, so only the current run can.  What is reported rests   *)
(* on lemmas about NormalizeError: which facts an error must have for the  *)
(* exit code of Ctrl+C, and what is then advised.                          *)
(***************************************************************************)
EXTENDS QueryExecution, FiniteSetTheorems, TLAPS

-----------------------------------------------------------------------------
(* Reports of errors *)

(* Errors that a rule of their own decides before Ctrl+C is looked for. *)
Special == {"cleanup", "ready", "catalog", "interrupted"}

Hints == {"verify", "retrieve", "keyring", "login", "trust policy", "setup"}

(* An error of ErrorReports' lower rules is reported as Ctrl+C exactly if  *)
(* it is Ctrl+C, and as a time limit if it is that alone.                  *)
LEMMA OrdinaryReports ==
    ASSUME NEW err, \A kind \in Special : ~Is(err, kind)
    PROVE  /\ NormalizeError(err).code \in Exits
           /\ NormalizeError(err).hints \subseteq Hints
           /\ NormalizeError(err).code = ExitInterrupted <=>
                 err # {} /\ Is(err, "canceled")
           /\ err # {} /\ ~Is(err, "canceled") /\ Is(err, "deadline") =>
                 NormalizeError(err).code = ExitTemporary
           /\ err # {} => NormalizeError(err).code # ExitOK
<1>1. ~Is(err, "cleanup") /\ ~Is(err, "ready") /\ ~Is(err, "catalog")
        /\ ~Is(err, "interrupted")
  BY DEF Special
<1>2. NormalizeError(err) = NormalizeCause(err)
  BY <1>1 DEF NormalizeError
<1>3. \A f : /\ OAuthCode(f) \in Exits \ {ExitOK, ExitInterrupted}
             /\ StatusCode(f) \in Exits \ {ExitOK, ExitInterrupted}
  BY DEF OAuthCode, StatusCode, Exits, ExitOK, ExitGeneral, ExitUsage, ExitAuth,
         ExitNotFound, ExitTemporary, ExitInterrupted
<1>4. \A problem : SetupCode(problem) \in Exits \ {ExitOK, ExitInterrupted}
  BY DEF SetupCode, Exits, ExitOK, ExitGeneral, ExitUsage, ExitAuth,
         ExitNotFound, ExitTemporary, ExitInterrupted
<1>5. \A code : LoginIf(code) \subseteq Hints
  BY DEF LoginIf, Hints
<1> DEFINE Good(r) == /\ r.code \in Exits \ {ExitOK}
                      /\ r.hints \subseteq Hints
                      /\ r.code = ExitInterrupted <=> Is(err, "canceled")
                      /\ ~Is(err, "canceled") /\ Is(err, "deadline") =>
                            r.code = ExitTemporary
<1>6. ASSUME NEW code \in Exits \ {ExitOK, ExitInterrupted}, NEW hs \in SUBSET Hints,
             ~Is(err, "canceled"), Is(err, "deadline") => code = ExitTemporary
      PROVE  Good(Report(code, hs))
  BY <1>6 DEF Report
<1>7. err # {} => Good(NormalizeCause(err))
  <2>1. CASE err = {}
    BY <2>1
  <2>2. CASE err # {} /\ Is(err, "canceled")
    <3>1. NormalizeCause(err) = Report(ExitInterrupted, {})
      BY <1>1, <2>2 DEF NormalizeCause
    <3> QED
      BY <3>1, <2>2 DEF Report, Exits, ExitOK, ExitInterrupted
  <2>3. CASE err # {} /\ ~Is(err, "canceled") /\ Is(err, "deadline")
    <3>1. NormalizeCause(err) = Report(ExitTemporary, {})
      BY <1>1, <2>3 DEF NormalizeCause
    <3> QED
      BY <3>1, <2>3, <1>6 DEF Exits, ExitOK, ExitTemporary, ExitInterrupted
  <2>4. CASE err # {} /\ ~Is(err, "canceled") /\ ~Is(err, "deadline")
    <3>1. \E code \in Exits \ {ExitOK, ExitInterrupted}, hs \in SUBSET Hints :
             NormalizeCause(err) = Report(code, hs)
      <4> DEFINE f == As(err, "setup")
                 g == As(err, "oauth")
                 c == As(err, "control")
                 d == As(err, "data")
      <4>1. /\ {"keyring"} \subseteq Hints /\ {"login"} \subseteq Hints
            /\ {"trust policy"} \subseteq Hints /\ {"setup"} \subseteq Hints
            /\ {} \subseteq Hints
        BY DEF Hints
      <4>2. {ExitGeneral, ExitAuth, ExitUsage} \subseteq Exits \ {ExitOK, ExitInterrupted}
        BY DEF Exits, ExitOK, ExitGeneral, ExitUsage, ExitAuth, ExitInterrupted
      <4> HIDE DEF f, g, c, d
      <4>3. NormalizeCause(err) \in
               {Report(ExitGeneral, {"keyring"}), Report(ExitAuth, {"login"}),
                Report(ExitAuth, {"trust policy"}), Report(SetupCode(f.problem), {"setup"}),
                Report(OAuthCode(g), LoginIf(OAuthCode(g))),
                Report(StatusCode(c), LoginIf(StatusCode(c))),
                Report(ExitUsage, {}), Report(StatusCode(d), {}), Report(ExitGeneral, {})}
        BY <1>1, <2>4 DEF NormalizeCause, f, g, c, d
      <4> QED
        BY <4>1, <4>2, <4>3, <1>3, <1>4, <1>5
    <3> QED
      BY <3>1, <1>6, <2>4
  <2> QED
    BY <2>1, <2>2, <2>3, <2>4
<1>8. CASE err = {}
  <2>1. NormalizeCause(err) = Report(ExitOK, {})
    BY <1>8 DEF NormalizeCause
  <2> QED
    BY <2>1, <1>2, <1>8 DEF Report, Exits, ExitOK, ExitInterrupted
<1>9. CASE err # {}
  BY <1>2, <1>7, <1>9
<1> QED
  BY <1>8, <1>9

Ordinary(err) == \A kind \in Special : ~Is(err, kind)

(* A time limit is no Ctrl+C. *)
LEMMA StoppedReports ==
    /\ Ordinary(Stopped) /\ Stopped # {}
    /\ cause = "timeout" => ~Is(Stopped, "canceled") /\ Is(Stopped, "deadline")
    /\ cause # "timeout" => Is(Stopped, "canceled")
<1>1. Fact("canceled").is = "canceled" /\ Fact("deadline").is = "deadline"
  BY DEF Fact
<1>2. CASE cause = "timeout"
  <2>1. Stopped = {Fact("deadline")}
    BY <1>2 DEF Stopped, Deadline
  <2> QED
    BY <1>1, <1>2, <2>1 DEF Ordinary, Special, Is
<1>3. CASE cause # "timeout"
  <2>1. Stopped = {Fact("canceled")}
    BY <1>3 DEF Stopped, Canceled
  <2> QED
    BY <1>1, <1>3, <2>1 DEF Ordinary, Special, Is
<1> QED
  BY <1>2, <1>3

(* Nothing ResolveDataAccess reports without Ctrl+C looks like it. *)
LEMMA AccessReports ==
    ASSUME NEW err \in AccessErrors
    PROVE  Ordinary(err) /\ ~Is(err, "canceled")
<1>1. ASSUME NEW a \in Answer, a.stopped # Canceled
      PROVE  /\ \A f \in DoJSON(a) : f.is \in {"control", "deadline"}
             /\ \A f \in PostForm(a, "server_error") : f.is \in {"oauth", "deadline"}
  <2>1. a \in [status : {0, 200, 400, 401, 403, 404, 429, 503},
               body : {"good", "cut", "invalid"}, stopped : {{}, Canceled, Deadline}]
    BY DEF Answer
  <2>0. a.stopped \in {{}, Deadline} /\ a.body \in {"good", "cut", "invalid"}
    BY <1>1, <2>1
  <2>2. \A f \in a.stopped : f.is = "deadline"
    BY <2>0 DEF Deadline, Fact
  <2>3. \A status, retryable : \A f \in ControlError(status, retryable) : f.is = "control"
    BY DEF ControlError
  <2>4. \A status, code, retryable :
           \A f \in OAuthError(status, code, retryable) : f.is = "oauth"
    BY DEF OAuthError
  <2>5. \A f \in DoJSON(a) : f.is \in {"control", "deadline"}
    BY <2>2, <2>3 DEF DoJSON
  <2>6. \E status, code, retryable :
           PostForm(a, "server_error") \subseteq
              OAuthError(status, code, retryable) \cup a.stopped
    <3>1. CASE a.status = 0
      BY <3>1, <1>1 DEF PostForm
    <3>2. CASE a.status # 0 /\ ~Succeeds(a.status)
      BY <3>2 DEF PostForm
    <3>3. CASE a.status # 0 /\ Succeeds(a.status)
      BY <3>3, <2>0 DEF PostForm
    <3> QED
      BY <3>1, <3>2, <3>3
  <2> QED
    BY <2>2, <2>4, <2>5, <2>6
<1>2. \A f \in err : f.is \in {"other", "keyring", "no login", "oidc rejected", "setup",
                             "control", "oauth", "deadline"}
  <2>1. CASE err \in {Other, {Fact("keyring")}, {Fact("no login")}, {Fact("oidc rejected")}}
    <3>1. \A kind : Fact(kind).is = kind
      BY DEF Fact
    <3> QED
      BY <2>1, <3>1 DEF Other
  <2>2. CASE \E problem : err = {[is |-> "setup", problem |-> problem]}
    <3>1. PICK problem : err = {[is |-> "setup", problem |-> problem]}
      BY <2>2
    <3>2. \A f \in err : f.is = "setup"
      BY <3>1
    <3> QED
      BY <3>2
  <2>3. CASE \E a \in Answer : /\ a.stopped # Canceled
                              /\ err \in {DoJSON(a), PostForm(a, "server_error")}
    BY <2>3, <1>1
  <2>4. \/ err \in {Other, {Fact("keyring")}, {Fact("no login")}, {Fact("oidc rejected")}}
        \/ \E problem : err = {[is |-> "setup", problem |-> problem]}
        \/ \E a \in Answer : /\ a.stopped # Canceled
                            /\ err \in {DoJSON(a), PostForm(a, "server_error")}
    BY DEF AccessErrors
  <2> QED
    BY <2>1, <2>2, <2>3, <2>4
<1> QED
  BY <1>2 DEF Ordinary, Special, Is

(* A request that Ctrl+C ended is reported as such, whatever was answered. *)
LEMMA CanceledReports ==
    ASSUME NEW a \in Answer, a.stopped = Canceled
    PROVE  Ordinary(DoJSON(a)) /\ Is(DoJSON(a), "canceled") /\ DoJSON(a) # {}
<1>1. a.status = 0 \/ a.body = "cut"
  BY DEF Answer, Canceled
<1>2. Canceled \subseteq DoJSON(a)
  BY <1>1 DEF DoJSON, Canceled
<1>3. \A f \in DoJSON(a) : f.is \in {"control", "canceled"}
  BY DEF DoJSON, Canceled, ControlError, Fact
<1> QED
  BY <1>2, <1>3 DEF Ordinary, Special, Is, Canceled, Fact

LEMMA DataReports ==
    ASSUME NEW err \in Refusals \cup Failures
    PROVE  Ordinary(err) /\ ~Is(err, "canceled") /\ err # {}
<1>1. CASE err \in Failures
  <2>1. \/ err = {[is |-> "data", invalid |-> FALSE, status |-> 0, retryable |-> TRUE]}
        \/ err = {[is |-> "data", invalid |-> FALSE, status |-> 503, retryable |-> TRUE]}
        \/ err = {[is |-> "data", invalid |-> FALSE, status |-> 200, retryable |-> FALSE]}
    BY <1>1 DEF Failures, DataError
  <2>2. \A f \in err : f.is \in {"data"}
    BY <2>1
  <2>3. err # {}
    BY <2>1
  <2>4. Ordinary(err)
    BY <2>2 DEF Ordinary, Special, Is
  <2>5. ~Is(err, "canceled")
    BY <2>2 DEF Is
  <2> QED
    BY <2>3, <2>4, <2>5
<1>2. CASE err \in Refusals
  <2>1. \/ \E status \in {400, 401, 403, 404} :
              err = {[is |-> "data", invalid |-> FALSE, status |-> status,
                      retryable |-> FALSE]}
        \/ err = {[is |-> "data", invalid |-> TRUE, status |-> 0, retryable |-> FALSE]}
    BY <1>2 DEF Refusals, DataError
  <2>2. \A f \in err : f.is \in {"data"}
    BY <2>1
  <2>3. err # {}
    <3>1. CASE err = {[is |-> "data", invalid |-> TRUE, status |-> 0,
                       retryable |-> FALSE]}
      BY <3>1
    <3>2. CASE \E status \in {400, 401, 403, 404} :
                  err = {[is |-> "data", invalid |-> FALSE, status |-> status,
                          retryable |-> FALSE]}
      <4>1. PICK status : err = {[is |-> "data", invalid |-> FALSE, status |-> status,
                                  retryable |-> FALSE]}
        BY <3>2
      <4> QED
        BY <4>1
    <3> QED
      BY <2>1, <3>1, <3>2
  <2>4. Ordinary(err)
    BY <2>2 DEF Ordinary, Special, Is
  <2>5. ~Is(err, "canceled")
    BY <2>2 DEF Is
  <2> QED
    BY <2>3, <2>4, <2>5
<1> QED
  BY <1>1, <1>2

(* Once the statement ID is known, the reason of the interruption gives the *)
(* exit code and the answer to the cancellation gives the hint.            *)
LEMMA InterruptedReports ==
    ASSUME NEW s
    PROVE  /\ NormalizeError(Interrupted(s)).code =
                 IF cause = "timeout" THEN ExitTemporary ELSE ExitInterrupted
           /\ NormalizeError(Interrupted(s)).hints = InterruptHints([cancel |-> s])
           /\ Prints(Interrupted(s))
<1> DEFINE err == Interrupted(s)
           f == [is |-> "interrupted", cancel |-> s]
<1>1. err = {f} \cup Stopped
  BY DEF Interrupted
<1>2. \A g \in Stopped : g.is \in {"canceled", "deadline"}
  BY DEF Stopped, Canceled, Deadline, Fact
<1>3. f.is = "interrupted" /\ f.cancel = s
  OBVIOUS
<1> HIDE DEF f, err
<1>4. /\ ~Is(err, "cleanup") /\ ~Is(err, "ready") /\ ~Is(err, "catalog")
      /\ Is(err, "interrupted") /\ err # {}
  BY <1>1, <1>2, <1>3 DEF Is
<1>5. As(err, "interrupted") = f
  <2>1. \A g \in err : g.is = "interrupted" <=> g = f
    BY <1>1, <1>2, <1>3
  <2> QED
    BY <2>1, <1>1 DEF As
<1>6. Is(err, "deadline") <=> cause = "timeout"
  <2>1. Is(err, "deadline") <=> Is(Stopped, "deadline")
    BY <1>1, <1>3 DEF Is
  <2>2. cause # "timeout" => Stopped = {Fact("canceled")}
    BY DEF Stopped, Canceled
  <2>3. Fact("canceled").is = "canceled"
    BY DEF Fact
  <2>4. cause # "timeout" => ~Is(Stopped, "deadline")
    BY <2>2, <2>3 DEF Is
  <2> QED
    BY <2>1, <2>4, StoppedReports
<1>7. NormalizeError(err) =
         Report(IF Is(err, "deadline") THEN ExitTemporary ELSE ExitInterrupted,
                InterruptHints(f))
  <2>1. NormalizeError(err) = NormalizeCause(err)
    BY <1>4 DEF NormalizeError
  <2>2. NormalizeCause(err) =
           Report(IF Is(err, "deadline") THEN ExitTemporary ELSE ExitInterrupted,
                  InterruptHints(As(err, "interrupted")))
    BY <1>4 DEF NormalizeCause
  <2> QED
    BY <2>1, <2>2, <1>5
<1>8. InterruptHints(f) = InterruptHints([cancel |-> s])
  BY <1>3 DEF InterruptHints
<1>9. Prints(err)
  BY <1>4 DEF Prints
<1> QED
  BY <1>6, <1>7, <1>8, <1>9 DEF Report, err

LEMMA UnwrittenReports ==
    /\ NormalizeError(Unwritten).code = ExitGeneral
    /\ NormalizeError(Unwritten).hints = {"retrieve"}
<1> DEFINE f == [is |-> "ready", code |-> ExitGeneral, hints |-> {"retrieve"}]
<1>1. Unwritten = {f} /\ f.is = "ready" /\ f.code = ExitGeneral /\ f.hints = {"retrieve"}
  BY DEF Unwritten
<1> HIDE DEF f
<1>2. ~Is(Unwritten, "cleanup") /\ Is(Unwritten, "ready") /\ ~Is(Unwritten, "keyring")
  BY <1>1 DEF Is
<1>3. As(Unwritten, "ready") = f
  BY <1>1 DEF As
<1>4. NormalizeError(Unwritten) = NormalizeCause(Unwritten)
  BY <1>2 DEF NormalizeError
<1>5. NormalizeCause(Unwritten) = Report(ExitGeneral, {"retrieve"})
  BY <1>1, <1>2, <1>3 DEF NormalizeCause
<1> QED
  BY <1>4, <1>5 DEF Report

LEMMA NothingReports ==
    NormalizeError({}).code = ExitOK /\ NormalizeError({}).hints = {}
<1>1. NormalizeError({}) = Report(ExitOK, {})
  <2>1. ~Is({}, "cleanup")
    BY DEF Is
  <2>2. NormalizeCause({}) = Report(ExitOK, {})
    BY DEF NormalizeCause
  <2> QED
    BY <2>1, <2>2 DEF NormalizeError
<1> QED
  BY <1>1 DEF Report

-----------------------------------------------------------------------------
(* The inductive invariant *)

(* A statement that is not running and will not run. *)
Past == {"none", "lost", "failed", "cancelled"}

(* Runs that are over and runs to come. *)
OtherRuns ==
    /\ \A n \in Run : n > run => stmt[n] = "none"
    /\ \A n \in Run : n < run => stmt[n] \in Past

(* What the command knows of the statement of this run. *)
ThisRun ==
    /\ pc = "idle" <=> run = 0
    /\ pc \in {"idle", "access", "submit"} => ~known
    /\ pc = "access" => stmt[run] = "none" /\ cause # "timeout"
    /\ pc \in {"wait", "cancel"} => known
    /\ pc = "cancel" => cause # None
    /\ known => stmt[run] \in Terminal \cup {"running"}

(* What is reported as final is final. *)
Final ==
    pc = "done" =>
        /\ report = "noaccess" => stmt[run] = "none"
        /\ report = "refused" => stmt[run] = "lost"
        /\ report \in {"failed", "cancelled"} => stmt[run] = report

IInv == TypeOK /\ OtherRuns /\ ThisRun /\ Final /\ Diagnosed

LEMMA InitInv == Init => IInv
<1> SUFFICES ASSUME Init PROVE IInv
  OBVIOUS
<1>1. TypeOK
  <2>1. run \in 0..MaxRun /\ stmt \in [Run -> Status]
    BY QueryAssumption DEF Init, Run, Status
  <2>2. pc = "idle" /\ cause \in Causes /\ report \in Reports /\ exit \in Exits
    BY DEF Init, Causes, Reports, Exits
  <2> QED
    BY <2>1, <2>2 DEF Init, TypeOK
<1> QED
  BY <1>1, QueryAssumption DEF Init, IInv, OtherRuns, ThisRun, Final, Diagnosed, Run

-----------------------------------------------------------------------------
(* Reports of the steps *)

LEMMA EndsOrdinary ==
    ASSUME NEW r, NEW err, Ordinary(err), err # {}, Ends(r, err)
    PROVE  /\ exit' \in Exits /\ exit' # ExitOK
           /\ hints' \subseteq Hints
           /\ exit' = ExitInterrupted <=> Is(err, "canceled")
           /\ shown' \in BOOLEAN
           /\ ~Is(err, "canceled") => shown'
           /\ ~Is(err, "canceled") /\ Is(err, "deadline") => exit' = ExitTemporary
<1>1. /\ exit' = NormalizeError(err).code
      /\ hints' = NormalizeError(err).hints
      /\ shown' = Prints(err)
  BY DEF Ends
<1>2. \A kind \in Special : ~Is(err, kind)
  BY DEF Ordinary
<1>3. /\ exit' \in Exits /\ exit' # ExitOK
      /\ hints' \subseteq Hints
      /\ exit' = ExitInterrupted <=> Is(err, "canceled")
      /\ ~Is(err, "canceled") /\ Is(err, "deadline") => exit' = ExitTemporary
  BY <1>1, <1>2, OrdinaryReports
<1>4. ~Is(err, "canceled") => Prints(err)
  BY <1>1, <1>3 DEF Prints
<1>5. Prints(err) \in BOOLEAN
  BY DEF Prints
<1> QED
  BY <1>1, <1>3, <1>4, <1>5

LEMMA EndsInterrupted ==
    ASSUME NEW r, NEW s, Ends(r, Interrupted(s))
    PROVE  /\ exit' = IF cause = "timeout" THEN ExitTemporary ELSE ExitInterrupted
           /\ hints' = InterruptHints([cancel |-> s])
           /\ hints' \subseteq Hints
           /\ shown' = TRUE
<1>1. hints' = InterruptHints([cancel |-> s])
  BY InterruptedReports DEF Ends
<1>2. InterruptHints([cancel |-> s]) \subseteq Hints
  <2>1. InterruptHints([cancel |-> s]) \in {{"retrieve"}, {}, {"verify"}}
    BY DEF InterruptHints
  <2> QED
    BY <2>1 DEF Hints
<1>3. Prints(Interrupted(s)) = TRUE
  <2>1. Prints(Interrupted(s)) \in BOOLEAN
    BY DEF Prints
  <2> QED
    BY <2>1, InterruptedReports
<1> QED
  BY <1>1, <1>2, <1>3, InterruptedReports DEF Ends

-----------------------------------------------------------------------------
(* Every step preserves the invariant *)

(* A run that is under way is a run. *)
LEMMA CurrentRun ==
    ASSUME IInv
    PROVE  /\ run \in 0..MaxRun
           /\ pc = "idle" <=> run = 0
           /\ pc # "idle" => run \in Run
           /\ stmt \in [Run -> Status]
           /\ OtherRuns
<1>1. /\ run \in 0..MaxRun
      /\ pc = "idle" <=> run = 0
      /\ stmt \in [Run -> Status]
      /\ OtherRuns
  BY Zenon DEF IInv, TypeOK, ThisRun
<1>2. pc # "idle" => run \in Run
  BY <1>1, QueryAssumption DEF Run
<1> QED
  BY <1>1, <1>2

LEMMA StartInv == IInv /\ Start => IInv'
<1> SUFFICES ASSUME IInv, Start PROVE IInv'
  OBVIOUS
<1>0. run < MaxRun /\ run' = run + 1 /\ UNCHANGED <<stmt, cancelling>>
  BY DEF Start, server
<1>1. run \in 0..MaxRun /\ run' \in Run /\ run' # 0
  BY <1>0, CurrentRun, QueryAssumption DEF Run
<1>2. run # 0 => stmt[run] \in Past
  <2>1. run # 0 => pc = "done" /\ report \in {"noaccess", "refused", "failed", "cancelled"}
    BY CurrentRun DEF Start
  <2>2. Final
    BY DEF IInv
  <2> QED
    BY <2>1, <2>2 DEF Final, Past
<1>3. OtherRuns'
  BY <1>0, <1>1, <1>2, CurrentRun, QueryAssumption DEF OtherRuns, Run
<1>4. stmt'[run'] = "none"
  BY <1>0, <1>1, CurrentRun, QueryAssumption DEF OtherRuns, Run
<1>5. TypeOK'
  <2>1. run' \in 0..MaxRun
    BY <1>1, QueryAssumption DEF Run
  <2>2. /\ pc' = "access" /\ cause' \in Causes /\ report' \in Reports /\ exit' \in Exits
        /\ known' \in BOOLEAN /\ shown' \in BOOLEAN /\ hints' = {}
    BY DEF Start, Causes, Reports, Exits
  <2>3. stmt' \in [Run -> Status] /\ cancelling' \subseteq Run
    BY <1>0 DEF IInv, TypeOK
  <2> QED
    BY <2>1, <2>2, <2>3 DEF TypeOK
<1>6. ThisRun'
  BY <1>1, <1>4, QueryAssumption DEF Start, ThisRun
<1> QED
  BY <1>3, <1>5, <1>6 DEF IInv, Start, Final, Diagnosed

LEMMA AccessResolvedInv == IInv /\ AccessResolved => IInv'
<1> SUFFICES ASSUME IInv, AccessResolved PROVE IInv'
  OBVIOUS
<1>1. /\ run \in Run /\ pc' = "submit"
      /\ stmt' = [stmt EXCEPT ![run] = "sent"]
      /\ UNCHANGED <<run, cause, known, report, exit, hints, shown, cancelling>>
      /\ ~known
  BY CurrentRun DEF AccessResolved, IInv, ThisRun
<1>2. stmt' \in [Run -> Status]
  BY <1>1, CurrentRun DEF Status
<1>3. TypeOK'
  BY <1>1, <1>2 DEF IInv, TypeOK
<1>4. OtherRuns'
  BY <1>1, CurrentRun, QueryAssumption DEF OtherRuns, Run
<1>5. ThisRun' /\ Final' /\ Diagnosed'
  BY <1>1, CurrentRun, QueryAssumption DEF ThisRun, Final, Diagnosed, Run
<1> QED
  BY <1>3, <1>4, <1>5 DEF IInv

(* A command that ends without an error of its own kind. *)
LEMMA EndsInv ==
    ASSUME IInv, NEW r \in Reports, NEW err, Ends(r, err), UNCHANGED cancelling,
           pc \in {"access", "submit", "wait", "cancel"},
           stmt' = stmt \/ (pc = "submit" /\ r = "refused" /\ ~known
                               /\ stmt' = [stmt EXCEPT ![run] = "lost"]),
           exit' \in Exits, hints' \subseteq Hints, shown' \in BOOLEAN
    PROVE  TypeOK' /\ OtherRuns' /\ ThisRun'
<1>1. run \in Run /\ run # 0
  BY CurrentRun, QueryAssumption DEF Run
<1>2. UNCHANGED <<run, cause, known>> /\ pc' = "done" /\ report' = r
  BY DEF Ends
<1>3. stmt' \in [Run -> Status]
  BY <1>1, CurrentRun DEF Status
<1>4. TypeOK'
  BY <1>2, <1>3 DEF IInv, TypeOK, Hints
<1>5. OtherRuns'
  BY <1>1, <1>2, CurrentRun, QueryAssumption DEF OtherRuns, Run
<1>6. ThisRun'
  BY <1>1, <1>2 DEF IInv, ThisRun
<1> QED
  BY <1>4, <1>5, <1>6

LEMMA AccessDeniedInv == IInv /\ AccessDenied => IInv'
<1> SUFFICES ASSUME IInv, NEW err \in AccessErrors \ {{}}, pc = "access",
                    Ends("noaccess", err), UNCHANGED server
             PROVE  IInv'
  BY DEF AccessDenied
<1>1. err \in AccessErrors /\ err # {} /\ "noaccess" \in Reports
  BY DEF Reports
<1>2. Ordinary(err) /\ ~Is(err, "canceled")
  BY <1>1, AccessReports
<1>3. exit' \in Exits /\ exit' # ExitInterrupted /\ hints' \subseteq Hints /\ shown' \in BOOLEAN
        /\ shown'
  BY <1>1, <1>2, EndsOrdinary
<1>4. TypeOK' /\ OtherRuns' /\ ThisRun'
  BY <1>1, <1>3, EndsInv DEF server
<1>5. ~known' /\ report' = "noaccess" /\ stmt'[run'] = "none"
  BY DEF IInv, ThisRun, Ends, server
<1>6. Final' /\ Diagnosed'
  BY <1>3, <1>5 DEF Final, Diagnosed
<1> QED
  BY <1>4, <1>6 DEF IInv

LEMMA AccessInterruptedInv == IInv /\ AccessInterrupted => IInv'
<1> SUFFICES ASSUME IInv, NEW a \in Answer, a.stopped = Canceled, pc = "access",
                    cause # None, Ends("stopped", DoJSON(a)), UNCHANGED server
             PROVE  IInv'
  BY DEF AccessInterrupted
<1>1. "stopped" \in Reports
  BY DEF Reports
<1>2. Ordinary(DoJSON(a)) /\ Is(DoJSON(a), "canceled") /\ DoJSON(a) # {}
  BY CanceledReports
<1>3. exit' \in Exits /\ exit' = ExitInterrupted /\ hints' \subseteq Hints /\ shown' \in BOOLEAN
  BY <1>2, EndsOrdinary
<1>4. TypeOK' /\ OtherRuns' /\ ThisRun'
  BY <1>1, <1>3, EndsInv DEF server
<1>5. ~known' /\ report' = "stopped" /\ cause' = "interrupt"
  BY DEF IInv, TypeOK, Causes, ThisRun, Ends, server
<1>6. Final' /\ Diagnosed'
  BY <1>3, <1>5 DEF Final, Diagnosed
<1> QED
  BY <1>4, <1>6 DEF IInv

LEMMA InterruptInv ==
    ASSUME NEW c \in Causes \ {None}, IInv, Interrupt(c)
    PROVE  IInv'
<1>1. UNCHANGED <<run, pc, known, report, exit, hints, shown, stmt, cancelling>>
        /\ cause' = c /\ pc \in {"access", "submit", "wait"}
        /\ (pc = "access" => c = "interrupt")
  BY DEF Interrupt, server
<1>2. TypeOK'
  BY <1>1 DEF IInv, TypeOK
<1>3. OtherRuns' /\ Final' /\ Diagnosed'
  BY <1>1 DEF IInv, OtherRuns, Final, Diagnosed
<1>4. ThisRun'
  BY <1>1 DEF IInv, ThisRun
<1> QED
  BY <1>2, <1>3, <1>4 DEF IInv

LEMMA SubmittedInv == IInv /\ Submitted => IInv'
<1> SUFFICES ASSUME IInv, Submitted PROVE IInv'
  OBVIOUS
<1>1. /\ pc = "submit" /\ pc' = "wait" /\ known' = TRUE
      /\ stmt[run] \in Terminal \cup {"running"}
      /\ UNCHANGED <<run, cause, report, exit, hints, shown, stmt, cancelling>>
  BY DEF Submitted, server
<1>2. TypeOK'
  BY <1>1 DEF IInv, TypeOK
<1>3. OtherRuns' /\ Final' /\ Diagnosed'
  BY <1>1 DEF IInv, OtherRuns, Final, Diagnosed
<1>4. ThisRun'
  BY <1>1 DEF IInv, ThisRun
<1> QED
  BY <1>2, <1>3, <1>4 DEF IInv

(* Submissions that fail: there is no ID, and the exit code is not 130.    *)
LEMMA SubmitFailsInv == IInv /\ (SubmitRefused \/ SubmitError) => IInv'
<1> SUFFICES ASSUME IInv, NEW err \in Refusals \cup Failures, NEW r \in {"refused", "error"},
                    pc = "submit", Ends(r, err), UNCHANGED cancelling,
                    IF r = "refused" THEN stmt' = [stmt EXCEPT ![run] = "lost"]
                                     ELSE stmt' = stmt
             PROVE  IInv'
  BY DEF SubmitRefused, SubmitError, server
<1>1. r \in Reports /\ ~known
  BY DEF Reports, IInv, ThisRun
<1>2. Ordinary(err) /\ ~Is(err, "canceled") /\ err # {}
  BY DataReports
<1>3. exit' \in Exits /\ exit' # ExitInterrupted /\ hints' \subseteq Hints /\ shown' \in BOOLEAN
        /\ shown'
  BY <1>2, EndsOrdinary
<1>4. TypeOK' /\ OtherRuns' /\ ThisRun'
  BY <1>1, <1>3, EndsInv
<1>5. ~known' /\ report' = r /\ run' = run
  BY <1>1 DEF Ends
<1>6. r = "refused" => stmt'[run'] = "lost"
  BY <1>5, CurrentRun
<1>7. Final' /\ Diagnosed'
  BY <1>3, <1>5, <1>6 DEF Final, Diagnosed
<1> QED
  BY <1>4, <1>7 DEF IInv

LEMMA SubmitInterruptedInv == IInv /\ SubmitInterrupted => IInv'
<1> SUFFICES ASSUME IInv, pc = "submit", cause # None, Ends("stopped", Stopped),
                    UNCHANGED server
             PROVE  IInv'
  BY DEF SubmitInterrupted
<1>1. "stopped" \in Reports
  BY DEF Reports
<1>2. /\ exit' \in Exits /\ hints' \subseteq Hints /\ shown' \in BOOLEAN
      /\ cause = "timeout" => exit' = ExitTemporary /\ shown'
      /\ cause # "timeout" => exit' = ExitInterrupted
  BY StoppedReports, EndsOrdinary
<1>3. TypeOK' /\ OtherRuns' /\ ThisRun'
  BY <1>1, <1>2, EndsInv DEF server
<1>4. ~known' /\ report' = "stopped" /\ cause' = cause /\ cause \in {"interrupt", "timeout"}
  BY DEF IInv, TypeOK, Causes, ThisRun, Ends
<1>5. Final' /\ Diagnosed'
  BY <1>2, <1>4 DEF Final, Diagnosed, ExitTemporary, ExitInterrupted
<1> QED
  BY <1>3, <1>5 DEF IInv

LEMMA WaitFinishedInv == IInv /\ WaitFinished => IInv'
<1> SUFFICES ASSUME IInv, pc = "wait", stmt[run] = "finished", UNCHANGED server,
                    NEW r \in {"results", "unwritten"},
                    Ends(r, IF r = "results" THEN {} ELSE Unwritten)
             PROVE  IInv'
  BY DEF WaitFinished
<1> DEFINE err == IF r = "results" THEN {} ELSE Unwritten
<1>1. r \in Reports
  BY DEF Reports
<1>2. exit' = NormalizeError(err).code /\ hints' = NormalizeError(err).hints
        /\ shown' = Prints(err) /\ pc' = "done" /\ report' = r
        /\ UNCHANGED <<run, cause, known>>
  BY DEF Ends
<1>3. CASE r = "results"
  <2>1. exit' = ExitOK /\ hints' = {} /\ shown' \in BOOLEAN
    BY <1>2, <1>3, NothingReports DEF Prints
  <2>2. TypeOK' /\ OtherRuns' /\ ThisRun'
    BY <1>1, <2>1, EndsInv DEF server, Exits
  <2>3. Final' /\ Diagnosed'
    BY <1>2, <1>3, <2>1 DEF Final, Diagnosed, server, ExitOK, ExitInterrupted
  <2> QED
    BY <2>2, <2>3 DEF IInv
<1>4. CASE r = "unwritten"
  <2>1. exit' = ExitGeneral /\ hints' = {"retrieve"}
    BY <1>2, <1>4, UnwrittenReports
  <2>2. shown' = TRUE
    <3>1. Prints(Unwritten) /\ Prints(Unwritten) \in BOOLEAN
      BY UnwrittenReports DEF Prints
    <3> QED
      BY <1>2, <1>4, <3>1
  <2>3. TypeOK' /\ OtherRuns' /\ ThisRun'
    BY <1>1, <2>1, <2>2, EndsInv DEF server, Exits, Hints
  <2>4. Final' /\ Diagnosed'
    BY <1>2, <1>4, <2>1, <2>2 DEF Final, Diagnosed, server, ExitGeneral, ExitInterrupted
  <2> QED
    BY <2>3, <2>4 DEF IInv
<1> QED
  BY <1>3, <1>4

(* The wait ends with an answer or a transport error. *)
LEMMA WaitFailsInv == IInv /\ (WaitFailed \/ WaitError) => IInv'
<1> SUFFICES ASSUME IInv, NEW err \in Refusals \cup Failures,
                    NEW r \in {"failed", "cancelled", "error"},
                    r # "error" => r = stmt[run],
                    pc = "wait", Ends(r, err), UNCHANGED server
             PROVE  IInv'
  <2>1. DataError(200, FALSE) \in Failures
    BY DEF Failures
  <2>2. CASE WaitFailed
    BY <2>1, <2>2 DEF WaitFailed
  <2>3. CASE WaitError
    BY <2>3 DEF WaitError
  <2> QED
    BY <2>2, <2>3
<1>1. r \in Reports
  BY DEF Reports, Terminal
<1>2. Ordinary(err) /\ ~Is(err, "canceled") /\ err # {}
  BY DataReports
<1>3. exit' \in Exits /\ exit' # ExitInterrupted /\ hints' \subseteq Hints /\ shown' \in BOOLEAN
        /\ shown'
  BY <1>2, EndsOrdinary
<1>4. TypeOK' /\ OtherRuns' /\ ThisRun'
  BY <1>1, <1>3, EndsInv DEF server
<1>5. report' = r /\ run' = run /\ stmt' = stmt
  BY DEF Ends, server
<1>6. Final' /\ Diagnosed'
  BY <1>3, <1>5 DEF Final, Diagnosed
<1> QED
  BY <1>4, <1>6 DEF IInv

LEMMA WaitInterruptedInv == IInv /\ WaitInterrupted => IInv'
<1> SUFFICES ASSUME IInv, WaitInterrupted PROVE IInv'
  OBVIOUS
<1>1. /\ pc = "wait" /\ cause # None /\ pc' = "cancel"
      /\ UNCHANGED <<run, cause, known, report, exit, hints, shown, stmt, cancelling>>
  BY DEF WaitInterrupted, server
<1>2. TypeOK'
  BY <1>1 DEF IInv, TypeOK
<1>3. OtherRuns' /\ Final' /\ Diagnosed'
  BY <1>1 DEF IInv, OtherRuns, Final, Diagnosed
<1>4. ThisRun'
  BY <1>1 DEF IInv, ThisRun
<1> QED
  BY <1>2, <1>3, <1>4 DEF IInv

(* The cancellation: what is not confirmed is to be verified. *)
LEMMA CancelInv == IInv /\ (CancelAnswered \/ CancelFails) => IInv'
<1> SUFFICES ASSUME IInv, pc = "cancel", UNCHANGED server, NEW s,
                    NEW r, r = IF s \in Terminal THEN s ELSE "unconfirmed",
                    s = stmt[run] \/ s = "unanswered", Ends(r, Interrupted(s))
             PROVE  IInv'
  <2>1. CASE CancelAnswered
    BY <2>1 DEF CancelAnswered, Confirms
  <2>2. CASE CancelFails
    BY <2>2 DEF CancelFails, Terminal
  <2> QED
    BY <2>1, <2>2
<1>1. r \in Reports
  BY DEF Reports
<1>2. known /\ cause \in {"interrupt", "timeout"} /\ stmt[run] \in Terminal \cup {"running"}
  BY DEF IInv, TypeOK, ThisRun, Causes
<1>3. /\ exit' = IF cause = "timeout" THEN ExitTemporary ELSE ExitInterrupted
      /\ hints' = InterruptHints([cancel |-> s])
      /\ hints' \subseteq Hints /\ shown' = TRUE
  BY EndsInterrupted
<1>4. TypeOK' /\ OtherRuns' /\ ThisRun'
  BY <1>1, <1>3, EndsInv DEF server, Exits
<1>5. /\ UNCHANGED <<run, cause, known, stmt>> /\ report' = r
  BY DEF Ends, server
<1>6. stmt[run] = "running" => "verify" \in hints'
  <2>1. stmt[run] = "running" => s \in {"running", "unanswered"}
    OBVIOUS
  <2>2. s \in {"running", "unanswered"} => InterruptHints([cancel |-> s]) = {"verify"}
    BY DEF InterruptHints
  <2> QED
    BY <1>3, <2>1, <2>2
<1>7. Final'
  BY <1>5, <1>2 DEF Final, Terminal
<1>8. Diagnosed'
  BY <1>2, <1>3, <1>5, <1>6 DEF Diagnosed, ExitTemporary, ExitInterrupted
<1> QED
  BY <1>4, <1>7, <1>8 DEF IInv

LEMMA VerifyInv == IInv /\ Verify => IInv'
<1> SUFFICES ASSUME IInv, Verify PROVE IInv'
  OBVIOUS
<1>1. /\ pc = "done" /\ report = "unconfirmed" /\ shown
      /\ stmt[run] \in Terminal /\ report' = stmt[run]
      /\ UNCHANGED <<run, pc, cause, known, exit, hints, shown, stmt, cancelling>>
  BY DEF Verify, server
<1>2. TypeOK'
  BY <1>1 DEF IInv, TypeOK, Reports
<1>3. OtherRuns' /\ ThisRun'
  BY <1>1 DEF IInv, OtherRuns, ThisRun
<1>4. Final'
  BY <1>1 DEF Final, Terminal
<1>5. Diagnosed'
  BY <1>1 DEF IInv, Diagnosed, Terminal
<1> QED
  BY <1>2, <1>3, <1>4, <1>5 DEF IInv

(* A statement of the server: one that was not sent, or that is over,      *)
(* stays as it is, and one the command knows is not lost.                  *)
LEMMA StatementInv ==
    ASSUME IInv, UNCHANGED <<run, command>>, cancelling' \subseteq Run, NEW n \in Run,
           NEW old \in {"sent", "running"}, stmt[n] = old, NEW s \in Status,
           stmt' = [stmt EXCEPT ![n] = s],
           old = "running" => s \in Terminal \cup {"running"},
           old = "sent" => s # "finished"
    PROVE  IInv'
<1>1. n = run /\ pc # "idle"
  <2>1. n \in Nat /\ run \in Nat
    BY CurrentRun, QueryAssumption DEF Run
  <2>2. ~(n < run) /\ ~(n > run)
    BY CurrentRun DEF OtherRuns, Past
  <2>3. n = run /\ run # 0
    BY <2>1, <2>2, QueryAssumption DEF Run
  <2> QED
    BY <2>3, CurrentRun
<1>2. stmt' \in [Run -> Status] /\ stmt'[run] = s
  BY <1>1, CurrentRun
<1>3. UNCHANGED <<run, pc, cause, known, report, exit, hints, shown>>
  BY DEF command
<1>4. TypeOK'
  BY <1>2, <1>3 DEF IInv, TypeOK
<1>5. OtherRuns'
  BY <1>1, <1>3, CurrentRun, QueryAssumption DEF OtherRuns, Run
<1>6. (known => old = "running") /\ pc # "access" /\ ThisRun
  BY <1>1 DEF IInv, ThisRun, Terminal
<1>7. Final'
  BY <1>1, <1>3 DEF IInv, Final
<1>8. ThisRun'
  BY <1>2, <1>3, <1>6 DEF ThisRun
<1>9. Diagnosed'
  BY <1>1, <1>2, <1>3, <1>6 DEF IInv, Diagnosed, Terminal
<1> QED
  BY <1>4, <1>5, <1>7, <1>8, <1>9 DEF IInv

LEMMA ServerInv == IInv /\ ServerStep => IInv'
<1> SUFFICES ASSUME IInv, ServerStep PROVE IInv'
  OBVIOUS
<1>1. ASSUME NEW n \in Run, Accept(n) PROVE IInv'
  BY <1>1, StatementInv DEF Accept, Status, IInv, TypeOK
<1>2. ASSUME NEW n \in Run, SubmissionLost(n) PROVE IInv'
  BY <1>2, StatementInv DEF SubmissionLost, Status, IInv, TypeOK
<1>3. ASSUME NEW n \in Run, NEW s \in Terminal, Completes(n, s) PROVE IInv'
  BY <1>3, StatementInv DEF Completes, Status, IInv, TypeOK
<1>4. ASSUME UNCHANGED <<run, command, stmt>>, cancelling' \subseteq Run PROVE IInv'
  BY <1>4 DEF IInv, TypeOK, OtherRuns, ThisRun, Final, Diagnosed, command
<1>5. ASSUME NEW n \in Run, CancelledElsewhere(n) PROVE IInv'
  BY <1>4, <1>5 DEF CancelledElsewhere, IInv, TypeOK
<1>6. CASE CancelAccepted
  BY <1>4, <1>6, CurrentRun DEF CancelAccepted, IInv, TypeOK
<1> QED
  BY <1>1, <1>2, <1>3, <1>5, <1>6 DEF ServerStep

LEMMA NextInv == IInv /\ [Next]_vars => IInv'
<1> SUFFICES ASSUME IInv, [Next]_vars PROVE IInv'
  OBVIOUS
<1>1. CASE CommandStep
  BY <1>1, AccessResolvedInv, AccessDeniedInv, AccessInterruptedInv, SubmittedInv,
     SubmitFailsInv, SubmitInterruptedInv, WaitFinishedInv, WaitFailsInv,
     WaitInterruptedInv, CancelInv DEF CommandStep
<1>2. CASE UNCHANGED vars
  BY <1>2 DEF vars, command, server, IInv, TypeOK, OtherRuns, ThisRun, Final, Diagnosed
<1> QED
  BY <1>1, <1>2, StartInv, InterruptInv, VerifyInv, ServerInv DEF Next

-----------------------------------------------------------------------------
(* The inductive invariant: only the current run's statement can still     *)
(* take effect, and what its report says of it is true.                    *)
THEOREM InductiveInvariant == Spec => []IInv
<1> QED
  BY InitInv, NextInv, PTL DEF Spec

(* Types, for any number of runs. *)
THEOREM TypeCorrect == Spec => []TypeOK
<1>1. IInv => TypeOK
  BY DEF IInv
<1> QED
  BY <1>1, InductiveInvariant, PTL

(* However often the user repeats the statement as the reports suggest,    *)
(* it takes effect at most once.                                           *)
THEOREM AtMostOnceHolds == Spec => []AtMostOnce
<1>1. IInv => AtMostOnce
  <2> SUFFICES ASSUME IInv PROVE AtMostOnce
    OBVIOUS
  <2> DEFINE done == {n \in Run : stmt[n] = "finished"}
  <2>1. done \subseteq {run}
    BY CurrentRun, QueryAssumption DEF OtherRuns, Past, Run
  <2>2. IsFiniteSet({run}) /\ Cardinality({run}) = 1
    BY FS_Singleton
  <2>3. Cardinality(done) <= 1
    BY <2>1, <2>2, FS_Subset
  <2> QED
    BY <2>3 DEF AtMostOnce
<1> QED
  BY <1>1, InductiveInvariant, PTL

(* Exit code, hint and printing of a command that ended, for any order of  *)
(* interruptions, answers and losses.                                      *)
THEOREM DiagnosedHolds == Spec => []Diagnosed
<1>1. IInv => Diagnosed
  BY DEF IInv
<1> QED
  BY <1>1, InductiveInvariant, PTL
=============================================================================
