---------------------------- MODULE QueryExecution ----------------------------
(***************************************************************************)
(* scope query (internal/command/query.go, internal/dataplane/query.go):   *)
(* a statement is submitted, waited for, and, when the wait is interrupted *)
(* by Ctrl+C or --timeout, cancelled on a best-effort basis.  What happened *)
(* is told by the errors of ErrorReports.                                  *)
(*                                                                         *)
(* Statements have side effects.  Their user follows the diagnostics: a    *)
(* statement is run again only when the report says that it had no effect, *)
(* and an outcome that could not be confirmed is looked up by its ID.      *)
(* Requests and answers may be lost or late.                               *)
(***************************************************************************)
EXTENDS ErrorReports, FiniteSets

CONSTANTS
    MaxRun,     \* bound: how often the user runs the statement
    None        \* no interruption, no answer

ASSUME QueryAssumption ==
    /\ MaxRun \in Nat \ {0}
    /\ None \notin {"interrupt", "timeout"}

VARIABLES
    run,        \* how often the command was started
    pc,         \* what the command does next
    cause,      \* why its context ended: None, "interrupt" or "timeout"
    known,      \* the command has the statement ID
    report,     \* what it told the user
    exit,       \* its exit code
    hints,      \* what it was advised to do
    shown,      \* whether the report was printed
    stmt,       \* server: run -> its statement
    cancelling  \* server: runs whose statement was asked to stop

command == <<pc, cause, known, report, exit, hints, shown>>
server == <<stmt, cancelling>>
vars == <<run, command, server>>

Run == 1..MaxRun
Terminal == {"finished", "failed", "cancelled"}
(* "sent" is a submission the server has not seen yet. *)
Status == {"none", "sent", "lost", "running"} \cup Terminal
Causes == {None, "interrupt", "timeout"}
Reports == {"none", "noaccess", "results", "unwritten", "error", "refused", "stopped"}
             \cup Terminal \cup {"unconfirmed"}

Exits == {ExitOK, ExitGeneral, ExitUsage, ExitAuth, ExitNotFound, ExitTemporary,
          ExitInterrupted}

-----------------------------------------------------------------------------
(* Reports *)

Stopped == IF cause = "timeout" THEN Deadline ELSE Canceled

(* What ResolveDataAccess may end with, when nobody presses Ctrl+C.        *)
AccessErrors ==
    {Other, {Fact("keyring")}, {Fact("no login")}, {Fact("oidc rejected")}}
      \cup {{[is |-> "setup", problem |-> problem]} :
               problem \in {"approval", "no workspaces", "none selected", "unavailable"}}
      \cup {DoJSON(a) : a \in {b \in Answer : b.stopped # Canceled}}
      \cup {PostForm(a, "server_error") : a \in {b \in Answer : b.stopped # Canceled}}

(* Errors of the Go SDK that are no interruption. *)
DataError(status, retryable) ==
    {[is |-> "data", invalid |-> FALSE, status |-> status, retryable |-> retryable]}
Refusals ==
    {DataError(status, FALSE) : status \in {400, 401, 403, 404}}
      \cup {{[is |-> "data", invalid |-> TRUE, status |-> 0, retryable |-> FALSE]}}
Failures == {DataError(0, TRUE), DataError(503, TRUE), DataError(200, FALSE)}

Interrupted(cancel) == {[is |-> "interrupted", cancel |-> cancel]} \cup Stopped
Unwritten ==
    {[is |-> "ready", code |-> ExitGeneral, hints |-> {"retrieve"}]}

Ends(r, err) ==
    /\ pc' = "done"
    /\ report' = r
    /\ exit' = NormalizeError(err).code
    /\ hints' = NormalizeError(err).hints
    /\ shown' = Prints(err)
    /\ UNCHANGED <<run, cause, known>>

-----------------------------------------------------------------------------
(* The command *)

Start ==
    /\ run < MaxRun
    /\ \/ pc = "idle"
       \/ pc = "done" /\ report \in {"noaccess", "refused", "failed", "cancelled"}
    /\ run' = run + 1
    /\ pc' = "access"
    /\ cause' = None
    /\ known' = FALSE
    /\ report' = "none"
    /\ exit' = ExitOK
    /\ hints' = {}
    /\ shown' = FALSE
    /\ UNCHANGED server

(* ResolveDataAccess; the time limit of --timeout starts after it. *)
AccessResolved ==
    /\ pc = "access"
    /\ pc' = "submit"
    /\ stmt' = [stmt EXCEPT ![run] = "sent"]
    /\ UNCHANGED <<run, cause, known, report, exit, hints, shown, cancelling>>

AccessDenied ==
    /\ pc = "access"
    /\ \E err \in AccessErrors \ {{}} : Ends("noaccess", err)
    /\ UNCHANGED server

AccessInterrupted ==
    /\ pc = "access" /\ cause # None
    /\ \E a \in {b \in Answer : b.stopped = Canceled} : Ends("stopped", DoJSON(a))
    /\ UNCHANGED server

(* Ctrl+C at any time, or --timeout or a timeout of the connection while submitting or *)
(* waiting.  The cancellation request has a context of its own that none   *)
(* of them can end.                                                        *)
Interrupt(c) ==
    /\ pc \in {"submit", "wait"} \/ (pc = "access" /\ c = "interrupt")
    /\ cause = None
    /\ cause' = c
    /\ UNCHANGED <<run, pc, known, report, exit, hints, shown, server>>

Submitted ==
    /\ pc = "submit"
    /\ stmt[run] \in Terminal \cup {"running"}
    /\ pc' = "wait"
    /\ known' = TRUE
    /\ UNCHANGED <<run, cause, report, exit, hints, shown, server>>

(* The server refuses the statement: it never runs. *)
SubmitRefused ==
    /\ pc = "submit"
    /\ stmt[run] = "sent"
    /\ stmt' = [stmt EXCEPT ![run] = "lost"]
    /\ \E err \in Refusals : Ends("refused", err)
    /\ UNCHANGED cancelling

(* The connection breaks; the statement may have been accepted. *)
SubmitError ==
    /\ pc = "submit"
    /\ \E err \in Refusals \cup Failures : Ends("error", err)
    /\ UNCHANGED server

SubmitInterrupted ==
    /\ pc = "submit" /\ cause # None
    /\ Ends("stopped", Stopped)
    /\ UNCHANGED server

(* handle.Wait returns a result, a statement that failed or was cancelled  *)
(* elsewhere, or a transport error.                                        *)
WaitFinished ==
    /\ pc = "wait"
    /\ stmt[run] = "finished"
    /\ \/ Ends("results", {})
       \/ Ends("unwritten", Unwritten)
    /\ UNCHANGED server

WaitFailed ==
    /\ pc = "wait"
    /\ stmt[run] \in {"failed", "cancelled"}
    /\ Ends(stmt[run], DataError(200, FALSE))
    /\ UNCHANGED server

WaitError ==
    /\ pc = "wait"
    /\ \E err \in Refusals \cup Failures : Ends("error", err)
    /\ UNCHANGED server

WaitInterrupted ==
    /\ pc = "wait" /\ cause # None
    /\ pc' = "cancel"
    /\ UNCHANGED <<run, cause, known, report, exit, hints, shown, server>>

(* The server takes the request and answers with the status it then has:   *)
(* cancelling may take its time.                                           *)
CancelAccepted ==
    /\ pc = "cancel"
    /\ stmt[run] = "running"
    /\ cancelling' = cancelling \cup {run}
    /\ UNCHANGED <<run, command, stmt>>

ConfirmsAny(s) ==   \* variant: any answer confirms the cancellation
    Ends("cancelled", Interrupted("cancelled"))
ConfirmsRaw(s) ==   \* variant: only a failed request is unconfirmed
    Ends(s, Interrupted(s))
Confirms(s) == Ends(IF s \in Terminal THEN s ELSE "unconfirmed", Interrupted(s))

CancelAnswered ==
    /\ pc = "cancel"
    /\ run \in cancelling \/ stmt[run] \in Terminal
    /\ Confirms(stmt[run])
    /\ UNCHANGED server

(* No answer within five seconds, or an error. *)
CancelHangs ==      \* variant: no time limit of its own
    /\ pc = "cancel" /\ run \in cancelling
    /\ Ends("unconfirmed", Interrupted("unanswered"))
    /\ UNCHANGED server
CancelFails ==
    /\ pc = "cancel"
    /\ Ends("unconfirmed", Interrupted("unanswered"))
    /\ UNCHANGED server

(* The user looks up a statement whose outcome could not be confirmed. *)
Verify ==
    /\ pc = "done" /\ report = "unconfirmed" /\ "verify" \in hints /\ shown
    /\ stmt[run] \in Terminal
    /\ report' = stmt[run]
    /\ UNCHANGED <<run, pc, cause, known, exit, hints, shown, server>>

-----------------------------------------------------------------------------
(* The server *)

Accept(n) ==
    /\ stmt[n] = "sent"
    /\ stmt' = [stmt EXCEPT ![n] = "running"]
    /\ UNCHANGED <<run, command, cancelling>>

SubmissionLost(n) ==
    /\ stmt[n] = "sent" /\ ~(pc = "submit" /\ n = run)
    /\ stmt' = [stmt EXCEPT ![n] = "lost"]
    /\ UNCHANGED <<run, command, cancelling>>

Completes(n, s) ==
    /\ stmt[n] = "running"
    /\ s = "cancelled" => n \in cancelling
    /\ stmt' = [stmt EXCEPT ![n] = s]
    /\ UNCHANGED <<run, command, cancelling>>

(* Another client of the workspace asks for the cancellation. *)
CancelledElsewhere(n) ==
    /\ stmt[n] = "running"
    /\ cancelling' = cancelling \cup {n}
    /\ UNCHANGED <<run, command, stmt>>

-----------------------------------------------------------------------------
Init ==
    /\ run = 0
    /\ pc = "idle"
    /\ cause = None
    /\ known = FALSE
    /\ report = "none"
    /\ exit = ExitOK
    /\ hints = {}
    /\ shown = FALSE
    /\ stmt = [n \in Run |-> "none"]
    /\ cancelling = {}

CommandStep ==
    \/ AccessResolved \/ AccessDenied \/ AccessInterrupted
    \/ Submitted \/ SubmitRefused \/ SubmitError \/ SubmitInterrupted
    \/ WaitFinished \/ WaitFailed \/ WaitError \/ WaitInterrupted
    \/ CancelAnswered \/ CancelFails

ServerStep ==
    \/ CancelAccepted
    \/ \E n \in Run :
          \/ Accept(n) \/ SubmissionLost(n) \/ CancelledElsewhere(n)
          \/ \E s \in Terminal : Completes(n, s)

Next ==
    \/ Start
    \/ \E c \in Causes \ {None} : Interrupt(c)
    \/ CommandStep
    \/ Verify
    \/ ServerStep

Spec == Init /\ [][Next]_vars

(* An interrupted request returns, and the cancellation gives up after five *)
(* seconds.  Nothing is assumed of the server.                             *)
InterruptedStep ==
    AccessInterrupted \/ SubmitInterrupted \/ WaitInterrupted \/ CancelAnswered \/ CancelFails
FairSpec == Spec /\ WF_vars(InterruptedStep)

-----------------------------------------------------------------------------
(* Properties *)

(* Types of the command, its report and the statements. *)
TypeOK ==
    /\ run \in 0..MaxRun
    /\ pc \in {"idle", "access", "submit", "wait", "cancel", "done"}
    /\ cause \in Causes
    /\ known \in BOOLEAN
    /\ report \in Reports
    /\ exit \in Exits
    /\ hints \subseteq {"verify", "retrieve", "keyring", "login", "trust policy", "setup"}
    /\ shown \in BOOLEAN
    /\ stmt \in [Run -> Status]
    /\ cancelling \subseteq Run

(* A user who trusts the reports never repeats a statement that took       *)
(* effect: whatever is lost or late, "cancelled" and "failed" are only     *)
(* reported when they are final ("A successful cancellation request only   *)
(* confirms cancellation when the returned statement status is             *)
(* cancelled", docs/connect.md:126).                                       *)
AtMostOnce == Cardinality({n \in Run : stmt[n] = "finished"}) <= 1

(* "Once a statement ID has been received, timeout and Ctrl+C diagnostics  *)
(* include it [...] The command keeps its timeout or interrupt exit code"   *)
(* (README.md:96): what is reported after the ID arrived is printed, and a *)
(* statement left running is one to verify, unless the wait itself broke;  *)
(* 130 means Ctrl+C and nothing else, also of a command whose last answer  *)
(* was a status of its own, and only a command without an ID is silent.    *)
Diagnosed ==
    pc = "done" =>
        /\ known => shown \/ report = "results"
        /\ known /\ stmt[run] = "running" =>
               "verify" \in hints \/ report = "error"
        /\ exit = ExitInterrupted => cause = "interrupt"
        /\ report \in {"stopped", "unconfirmed", "finished"} =>
               exit = IF cause = "timeout" THEN ExitTemporary ELSE ExitInterrupted
        /\ ~shown => report = "results" \/ (exit = ExitInterrupted /\ ~known)

(* Ctrl+C and --timeout end the command, also when the server answers      *)
(* neither the request nor the cancellation (dataplane/query.go:97-99).    *)
Stops == cause # None ~> pc = "done"
=============================================================================
