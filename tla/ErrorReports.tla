----------------------------- MODULE ErrorReports -----------------------------
(***************************************************************************)
(* What an error becomes on its way to the user: the HTTP clients of the   *)
(* control plane make errors of answers (controlplane/client.go, oauth.go), *)
(* callers wrap them, NormalizeError (command/app.go) maps the chain to an *)
(* exit code and a hint, and execute (cmd/scope/main.go) prints it or not. *)
(*                                                                         *)
(* An error is the set of facts that errors.Is and errors.As find in its   *)
(* chain; {} is no error.  A report is an exit code with hints.  Messages, *)
(* request IDs and "retry after" are left out.                             *)
(***************************************************************************)
EXTENDS Integers

ExitOK == 0
ExitGeneral == 1
ExitUsage == 2
ExitAuth == 3
ExitNotFound == 4
ExitTemporary == 5
ExitInterrupted == 130

Fact(kind) == [is |-> kind]
Is(err, kind) == \E f \in err : f.is = kind
As(err, kind) == CHOOSE f \in err : f.is = kind

Other == {Fact("other")}
Canceled == {Fact("canceled")}
Deadline == {Fact("deadline")}

-----------------------------------------------------------------------------
(* The HTTP clients *)

(* What comes of a request: its status (0: none), its body, and whether    *)
(* Ctrl+C or a time limit ended it, before an answer or in the middle.     *)
Answer ==
    {a \in [status : {0, 200, 400, 401, 403, 404, 429, 503},
            body : {"good", "cut", "invalid"}, stopped : {{}, Canceled, Deadline}] :
        a.stopped # {} => a.status = 0 \/ a.body = "cut"}

Succeeds(status) == status \in 200..299
Temporary(status) == status \in {408, 429} \/ status >= 500

ControlError(status, retryable) ==
    {[is |-> "control", status |-> status, retryable |-> retryable]}

DoJSON(a) ==
    IF a.status = 0
    THEN IF a.stopped # {} THEN a.stopped ELSE ControlError(0, TRUE)
    ELSE IF ~Succeeds(a.status)
    THEN ControlError(a.status, Temporary(a.status)) \cup a.stopped
    ELSE IF a.body # "good" THEN ControlError(a.status, FALSE) \cup a.stopped ELSE {}

OAuthError(status, code, retryable) ==
    {[is |-> "oauth", status |-> status, code |-> code, retryable |-> retryable]}

(* The caller's context is asked first; what a time limit of the client    *)
(* ended may be tried again, like a body that was cut short.               *)
PostForm(a, code) ==
    IF a.status = 0
    THEN IF a.stopped = Canceled THEN Canceled ELSE OAuthError(0, "", TRUE) \cup a.stopped
    ELSE IF ~Succeeds(a.status)
    THEN OAuthError(a.status, IF a.body = "good" THEN code ELSE "server_error",
                    Temporary(a.status)) \cup a.stopped
    ELSE CASE a.body = "good" -> {}
           [] a.body = "cut" -> OAuthError(a.status, "", TRUE) \cup a.stopped
           [] a.body = "invalid" -> OAuthError(a.status, "server_error", FALSE)

-----------------------------------------------------------------------------
(* NormalizeError *)

Report(code, hints) == [code |-> code, hints |-> hints]

(* normalizeCatalogError: later rules override earlier ones. *)
CatalogCode(f, err) ==
    CASE Is(err, "canceled") -> ExitInterrupted
      [] ~Is(err, "canceled") /\ f.code = "outcome_unknown" ->
            IF Is(err, "deadline") THEN ExitTemporary ELSE ExitGeneral
      [] ~Is(err, "canceled") /\ f.code = "destructive" -> ExitUsage
      [] OTHER ->
            CASE f.status \in {400, 422} -> ExitUsage
              [] f.status \in {401, 403} -> ExitAuth
              [] f.status = 404 -> ExitNotFound
              [] Temporary(f.status) \/ Is(err, "deadline") -> ExitTemporary
              [] OTHER -> ExitGeneral

QuietHints(f, err) ==   \* variant: Ctrl+C drops every hint
    CASE Is(err, "canceled") -> {}
      [] f.code = "outcome_unknown" /\ ~Is(err, "canceled") -> {"read the catalog"}
      [] f.code = "destructive" /\ ~Is(err, "canceled") -> {"allow data loss"}
      [] OTHER -> IF f.status = 412 THEN {"plan again"} ELSE {}
CatalogHints(f, err) ==
    CASE f.code = "outcome_unknown" -> {"read the catalog"}
      [] f.code # "outcome_unknown" /\ Is(err, "canceled") -> {}
      [] f.code = "destructive" /\ ~Is(err, "canceled") -> {"allow data loss"}
      [] OTHER -> IF f.status = 412 THEN {"plan again"} ELSE {}

InterruptHints(f) ==
    CASE f.cancel = "finished" -> {"retrieve"}
      [] f.cancel \in {"cancelled", "failed"} -> {}
      [] OTHER -> {"verify"}

SetupCode(problem) == IF problem = "approval" THEN ExitAuth ELSE ExitUsage

OAuthCode(f) ==
    CASE f.code \in {"invalid_grant", "invalid_client", "access_denied"} -> ExitAuth
      [] f.code \in {"invalid_request", "invalid_scope", "unsupported_grant_type"} ->
            ExitUsage
      [] OTHER -> IF f.retryable THEN ExitTemporary ELSE ExitGeneral

StatusCode(f) ==
    CASE f.status \in {401, 403} -> ExitAuth
      [] f.status = 404 -> ExitNotFound
      [] OTHER -> IF f.retryable THEN ExitTemporary ELSE ExitGeneral

LoginIf(code) == IF code = ExitAuth THEN {"login"} ELSE {}

NormalizeCause(err) ==
    IF err = {} THEN Report(ExitOK, {})
    ELSE IF Is(err, "ready") THEN
        LET f == As(err, "ready")
        IN Report(f.code, f.hints \cup IF Is(err, "keyring") THEN {"keyring"} ELSE {})
    ELSE IF Is(err, "catalog") THEN
        LET f == As(err, "catalog") IN Report(CatalogCode(f, err), CatalogHints(f, err))
    ELSE IF Is(err, "interrupted") THEN
        Report(IF Is(err, "deadline") THEN ExitTemporary ELSE ExitInterrupted,
               InterruptHints(As(err, "interrupted")))
    ELSE IF Is(err, "canceled") THEN Report(ExitInterrupted, {})
    ELSE IF Is(err, "deadline") THEN Report(ExitTemporary, {})
    ELSE IF Is(err, "keyring") THEN Report(ExitGeneral, {"keyring"})
    ELSE IF Is(err, "no login") THEN Report(ExitAuth, {"login"})
    ELSE IF Is(err, "oidc rejected") THEN Report(ExitAuth, {"trust policy"})
    ELSE IF Is(err, "setup") THEN Report(SetupCode(As(err, "setup").problem), {"setup"})
    ELSE IF Is(err, "oauth") THEN
        LET code == OAuthCode(As(err, "oauth")) IN Report(code, LoginIf(code))
    ELSE IF Is(err, "control") THEN
        LET code == StatusCode(As(err, "control")) IN Report(code, LoginIf(code))
    ELSE IF Is(err, "data") THEN
        LET f == As(err, "data")
        IN Report(IF f.invalid THEN ExitUsage ELSE StatusCode(f), {})
    ELSE IF Is(err, "unknown command") THEN Report(ExitUsage, {})
    ELSE Report(ExitGeneral, {})

(* A login that logout could not revoke is reported whatever the reason.   *)
NormalizeError(err) ==
    IF Is(err, "cleanup")
      THEN [NormalizeCause(As(err, "cleanup").err) EXCEPT !.hints = {"revoke it"}]
      ELSE NormalizeCause(err)

(* execute: an interrupt that has neither a hint nor a statement ID prints *)
(* nothing but a newline.                                                  *)
PrintsHints(err) ==     \* variant: an ID alone is not worth printing
    LET report == NormalizeError(err)
    IN report.code \notin {ExitOK, ExitInterrupted} \/ report.hints # {}
Prints(err) ==
    LET report == NormalizeError(err)
    IN \/ report.code \notin {ExitOK, ExitInterrupted}
       \/ report.hints # {}
       \/ Is(err, "interrupted")
=============================================================================
