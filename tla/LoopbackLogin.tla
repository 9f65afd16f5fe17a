---------------------------- MODULE LoopbackLogin ----------------------------
(***************************************************************************)
(* loopbackLogin (internal/command/login.go) and its listener on 127.0.0.1 *)
(* (internal/oauth/loopback.go).  The browser brings the outcome of the    *)
(* authorization as a request to /callback; a handler per connection hands *)
(* it to the login through a channel with room for one.  Tabs are reloaded *)
(* or left over from earlier logins, browsers ask for other paths, and     *)
(* connections are opened that never carry a request.                      *)
(***************************************************************************)
EXTENDS Naturals, Sequences

CONSTANTS
    Conn,       \* connections
    Callback,   \* what browsers bring to /callback
    OtherPath,  \* a request for any other path
    None        \* no decision, no callback

(* A callback names the login (its state) and the server (its issuer) it   *)
(* comes from, and brings a code, a denial, another error or nothing.      *)
Brought == {"code", "denied", "error", "empty"}
Kind == [own : BOOLEAN, issuer : BOOLEAN, answer : Brought]
Genuine(cb) == cb.own /\ cb.issuer

ASSUME LoopbackAssumption ==
    /\ Callback \subseteq Kind
    /\ None \notin Callback /\ OtherPath \notin Callback /\ None # OtherPath
    /\ None \notin {"approved", "denied"}

Request == Callback \cup {OtherPath}

VARIABLES
    pc,         \* what the login does next
    results,    \* the channel
    got,        \* the callback the login acts on
    result,     \* how the login ended
    listening,  \* the listener accepts connections
    conn,       \* connection -> state of its handler
    asked,      \* connection -> its request
    decision,   \* authorization server: what the user decided
    first       \* history: the callback that was handed over first

login == <<pc, got, result, listening>>
vars == <<login, results, conn, asked, decision, first>>

Result == {"none", "tokens", "failed", "denied", "mismatch", "otherIssuer",
           "timeout", "interrupted", "stopped"}

-----------------------------------------------------------------------------
(* The user and the browser *)

Decide(d) ==
    /\ decision = None
    /\ decision' = d
    /\ UNCHANGED <<login, results, conn, asked, first>>

(* The server sends its code after an approval and a denial after a        *)
(* denial; it may fail at any time, and other servers send what they like. *)
Connect(c, r) ==
    /\ listening /\ conn[c] = "none"
    /\ r \in Callback /\ Genuine(r) =>
          /\ r.answer = "code" => decision = "approved"
          /\ r.answer = "denied" => decision = "denied"
    /\ conn' = [conn EXCEPT ![c] = "open"]
    /\ asked' = [asked EXCEPT ![c] = r]
    /\ UNCHANGED <<login, results, decision, first>>

-----------------------------------------------------------------------------
(* The handlers, which stop with the process *)

(* The request is complete; the answer is written and not sent yet. *)
Receive(c) ==
    /\ conn[c] = "open" /\ pc # "done"
    /\ conn' = [conn EXCEPT ![c] = IF asked[c] \in Callback THEN "send" ELSE "answer"]
    /\ UNCHANGED <<login, results, asked, decision, first>>

(* Nothing came within ReadHeaderTimeout, or the browser went away. *)
Dropped(c) ==
    /\ conn[c] = "open" /\ pc # "done"
    /\ conn' = [conn EXCEPT ![c] = "closed"]
    /\ UNCHANGED <<login, results, asked, decision, first>>

(* The send has a default: it never waits. *)
SentLast(cb) == <<cb>>                  \* variant: the latest callback counts
SentAll(cb) == Append(results, cb)      \* variant: room for any number
Sent(cb) == IF results = <<>> THEN <<cb>> ELSE results

Send(c) ==
    /\ conn[c] = "send" /\ pc # "done"
    /\ results' = Sent(asked[c])
    /\ first' = IF first = None THEN asked[c] ELSE first
    /\ conn' = [conn EXCEPT ![c] = "answer"]
    /\ UNCHANGED <<login, asked, decision>>

Answer(c) ==
    /\ conn[c] = "answer" /\ pc # "done"
    /\ conn' = [conn EXCEPT ![c] = "closed"]
    /\ UNCHANGED <<login, results, asked, decision, first>>

-----------------------------------------------------------------------------
(* The login *)

(* loopbackLogin returns: the listener is closed first. *)
Returns(r) ==
    /\ pc' = "close"
    /\ result' = r
    /\ listening' = FALSE

(* The URL is printed and the browser opened before anybody waits. *)
Wait ==
    /\ pc = "open"
    /\ pc' = "wait"
    /\ UNCHANGED <<got, result, listening, results, conn, asked, decision, first>>

(* The state is looked at first, then the issuer, the error and the code. *)
JudgeAllDenied(cb) ==       \* variant: every error is called a denial
    CASE ~cb.own -> "mismatch"
      [] cb.own /\ ~cb.issuer -> "otherIssuer"
      [] Genuine(cb) /\ cb.answer \in {"denied", "error"} -> "denied"
      [] Genuine(cb) /\ cb.answer = "empty" -> "failed"
      [] Genuine(cb) /\ cb.answer = "code" -> "none"
Judge(cb) ==
    CASE ~cb.own -> "mismatch"
      [] cb.own /\ ~cb.issuer -> "otherIssuer"
      [] Genuine(cb) /\ cb.answer = "denied" -> "denied"
      [] Genuine(cb) /\ cb.answer \in {"error", "empty"} -> "failed"
      [] Genuine(cb) /\ cb.answer = "code" -> "none"

TakeResult ==
    /\ pc = "wait" /\ results # <<>>
    /\ got' = Head(results)
    /\ results' = Tail(results)
    /\ IF Judge(got') = "none"
       THEN pc' = "exchange" /\ UNCHANGED <<result, listening>>
       ELSE Returns(Judge(got'))
    /\ UNCHANGED <<conn, asked, decision, first>>

(* The select of Wait has more than one channel: the time limit and Ctrl+C *)
(* compete with a callback that is already there.                          *)
WaitOnlyInterrupted(r) ==   \* variant: no time limit of its own
    r = "interrupted"
WaitEnds(r) == r \in {"timeout", "interrupted", "stopped"}

StopWaiting(r) ==
    /\ pc = "wait"
    /\ WaitEnds(r)
    /\ Returns(r)
    /\ UNCHANGED <<got, results, conn, asked, decision, first>>

ExchangeAuthorizationCode(r) ==
    /\ pc = "exchange"
    /\ Returns(r)
    /\ UNCHANGED <<got, results, conn, asked, decision, first>>

(* Shutdown waits for connections, but gives up after two seconds: the     *)
(* command goes on, whatever the handlers still do.                        *)
Close ==
    /\ pc = "close"
    /\ pc' = "closed"
    /\ UNCHANGED <<got, result, listening, results, conn, asked, decision, first>>

(* What comes next, storing the login or reporting the error, ends with    *)
(* the process.                                                            *)
Exit ==
    /\ pc = "closed"
    /\ pc' = "done"
    /\ UNCHANGED <<got, result, listening, results, conn, asked, decision, first>>

-----------------------------------------------------------------------------
Init ==
    /\ pc = "open" /\ results = <<>>
    /\ got = None /\ result = "none"
    /\ listening = TRUE
    /\ conn = [c \in Conn |-> "none"] /\ asked = [c \in Conn |-> None]
    /\ decision = None /\ first = None

LoginStep ==
    \/ Wait \/ TakeResult \/ Close \/ Exit
    \/ StopWaiting("timeout")
    \/ \E r \in {"tokens", "failed"} : ExchangeAuthorizationCode(r)

HandlerStep(c) == Send(c) \/ Answer(c)

Next ==
    \/ LoginStep
    \/ \E r \in {"interrupted", "stopped"} : StopWaiting(r)
    \/ \E c \in Conn : HandlerStep(c) \/ Receive(c) \/ Dropped(c)
    \/ \E c \in Conn, r \in Request : Connect(c, r)
    \/ \E d \in {"approved", "denied"} : Decide(d)

Spec == Init /\ [][Next]_vars

(* Timers run out and requests of the CLI end; the browser may do nothing. *)
FairSpec == Spec /\ WF_vars(LoginStep) /\ \A c \in Conn : WF_vars(HandlerStep(c))

-----------------------------------------------------------------------------
(* Properties *)

(* Types; the channel has room for one callback. *)
TypeOK ==
    /\ pc \in {"open", "wait", "exchange", "close", "closed", "done"}
    /\ results \in Seq(Callback) /\ Len(results) <= 1
    /\ got \in Callback \cup {None} /\ result \in Result
    /\ listening \in BOOLEAN
    /\ conn \in [Conn -> {"none", "open", "send", "answer", "closed"}]
    /\ asked \in [Conn -> Request \cup {None}]
    /\ decision \in {"approved", "denied", None}
    /\ first \in Callback \cup {None}

(* The first callback decides the login ("a one-shot HTTP listener",       *)
(* loopback.go:37), also one that comes while the browser is being opened: *)
(* later ones neither replace it nor make the login lose it.               *)
FirstDecides ==
    /\ pc \in {"open", "wait"} /\ first # None => results = <<first>>
    /\ got # None => got = first

(* Tokens are only obtained when the user approved, and the login is only  *)
(* called denied when the user denied this one: neither the error of a tab *)
(* of an earlier login or of another server nor any other error of the     *)
(* server is taken for a denial (login.go:291-302, 469-474).               *)
Truthful ==
    /\ result = "tokens" => decision = "approved"
    /\ result = "denied" => decision = "denied"

(* The login ends although nobody approves it and although connections are *)
(* left open (authorizationRequestTTL, login.go:34-36; loopback.go:95).    *)
Terminates == <>(pc = "done")
=============================================================================
