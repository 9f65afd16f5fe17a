----------------------------- MODULE DeviceLogin -----------------------------
(***************************************************************************)
(* deviceLogin (internal/command/login.go): the CLI polls the token        *)
(* endpoint until the user has approved or denied the code somewhere else. *)
(* The server may ask for longer intervals, requests and answers get lost, *)
(* and the code expires.                                                   *)
(*                                                                         *)
(* Time is counted in units of devicePollInterval (5 s) from the moment    *)
(* the server issued the code.  A wait passes unit by unit, so that the    *)
(* user may act at any time within it; a request takes a number of units,  *)
(* reaches the server somewhere within them, and the user may act at any   *)
(* time within it as well.                                                 *)
(***************************************************************************)
EXTENDS Naturals

CONSTANTS
    Announced,  \* intervals the server may announce; 0 stands for none
    ExpiresIn,  \* lifetime of the code
    Skew,       \* how late the CLI may start its own deadline
    MaxRequest, \* bound: units one request may take
    Horizon,    \* bound: the clock stops counting here
    MaxInterval,\* bound: the server asks for no longer interval
    Never       \* no poll or approval yet

devicePollInterval == 1
deviceSlowDownStep == 1
deviceMaxBackoff == 6

(* The bounds leave room for every interval and for the last wait. *)
ASSUME DeviceAssumption ==
    /\ ExpiresIn \in Nat \ {0} /\ Skew \in Nat /\ MaxRequest \in Nat
    /\ MaxInterval \in Nat /\ MaxInterval >= deviceMaxBackoff
    /\ Announced \subseteq 0..MaxInterval
    /\ Horizon \in Nat /\ Horizon >= ExpiresIn + Skew + MaxInterval
    /\ Never \notin Nat

VARIABLES
    clock,      \* time since the code was issued
    code,       \* server: pending, approved, denied or redeemed
    phase,      \* what the CLI does next
    interval,   \* the polling interval
    backoff,    \* the wait before the next poll
    left,       \* what is left of the current wait
    deadline,   \* when the CLI stops polling
    outcome,    \* how the login ended
    sent,       \* history: when the last poll was sent, Never before the first
    answered,   \* history: whether it was answered
    approved,   \* history: when the user approved
    missed,     \* history: a poll was lost or put off after the approval
    late        \* history: polls sent at or after the deadline (counted up to 2)

user == <<code, approved>>
cli == <<phase, interval, backoff, left, deadline, outcome>>
deviceVars == <<clock, user, cli, sent, answered, missed, late>>

Results == {"none", "tokens", "denied", "expired", "redeemed", "error", "cancelled"}

Least(a, b) == IF a < b THEN a ELSE b
Greatest(a, b) == IF a < b THEN b ELSE a
Later(t) == Least(clock + t, Horizon)

-----------------------------------------------------------------------------
(* The CLI *)

Ends(r) ==
    /\ phase' = "done"
    /\ outcome' = r
    /\ left' = 0
    /\ UNCHANGED <<interval, backoff, deadline>>

AsAnnounced(n) == n     \* variant: a missing interval means none
FirstInterval(n) == IF n = 0 THEN devicePollInterval ELSE n

NoDeadline == FALSE             \* variant: only the server ends the polling
PastDeadlineOnly == clock' > deadline  \* variant: off by one
Expired == clock' >= deadline

(* After an answer that leaves the login open: the deadline, then the wait. *)
WaitsFor(newInterval, wait) ==
    IF Expired
      THEN /\ phase' = "done" /\ outcome' = "expired" /\ left' = 0
           /\ interval' = newInterval /\ backoff' = wait
           /\ UNCHANGED deadline
      ELSE /\ phase' = "wait" /\ left' = wait
           /\ interval' = newInterval /\ backoff' = wait
           /\ UNCHANGED <<deadline, outcome>>

PendingKeeps == WaitsFor(interval, interval)

SlowDownLater ==        \* variant: the longer interval counts from the next poll
    WaitsFor(interval + deviceSlowDownStep, interval)
SlowDown ==
    WaitsFor(interval + deviceSlowDownStep, interval + deviceSlowDownStep)

Uncapped == 2 * backoff \* variant: no upper bound
Doubled == Least(2 * backoff, deviceMaxBackoff)

(* A transport failure may mean the response was lost: poll again. *)
BacksOff == WaitsFor(interval, Doubled)

-----------------------------------------------------------------------------
(* Polls: the request, what the server makes of it after e units, and the  *)
(* answer after d units                                                    *)

Polls(d) ==
    /\ phase = "poll"
    /\ clock' = Later(d)
    /\ sent' = clock
    /\ late' = IF clock >= deadline THEN Least(late + 1, 2) ELSE late

Answered(d) == Polls(d) /\ answered' = TRUE /\ UNCHANGED approved
Answers(d) == Answered(d) /\ UNCHANGED missed

(* The code is still valid when the request arrives. *)
Valid(e) == clock + e < ExpiresIn

(* The code after a request that the server may or may not have got. *)
Reached(e) == {code} \cup IF Valid(e) /\ code = "approved" THEN {"redeemed"} ELSE {}

Tokens(e, d) ==
    /\ Answers(d)
    /\ Valid(e) /\ code = "approved"
    /\ code' = "redeemed"
    /\ Ends("tokens")

Pending(e, d) ==
    /\ Answers(d)
    /\ Valid(e) /\ code = "pending"
    /\ PendingKeeps
    /\ UNCHANGED code

ToldToSlowDown(e, d) ==
    /\ Answered(d)
    /\ interval < MaxInterval
    /\ missed' = (missed \/ code = "approved")
    /\ Valid(e) /\ code \in {"pending", "approved"}
    /\ SlowDown
    /\ UNCHANGED code

(* access_denied, expired_token and invalid_grant *)
Refused(e, d) ==
    /\ Answers(d)
    /\ \/ Valid(e) /\ code = "denied" /\ Ends("denied")
       \/ ~Valid(e) /\ Ends("expired")
       \/ Valid(e) /\ code = "redeemed" /\ Ends("redeemed")
    /\ UNCHANGED code

(* An HTTP error, or an answer that cannot be read. *)
PollError(e, d) ==
    /\ Answers(d)
    /\ code' \in Reached(e)
    /\ Ends("error")

(* No answer arrives; the server may have dealt with the request. *)
PollLost(e, d) ==
    /\ Polls(d)
    /\ answered' = FALSE
    /\ code' \in Reached(e)
    /\ missed' = (missed \/ code = "approved")
    /\ BacksOff
    /\ UNCHANGED approved

-----------------------------------------------------------------------------
(* Waiting, and everybody else *)

(* waitForPoll *)
Tick ==
    /\ phase = "wait"
    /\ clock' = Later(1)
    /\ left' = left - 1
    /\ phase' = IF left = 1 THEN "poll" ELSE "wait"
    /\ UNCHANGED <<user, interval, backoff, deadline, outcome, sent, answered,
                   missed, late>>

(* Ctrl+C ends the wait or the request, which may have been dealt with. *)
Cancelled ==
    /\ \/ phase = "wait" /\ UNCHANGED code
       \/ phase = "poll" /\ code' \in Reached(0)
    /\ Ends("cancelled")
    /\ UNCHANGED <<clock, approved, sent, answered, missed, late>>

(* The user acts now, or acted after the server had looked at the code for *)
(* the last poll and before its answer was there.                          *)
Since == IF sent = Never THEN clock ELSE sent

Approve ==
    /\ code = "pending"
    /\ code' = "approved"
    /\ approved' \in {t \in Since..clock : t < ExpiresIn}
    /\ UNCHANGED <<clock, cli, sent, answered, missed, late>>

Deny ==
    /\ code \in {"pending", "approved"} /\ Valid(0)
    /\ code' = "denied"
    /\ UNCHANGED <<clock, approved, cli, sent, answered, missed, late>>

-----------------------------------------------------------------------------
DeviceInit ==
    /\ clock \in 0..Skew
    /\ code = "pending"
    /\ phase = "poll"
    /\ interval \in {FirstInterval(n) : n \in Announced}
    /\ backoff = interval
    /\ left = 0
    /\ deadline = clock + ExpiresIn
    /\ outcome = "none"
    /\ sent = Never
    /\ answered = TRUE
    /\ approved = Never
    /\ missed = FALSE
    /\ late = 0

PollStep ==
    \E d \in 0..MaxRequest : \E e \in 0..d :
        \/ Tokens(e, d) \/ Pending(e, d) \/ ToldToSlowDown(e, d) \/ Refused(e, d)
        \/ PollError(e, d) \/ PollLost(e, d)

DeviceNext == PollStep \/ Tick \/ Cancelled \/ Approve \/ Deny

DeviceSpec == DeviceInit /\ [][DeviceNext]_deviceVars

(* Requests time out and sleeps end: the CLI always goes on. *)
FairDeviceSpec == DeviceSpec /\ WF_deviceVars(PollStep \/ Tick)

-----------------------------------------------------------------------------
(* Properties *)

(* Types; the wait is at least one unit and bounded. *)
DeviceTypeOK ==
    /\ clock \in 0..Horizon
    /\ code \in {"pending", "approved", "denied", "redeemed"}
    /\ phase \in {"poll", "wait", "done"}
    /\ interval \in 1..MaxInterval
    /\ backoff \in 1..MaxInterval
    /\ left \in 0..MaxInterval
    /\ deadline \in ExpiresIn..(ExpiresIn + Skew)
    /\ outcome \in Results
    /\ sent \in (0..Horizon) \cup {Never}
    /\ answered \in BOOLEAN
    /\ approved \in (0..Horizon) \cup {Never}
    /\ missed \in BOOLEAN
    /\ late \in 0..2

(* An answered poll is followed by the full interval, the raised one after  *)
(* slow_down; a lost one by at least the interval or deviceMaxBackoff,      *)
(* whichever is shorter (login.go:343-366).                                 *)
Paced ==
    phase = "poll" /\ sent # Never =>
        clock - sent >= IF answered THEN interval
                                    ELSE Least(interval, deviceMaxBackoff)

(* An approval is not slept through: when the login expires although the    *)
(* user approved and no poll was lost or put off since, the approval came   *)
(* later than one wait and two requests before the end: the poll that was   *)
(* under way and the one that came too late (login.go:341-376).             *)
ApprovalNoticed ==
    outcome = "expired" /\ code = "approved" /\ ~missed =>
        approved + Greatest(interval, deviceMaxBackoff) + 2 * MaxRequest >= ExpiresIn

(* At most one poll is sent after the deadline: the loop looks at the clock *)
(* after each answer and before the wait (login.go:368).                    *)
OneLatePoll == late <= 1

(* The login ends, even when no poll is ever answered, or every one with    *)
(* authorization_pending or slow_down (login.go:368).                       *)
DeviceTerminates == <>(phase = "done")
=============================================================================
