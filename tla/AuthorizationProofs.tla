------------------------- MODULE AuthorizationProofs -------------------------
(***************************************************************************)
(* Proofs about the two interactive authorizations.                        *)
(*                                                                         *)
(* LoopbackLogin, for any number of connections and any callbacks: types,  *)
(* FirstDecides and Truthful.  Until the login takes it, the channel holds *)
(* the first callback and nothing else; and a genuine code or denial is    *)
(* what the user decided.                                                  *)
(*                                                                         *)
(* DeviceLogin, for any lifetime of the code, any announced intervals and  *)
(* any duration of a request: types, Paced, OneLatePoll and                *)
(* ApprovalNoticed.  A wait, as far as it has got, and what is left of it  *)
(* make up the backoff since the last poll.                                *)
(***************************************************************************)
EXTENDS LoopbackLogin, DeviceLogin, SequenceTheorems, TLAPS

(***************************************************************************)
(* LoopbackLogin                                                           *)
(***************************************************************************)

(* The channel is empty or holds one callback. *)
Channel(s) == s = <<>> \/ \E cb \in Callback : s = <<cb>>

(* Before the login has taken anything, the channel holds what came first. *)
FirstInv ==
    pc \in {"open", "wait"} =>
        /\ got = None
        /\ results = IF first = None THEN <<>> ELSE <<first>>

GotInv ==
    /\ got # None => got = first
    /\ pc = "exchange" => got \in Callback /\ Genuine(got) /\ got.answer = "code"

(* A genuine code or denial was decided for this login. *)
Decided(cb) ==
    Genuine(cb) => /\ cb.answer = "code" => decision = "approved"
                   /\ cb.answer = "denied" => decision = "denied"

DecidedInv ==
    /\ \A c \in Conn : asked[c] \in Callback => Decided(asked[c])
    /\ first \in Callback => Decided(first)

HandlerInv == \A c \in Conn : conn[c] = "send" => asked[c] \in Callback

IInv ==
    /\ TypeOK /\ FirstInv /\ GotInv /\ DecidedInv /\ HandlerInv
    /\ Truthful

-----------------------------------------------------------------------------
LEMMA ChannelType ==
    ASSUME NEW s
    PROVE  Channel(s) <=> s \in Seq(Callback) /\ Len(s) <= 1
<1>1. ASSUME s = <<>> PROVE s \in Seq(Callback) /\ Len(s) <= 1
  BY <1>1
<1>2. ASSUME NEW cb \in Callback, s = <<cb>> PROVE s \in Seq(Callback) /\ Len(s) <= 1
  BY <1>2
<1>3. ASSUME s \in Seq(Callback), Len(s) <= 1 PROVE Channel(s)
  <2>1. Len(s) \in Nat
    BY <1>3
  <2>2. CASE Len(s) = 0
    BY <1>3, <2>2, EmptySeq DEF Channel
  <2>3. CASE Len(s) = 1
    <3>1. s[1] \in Callback /\ s = <<s[1]>>
      BY <1>3, <2>3
    <3> QED
      BY <3>1 DEF Channel
  <2>4. ASSUME NEW n \in Nat, n <= 1 PROVE n = 0 \/ n = 1
    BY <2>4
  <2>5. Len(s) = 0 \/ Len(s) = 1
    BY <1>3, <2>1, <2>4, Zenon
  <2> QED
    BY <2>2, <2>3, <2>5
<1> QED
  BY <1>1, <1>2, <1>3 DEF Channel

LEMMA InitInv == Init => IInv
<1> SUFFICES ASSUME Init PROVE IInv
  OBVIOUS
<1>1. TypeOK
  <2>1. results \in Seq(Callback) /\ Len(results) <= 1
    BY DEF Init
  <2> QED
    BY <2>1 DEF Init, TypeOK, Result
<1> QED
  BY <1>1, LoopbackAssumption
  DEF Init, IInv, FirstInv, GotInv, DecidedInv, HandlerInv, Truthful, Request

-----------------------------------------------------------------------------
(* Every step preserves the invariant *)

LEMMA DecideInv ==
    ASSUME IInv, NEW d \in {"approved", "denied"}, Decide(d)
    PROVE  IInv'
<1>1. /\ decision = None /\ decision' = d
      /\ UNCHANGED <<pc, got, result, listening, results, conn, asked, first>>
  BY DEF Decide, login
<1>3. TypeOK'
  BY <1>1 DEF IInv, TypeOK
<1>4. DecidedInv' /\ Truthful'
  BY <1>1, LoopbackAssumption DEF IInv, DecidedInv, Decided, Truthful
<1> QED
  BY <1>1, <1>3, <1>4 DEF IInv, FirstInv, GotInv, HandlerInv

LEMMA ConnectInv ==
    ASSUME IInv, NEW c \in Conn, NEW r \in Request, Connect(c, r)
    PROVE  IInv'
<1>1. /\ listening /\ conn[c] = "none" /\ (r \in Callback => Decided(r))
      /\ conn' = [conn EXCEPT ![c] = "open"] /\ asked' = [asked EXCEPT ![c] = r]
      /\ UNCHANGED <<pc, got, result, listening, results, decision, first>>
  BY DEF Connect, Decided, login
<1>2. TypeOK'
  BY <1>1 DEF IInv, TypeOK
<1>3. DecidedInv'
  <2>1. ASSUME NEW d \in Conn, asked'[d] \in Callback PROVE Decided(asked[d])'
    <3>1. CASE d = c
      <4>1. asked'[d] = r
        BY <1>1, <3>1 DEF IInv, TypeOK
      <4> QED
        BY <1>1, <2>1, <4>1 DEF Decided
    <3>2. CASE d # c
      <4>1. asked'[d] = asked[d]
        BY <1>1, <3>2 DEF IInv, TypeOK
      <4> QED
        BY <1>1, <2>1, <4>1 DEF IInv, DecidedInv, Decided
    <3> QED
      BY <3>1, <3>2
  <2> QED
    BY <1>1, <2>1 DEF IInv, DecidedInv, Decided
<1>4. HandlerInv'
  BY <1>1 DEF IInv, TypeOK, HandlerInv
<1> QED
  BY <1>1, <1>2, <1>3, <1>4 DEF IInv, FirstInv, GotInv, Truthful

(* A handler's step that does not touch the channel. *)
LEMMA HandlerStepInv ==
    ASSUME IInv, NEW c \in Conn, Receive(c) \/ Dropped(c) \/ Answer(c)
    PROVE  IInv'
<1>1. PICK s \in {"send", "answer", "closed"} :
         /\ conn' = [conn EXCEPT ![c] = s] /\ pc # "done"
         /\ s = "send" => asked[c] \in Callback
         /\ UNCHANGED <<pc, got, result, listening, results, asked, decision, first>>
  BY DEF Receive, Dropped, Answer, login
<1>2. TypeOK'
  BY <1>1 DEF IInv, TypeOK
<1>3. HandlerInv'
  BY <1>1 DEF IInv, TypeOK, HandlerInv
<1> QED
  BY <1>1, <1>2, <1>3 DEF IInv, FirstInv, GotInv, DecidedInv, Decided, Truthful

LEMMA SendInv ==
    ASSUME IInv, NEW c \in Conn, Send(c)
    PROVE  IInv'
<1>1. /\ conn[c] = "send" /\ pc # "done"
      /\ results' = IF results = <<>> THEN <<asked[c]>> ELSE results
      /\ first' = IF first = None THEN asked[c] ELSE first
      /\ conn' = [conn EXCEPT ![c] = "answer"]
      /\ UNCHANGED <<pc, got, result, listening, asked, decision>>
  BY DEF Send, Sent, login
<1>2. asked[c] \in Callback /\ asked[c] # None
  BY <1>1, LoopbackAssumption DEF IInv, HandlerInv
<1>3. TypeOK'
  <2>1. Channel(results)
    BY ChannelType DEF IInv, TypeOK
  <2>2. Channel(results')
    BY <1>1, <1>2, <2>1 DEF Channel
  <2>3. results' \in Seq(Callback) /\ Len(results') <= 1
    BY <2>2, ChannelType
  <2> QED
    BY <1>1, <1>2, <2>3 DEF IInv, TypeOK
<1>4. FirstInv'
  <2>1. first # None => <<first>> # <<>>
    OBVIOUS
  <2> QED
    BY <1>1, <1>2, <2>1 DEF IInv, FirstInv
<1>5. GotInv'
  BY <1>1, <1>2 DEF IInv, GotInv, TypeOK
<1>6. DecidedInv' /\ HandlerInv' /\ Truthful'
  BY <1>1, <1>2 DEF IInv, TypeOK, DecidedInv, Decided, HandlerInv, Truthful
<1> QED
  BY <1>3, <1>4, <1>5, <1>6 DEF IInv

LEMMA WaitInv == IInv /\ Wait => IInv'
BY DEF Wait, IInv, TypeOK, FirstInv, GotInv, DecidedInv, Decided, HandlerInv, Truthful

(* loopbackLogin returns with a result that is true. *)
LEMMA ReturnsInv ==
    ASSUME IInv, NEW r \in Result, Returns(r), pc \in {"wait", "exchange"},
           UNCHANGED <<conn, asked, decision, first>>,
           got' \in Callback \cup {None}, got' # None => got' = first',
           results' \in Seq(Callback), Len(results') <= 1,
           r = "tokens" => decision = "approved",
           r = "denied" => decision = "denied"
    PROVE  IInv'
<1>1. pc' = "close" /\ result' = r /\ listening' = FALSE
  BY DEF Returns
<1>2. TypeOK'
  BY <1>1 DEF IInv, TypeOK
<1> QED
  BY <1>1, <1>2
  DEF IInv, FirstInv, GotInv, DecidedInv, Decided, HandlerInv, Truthful

LEMMA TakeResultInv == IInv /\ TakeResult => IInv'
<1> SUFFICES ASSUME IInv, TakeResult PROVE IInv'
  OBVIOUS
<1>1. /\ pc = "wait" /\ results # <<>> /\ got' = Head(results) /\ results' = Tail(results)
      /\ UNCHANGED <<conn, asked, decision, first>>
  BY DEF TakeResult
<1>2. first # None /\ results = <<first>> /\ first \in Callback
  BY <1>1 DEF IInv, TypeOK, FirstInv
<1>3. got' = first /\ results' = <<>>
  BY <1>1, <1>2
<1>4. results' \in Seq(Callback) /\ Len(results') <= 1
  BY <1>3
<1>5. /\ first.own \in BOOLEAN /\ first.issuer \in BOOLEAN /\ first.answer \in Brought
      /\ Decided(first)
  BY <1>2, LoopbackAssumption DEF IInv, DecidedInv, Kind
<1>6. CASE Genuine(first) /\ first.answer = "code"
  <2>1. Judge(first) = "none"
    BY <1>6 DEF Judge, Genuine
  <2>2. pc' = "exchange" /\ UNCHANGED <<result, listening>>
    BY <1>3, <2>1 DEF TakeResult
  <2>3. TypeOK'
    BY <1>1, <1>2, <1>3, <1>4, <2>2 DEF IInv, TypeOK
  <2> QED
    BY <1>1, <1>2, <1>3, <1>6, <2>2, <2>3
    DEF IInv, FirstInv, GotInv, DecidedInv, Decided, HandlerInv, Truthful
<1>7. CASE ~(Genuine(first) /\ first.answer = "code")
  <2>1. /\ Judge(first) \in {"mismatch", "otherIssuer", "denied", "failed"}
        /\ Judge(first) = "denied" => Genuine(first) /\ first.answer = "denied"
    <3>1. CASE ~first.own
      <4>1. Judge(first) = "mismatch"
        BY <3>1 DEF Judge, Genuine
      <4> QED
        BY <4>1
    <3>2. CASE first.own /\ ~first.issuer
      <4>1. Judge(first) = "otherIssuer"
        BY <3>2 DEF Judge, Genuine
      <4> QED
        BY <4>1
    <3>3. CASE Genuine(first) /\ first.answer = "denied"
      <4>1. Judge(first) = "denied"
        BY <3>3 DEF Judge, Genuine
      <4> QED
        BY <3>3, <4>1
    <3>4. CASE Genuine(first) /\ first.answer \in {"error", "empty"}
      <4>1. Judge(first) = "failed"
        BY <3>4 DEF Judge, Genuine
      <4> QED
        BY <4>1
    <3> QED
      BY <1>5, <1>7, <3>1, <3>2, <3>3, <3>4 DEF Genuine, Brought
  <2>2. Returns(Judge(first))
    BY <1>3, <2>1 DEF TakeResult
  <2>3. Judge(first) = "denied" => decision = "denied"
    BY <1>5, <2>1 DEF Decided
  <2> QED
    BY <1>1, <1>2, <1>3, <1>4, <2>1, <2>2, <2>3, ReturnsInv DEF Result
<1> QED
  BY <1>6, <1>7

LEMMA StopWaitingInv ==
    ASSUME IInv, NEW r \in {"timeout", "interrupted", "stopped"}, StopWaiting(r)
    PROVE  IInv'
<1>1. pc = "wait" /\ Returns(r) /\ UNCHANGED <<got, results, conn, asked, decision, first>>
  BY DEF StopWaiting
<1>2. got \in Callback \cup {None} /\ (got # None => got = first)
        /\ results \in Seq(Callback) /\ Len(results) <= 1
  BY DEF IInv, TypeOK, GotInv
<1> QED
  BY <1>1, <1>2, ReturnsInv DEF Result

LEMMA ExchangeInv ==
    ASSUME IInv, NEW r \in {"tokens", "failed"}, ExchangeAuthorizationCode(r)
    PROVE  IInv'
<1>1. pc = "exchange" /\ Returns(r) /\ UNCHANGED <<got, results, conn, asked, decision, first>>
  BY DEF ExchangeAuthorizationCode
<1>2. got \in Callback \cup {None} /\ (got # None => got = first)
        /\ results \in Seq(Callback) /\ Len(results) <= 1
  BY DEF IInv, TypeOK, GotInv
<1>3. decision = "approved"
  <2>1. first \in Callback /\ Genuine(first) /\ first.answer = "code"
    BY <1>1, LoopbackAssumption DEF IInv, GotInv
  <2> QED
    BY <2>1 DEF IInv, DecidedInv, Decided
<1> QED
  BY <1>1, <1>2, <1>3, ReturnsInv DEF Result

LEMMA CloseInv == IInv /\ (Close \/ Exit) => IInv'
BY DEF Close, Exit, IInv, TypeOK, FirstInv, GotInv, DecidedInv, Decided, HandlerInv, Truthful

LEMMA NextInv == IInv /\ [Next]_vars => IInv'
<1> SUFFICES ASSUME IInv, [Next]_vars PROVE IInv'
  OBVIOUS
<1>1. CASE LoginStep
  BY <1>1, WaitInv, TakeResultInv, CloseInv, StopWaitingInv, ExchangeInv DEF LoginStep
<1>2. CASE UNCHANGED vars
  BY <1>2 DEF vars, login, IInv, TypeOK, FirstInv, GotInv, DecidedInv, Decided, HandlerInv,
              Truthful
<1> QED
  BY <1>1, <1>2, StopWaitingInv, HandlerStepInv, SendInv, ConnectInv, DecideInv
  DEF Next, HandlerStep

-----------------------------------------------------------------------------
(* The inductive invariant: the channel and the decision agree with what   *)
(* came first.                                                             *)
THEOREM InductiveInvariant == Spec => []IInv
<1> QED
  BY InitInv, NextInv, PTL DEF Spec

(* Types, for any number of connections. *)
THEOREM TypeCorrect == Spec => []TypeOK
<1>1. IInv => TypeOK
  BY DEF IInv
<1> QED
  BY <1>1, InductiveInvariant, PTL

(* The first callback decides, however many connections bring one. *)
THEOREM FirstDecidesHolds == Spec => []FirstDecides
<1>1. IInv => FirstDecides
  BY DEF IInv, FirstInv, GotInv, FirstDecides
<1> QED
  BY <1>1, InductiveInvariant, PTL

(* Tokens need an approval of this login, "denied" a denial of this login. *)
THEOREM TruthfulHolds == Spec => []Truthful
<1>1. IInv => Truthful
  BY DEF IInv
<1> QED
  BY <1>1, InductiveInvariant, PTL

(***************************************************************************)
(* DeviceLogin                                                             *)
(***************************************************************************)

(* What a poll owes the one before it. *)
Owed == IF answered THEN interval ELSE Least(interval, deviceMaxBackoff)

(* The wait the loop computed is never shorter than it owes. *)
BackoffInv ==
    phase # "done" =>
        /\ backoff >= Least(interval, deviceMaxBackoff)
        /\ answered => backoff = interval

(* A wait, as far as it has got, and what is left of it make up the backoff *)
(* since the last poll; it began before the deadline, so that the clock     *)
(* counts all of it.                                                        *)
DelayInv ==
    /\ phase = "wait" =>
        /\ left >= 1
        /\ sent # Never
        /\ clock + left >= sent + backoff
        /\ clock + left < deadline + MaxInterval
    /\ phase = "poll" /\ sent # Never => clock >= sent + backoff

(* Who has polled after the deadline does not poll again. *)
LateInv == late <= 1 /\ (late = 1 => phase = "done")

(* The next poll is not far from the last one; it is near every approval   *)
(* that a poll can still notice, and the login only expires when a poll or *)
(* its answer came too late.                                               *)
NoticeInv ==
    /\ backoff <= Greatest(interval, deviceMaxBackoff)
    /\ phase # "done" => outcome = "none"
    /\ sent # Never =>
          /\ phase = "poll" => clock <= sent + MaxRequest + backoff
          /\ phase = "wait" => clock + left <= sent + MaxRequest + backoff
    /\ outcome = "expired" => sent # Never /\ ExpiresIn <= sent + MaxRequest
    /\ code = "approved" => approved # Never
    /\ code = "approved" /\ ~missed =>
          /\ phase = "poll" => clock <= approved + MaxRequest + backoff
          /\ phase = "wait" => clock + left <= approved + MaxRequest + backoff
          /\ outcome = "expired" => sent <= approved + MaxRequest + backoff

DeviceInv == DeviceTypeOK /\ BackoffInv /\ DelayInv /\ LateInv /\ NoticeInv

-----------------------------------------------------------------------------
LEMMA Sums ==
    ASSUME NEW s \in Nat, NEW t \in Nat, NEW m \in Nat, NEW n \in Nat
    PROVE  /\ s <= t => s <= t + m + n
           /\ s <= t + m => s + n <= t + m + n
           /\ \A k \in Nat : s <= t /\ k <= s + m + n => k <= t + m + n
  BY SMT

LEMMA DeviceInitInv == DeviceInit => DeviceInv
  <1> SUFFICES ASSUME DeviceInit PROVE DeviceInv
    OBVIOUS
  <1>1. interval \in 1..MaxInterval
    <2>1. PICK n \in Announced : interval = FirstInterval(n)
      BY DEF DeviceInit
    <2>2. n \in 0..MaxInterval
      BY <2>1, DeviceAssumption
    <2> QED
      BY <2>1, <2>2, DeviceAssumption, SMT
         DEF FirstInterval, devicePollInterval, deviceMaxBackoff
  <1>2. clock \in 0..Horizon /\ deadline \in ExpiresIn..(ExpiresIn + Skew)
    <2>1. clock \in 0..Skew /\ deadline = clock + ExpiresIn
      BY DEF DeviceInit
    <2> QED
      BY <2>1, DeviceAssumption, SMT
  <1>3. DeviceTypeOK
    <2>1. /\ code = "pending" /\ phase = "poll" /\ backoff = interval /\ left = 0
          /\ outcome = "none" /\ sent = Never /\ answered = TRUE
          /\ approved = Never /\ missed = FALSE /\ late = 0
      BY DEF DeviceInit
    <2>2. 0 \in 0..MaxInterval /\ late \in 0..2
      BY <2>1, DeviceAssumption, SMT
    <2>3. answered \in BOOLEAN /\ missed \in BOOLEAN
      BY <2>1
    <2> QED
      BY <1>1, <1>2, <2>1, <2>2, <2>3 DEF DeviceTypeOK, Results
  <1>4. BackoffInv
    <2>1. backoff = interval /\ interval >= Least(interval, deviceMaxBackoff)
      BY <1>1, DeviceAssumption, SMT DEF DeviceInit, Least, deviceMaxBackoff
    <2> QED
      BY <2>1 DEF BackoffInv
  <1>5. DelayInv /\ LateInv
    BY DEF DeviceInit, DelayInv, LateInv
  <1>6. NoticeInv
    <2>1. backoff = interval /\ backoff <= Greatest(interval, deviceMaxBackoff)
      BY <1>1, DeviceAssumption, SMT DEF DeviceInit, Greatest, deviceMaxBackoff
    <2> QED
      BY <2>1 DEF DeviceInit, NoticeInv
  <1> QED
    BY <1>3, <1>4, <1>5, <1>6 DEF DeviceInv

(* What every poll leaves behind, whatever the answer. *)
LEMMA PollEffects ==
    ASSUME DeviceInv, NEW d \in 0..MaxRequest, Polls(d)
    PROVE  /\ clock' \in 0..Horizon /\ clock' >= clock
           /\ sent' = clock
           /\ late' \in 0..1
           /\ late' = 1 => clock' >= deadline
           /\ clock' <= clock + MaxRequest
           /\ phase = "poll" /\ sent' # Never
  <1>1. clock' \in 0..Horizon /\ clock' >= clock
    BY DeviceAssumption, SMT DEF DeviceInv, DeviceTypeOK, Polls, Later, Least
  <1>2. sent' = clock
    BY DEF Polls
  <1>3. late = 0 /\ late' \in 0..1 /\ (late' = 1 => clock >= deadline)
    BY SMT DEF DeviceInv, DeviceTypeOK, LateInv, Polls, Least
  <1>4. clock' <= clock + MaxRequest
    BY DeviceAssumption, SMT DEF DeviceInv, DeviceTypeOK, Polls, Later, Least
  <1>5. phase = "poll" /\ sent' # Never
    <2>1. clock \in Nat
      BY DeviceAssumption, SMT DEF DeviceInv, DeviceTypeOK
    <2> QED
      BY <1>2, <2>1, DeviceAssumption DEF Polls
  <1> QED
    BY <1>1, <1>2, <1>3, <1>4, <1>5, DeviceAssumption, SMT DEF DeviceInv, DeviceTypeOK

(* A poll whose answer ends the login. *)
LEMMA EndStep ==
    ASSUME DeviceInv, NEW d \in 0..MaxRequest, Polls(d), NEW r \in Results, Ends(r),
           code' \in {"pending", "approved", "denied", "redeemed"},
           answered' = TRUE, UNCHANGED <<approved, missed>>,
           code' = "approved" => code = "approved",
           r = "expired" => ExpiresIn <= clock + MaxRequest
    PROVE  DeviceInv'
  <1>1. DeviceTypeOK'
    BY PollEffects, DeviceAssumption, SMT DEF DeviceInv, DeviceTypeOK, Ends
  <1>2. phase' = "done"
    BY DEF Ends
  <1>3. BackoffInv' /\ DelayInv' /\ LateInv'
    BY <1>2, PollEffects, SMT DEF BackoffInv, DelayInv, LateInv
  <1>4. NoticeInv'
    <2>1. /\ phase = "poll" /\ sent' = clock /\ sent' # Never /\ outcome' = r
          /\ UNCHANGED <<interval, backoff>>
      BY PollEffects DEF Ends
    <2>2. /\ backoff <= Greatest(interval, deviceMaxBackoff)
          /\ code = "approved" => approved # Never
          /\ code = "approved" /\ ~missed => clock <= approved + MaxRequest + backoff
      BY <2>1 DEF DeviceInv, NoticeInv
    <2> QED
      BY <1>2, <2>1, <2>2 DEF NoticeInv
  <1> QED
    BY <1>1, <1>3, <1>4 DEF DeviceInv

(* A poll that leaves the login open: expired, or a wait w with interval i. *)
LEMMA WaitStep ==
    ASSUME DeviceInv, NEW d \in 0..MaxRequest, Polls(d),
           NEW i \in 1..MaxInterval, NEW w \in 1..MaxInterval, WaitsFor(i, w),
           w >= Least(i, deviceMaxBackoff), answered' => w = i,
           code' \in {"pending", "approved", "denied", "redeemed"},
           answered' \in BOOLEAN, missed' \in BOOLEAN, UNCHANGED approved,
           w <= Greatest(i, deviceMaxBackoff),
           code' = "approved" => code = "approved" /\ missed'
    PROVE  DeviceInv'
  <1>1. /\ interval' = i /\ backoff' = w /\ deadline' = deadline
        /\ left' = 0 \/ left' = w
        /\ phase' \in {"wait", "done"}
        /\ outcome' \in {"expired", outcome}
        /\ clock' >= deadline => phase' = "done"
        /\ phase' = "wait" => left' = w /\ clock' < deadline
    BY PollEffects, DeviceAssumption, SMT DEF WaitsFor, Expired, DeviceInv, DeviceTypeOK
  <1>2. DeviceTypeOK'
    BY <1>1, PollEffects, DeviceAssumption, SMT DEF DeviceInv, DeviceTypeOK, Results
  <1>3. BackoffInv'
    BY <1>1 DEF BackoffInv, Least, deviceMaxBackoff
  <1>4. DelayInv'
    <2>1. clock \in Nat /\ deadline \in Nat /\ Never # clock
      BY DeviceAssumption, SMT DEF DeviceInv, DeviceTypeOK
    <2> QED
      BY <1>1, <2>1, PollEffects, DeviceAssumption, SMT DEF DelayInv
  <1>5. LateInv'
    BY <1>1, PollEffects, SMT DEF LateInv
  <1>6. NoticeInv'
    <2>1. outcome = "none" /\ (code = "approved" => approved # Never)
      BY PollEffects DEF DeviceInv, NoticeInv
    <2>2. /\ clock \in Nat /\ clock' \in Nat /\ clock' <= clock + MaxRequest
          /\ sent' = clock /\ sent' # Never /\ deadline \in Nat /\ deadline >= ExpiresIn
      BY PollEffects, DeviceAssumption, SMT DEF DeviceInv, DeviceTypeOK
    <2>3. outcome' = "expired" => ExpiresIn <= sent' + MaxRequest
      <3>1. outcome' = "expired" => clock' >= deadline
        BY <2>1 DEF WaitsFor, Expired
      <3> QED
        BY <2>2, <3>1, DeviceAssumption, SMT
    <2>4. phase' = "wait" => clock' + left' <= sent' + MaxRequest + backoff'
      <3>1. w \in Nat /\ MaxRequest \in Nat
        BY DeviceAssumption, SMT
      <3>2. clock' + w <= clock + MaxRequest + w
        BY <2>2, <3>1, Sums
      <3> QED
        BY <1>1, <2>2, <3>2
    <2>5. phase' # "done" => outcome' = "none"
      BY <2>1 DEF WaitsFor
    <2>6. backoff' <= Greatest(interval', deviceMaxBackoff)
      BY <1>1
    <2> QED
      BY <1>1, <2>1, <2>2, <2>3, <2>4, <2>5, <2>6 DEF NoticeInv, Greatest, deviceMaxBackoff
  <1> QED
    BY <1>2, <1>3, <1>4, <1>5, <1>6 DEF DeviceInv

LEMMA PollPreserves ==
    ASSUME DeviceInv, NEW d \in 0..MaxRequest, NEW e \in 0..d,
           \/ Tokens(e, d) \/ Pending(e, d) \/ ToldToSlowDown(e, d)
           \/ Refused(e, d) \/ PollError(e, d) \/ PollLost(e, d)
    PROVE  DeviceInv'
  <1> USE DEF Answers, Answered
  <1>1. interval \in 1..MaxInterval /\ backoff \in 1..MaxInterval
    BY DEF DeviceInv, DeviceTypeOK
  <1>2. code \in {"pending", "approved", "denied", "redeemed"} /\ missed \in BOOLEAN
    BY DEF DeviceInv, DeviceTypeOK
  <1>3. /\ Reached(e) \subseteq {"pending", "approved", "denied", "redeemed"}
        /\ "approved" \in Reached(e) => code = "approved"
    BY <1>2 DEF Reached
  <1>4. \A i \in 1..MaxInterval : /\ i >= Least(i, deviceMaxBackoff)
                                 /\ i <= Greatest(i, deviceMaxBackoff)
    BY DeviceAssumption, SMT DEF Least, Greatest, deviceMaxBackoff
  <1>5. CASE Tokens(e, d)
    <2>1. "tokens" \in Results
      BY DEF Results
    <2> QED
      BY <1>5, <2>1, EndStep DEF Tokens
  <1>6. CASE Pending(e, d)
    <2>1. WaitsFor(interval, interval) /\ Polls(d)
      BY <1>6 DEF Pending, PendingKeeps
    <2>2. /\ answered' = TRUE /\ UNCHANGED <<approved, missed, code>>
          /\ code = "pending"
      BY <1>6 DEF Pending
    <2> QED
      BY <1>1, <1>2, <1>4, <2>1, <2>2, WaitStep
  <1>7. CASE ToldToSlowDown(e, d)
    <2> DEFINE n == interval + deviceSlowDownStep
    <2>1. n \in 1..MaxInterval
      BY <1>1, <1>7, DeviceAssumption, SMT DEF ToldToSlowDown, deviceSlowDownStep
    <2>2. WaitsFor(n, n) /\ Polls(d)
      BY <1>7 DEF ToldToSlowDown, SlowDown
    <2>3. /\ answered' = TRUE /\ UNCHANGED <<approved, code>>
          /\ missed' \in BOOLEAN /\ (code = "approved" => missed')
      BY <1>7, <1>2 DEF ToldToSlowDown
    <2> HIDE DEF n
    <2> QED
      BY <1>2, <1>4, <2>1, <2>2, <2>3, WaitStep
  <1>8. CASE Refused(e, d)
    <2>1. PICK r \in {"denied", "expired", "redeemed"} : Ends(r)
      BY <1>8 DEF Refused
    <2>2. r \in Results
      BY DEF Results
    <2>3. /\ Polls(d) /\ answered' = TRUE /\ UNCHANGED <<approved, missed, code>>
      BY <1>8 DEF Refused
    <2>4. r = "expired" => ExpiresIn <= clock + MaxRequest
      <3>1. r = "expired" => ~Valid(e)
        BY <1>8, <2>1 DEF Refused, Ends
      <3>2. clock \in Nat /\ e <= MaxRequest /\ e \in Nat
        BY DeviceAssumption, SMT DEF DeviceInv, DeviceTypeOK
      <3> QED
        BY <3>1, <3>2, DeviceAssumption, SMT DEF Valid
    <2> QED
      BY <1>2, <2>1, <2>2, <2>3, <2>4, EndStep
  <1>9. CASE PollError(e, d)
    <2>1. "error" \in Results
      BY DEF Results
    <2> QED
      BY <1>3, <1>9, <2>1, EndStep DEF PollError
  <1>10. CASE PollLost(e, d)
    <2>1. /\ Doubled \in 1..MaxInterval /\ Doubled >= Least(interval, deviceMaxBackoff)
          /\ Doubled <= Greatest(interval, deviceMaxBackoff)
      <3>1. phase = "poll"
        BY <1>10 DEF PollLost, Polls
      <3>2. backoff >= Least(interval, deviceMaxBackoff)
        BY <3>1 DEF DeviceInv, BackoffInv
      <3> QED
        BY <1>1, <3>2, DeviceAssumption, SMT DEF Doubled, Least, Greatest, deviceMaxBackoff
    <2>2. WaitsFor(interval, Doubled) /\ Polls(d)
      BY <1>10 DEF PollLost, BacksOff
    <2>3. /\ answered' = FALSE /\ code' \in Reached(e) /\ UNCHANGED approved
          /\ missed' \in BOOLEAN /\ (code = "approved" => missed')
      BY <1>10, <1>2 DEF PollLost
    <2> QED
      BY <1>1, <1>3, <2>1, <2>2, <2>3, WaitStep
  <1> QED
    BY <1>5, <1>6, <1>7, <1>8, <1>9, <1>10

LEMMA TickPreserves ==
    ASSUME DeviceInv, Tick
    PROVE  DeviceInv'
  <1>1. /\ phase = "wait" /\ left \in Nat /\ left >= 1 /\ left \in 0..MaxInterval
        /\ sent \in Nat /\ clock \in Nat /\ backoff \in Nat /\ deadline \in Nat
        /\ clock + left >= sent + backoff
        /\ clock + left < deadline + MaxInterval
        /\ deadline + MaxInterval <= Horizon
    BY DeviceAssumption, SMT DEF Tick, DeviceInv, DeviceTypeOK, DelayInv
  <1>2. clock' = clock + 1 /\ clock' \in 0..Horizon
    BY <1>1, DeviceAssumption, SMT DEF Tick, Later, Least
  <1>3. /\ left' = left - 1 /\ phase' \in {"poll", "wait"}
        /\ phase' = "wait" => left' >= 1
        /\ phase' = "poll" => left' = 0
        /\ UNCHANGED <<user, interval, backoff, deadline, outcome, sent, answered,
                       missed, late>>
    BY <1>1, SMT DEF Tick
  <1>4. DeviceTypeOK'
    BY <1>1, <1>2, <1>3, DeviceAssumption, SMT DEF DeviceInv, DeviceTypeOK, user
  <1>5. BackoffInv'
    BY <1>1, <1>3 DEF DeviceInv, BackoffInv, Least, deviceMaxBackoff
  <1>6. DelayInv'
    BY <1>1, <1>2, <1>3, DeviceAssumption, SMT DEF DelayInv
  <1>7. LateInv'
    BY <1>1, <1>3, SMT DEF DeviceInv, LateInv, DeviceTypeOK
  <1>8. NoticeInv'
    <2>1. UNCHANGED <<code, approved, interval, backoff, outcome, sent, missed>>
      BY <1>3 DEF user
    <2>2. /\ clock + left <= sent + MaxRequest + backoff /\ sent # Never
          /\ backoff <= Greatest(interval, deviceMaxBackoff)
          /\ outcome = "none" /\ (code = "approved" => approved # Never)
          /\ code = "approved" /\ ~missed => clock + left <= approved + MaxRequest + backoff
      BY <1>1, DeviceAssumption DEF DeviceInv, NoticeInv
    <2>3. code = "approved" => approved \in Nat
      BY <1>1, <2>2, DeviceAssumption, SMT DEF DeviceInv, DeviceTypeOK
    <2>4. phase' # "done"
      BY <1>3
    <2>5. /\ phase' = "poll" => clock' <= sent + MaxRequest + backoff
          /\ phase' = "wait" => clock' + left' <= sent + MaxRequest + backoff
      BY <1>1, <1>2, <1>3, <2>1, <2>2, DeviceAssumption, SMT
    <2>6. code = "approved" /\ ~missed =>
            /\ phase' = "poll" => clock' <= approved + MaxRequest + backoff
            /\ phase' = "wait" => clock' + left' <= approved + MaxRequest + backoff
      BY <1>1, <1>2, <1>3, <2>1, <2>2, <2>3, DeviceAssumption, SMT
    <2> QED
      BY <2>1, <2>2, <2>4, <2>5, <2>6 DEF NoticeInv
  <1> QED
    BY <1>4, <1>5, <1>6, <1>7, <1>8 DEF DeviceInv

LEMMA OthersPreserve ==
    ASSUME DeviceInv, Cancelled \/ Approve \/ Deny
    PROVE  DeviceInv'
  <1>1. CASE Cancelled
    <2>1. DeviceTypeOK' /\ BackoffInv' /\ DelayInv' /\ LateInv'
      BY <1>1, DeviceAssumption, SMT
         DEF Cancelled, Ends, Reached, DeviceInv, DeviceTypeOK, BackoffInv, DelayInv,
             LateInv, Results
    <2>2. NoticeInv'
      BY <1>1 DEF Cancelled, Ends, Reached, DeviceInv, NoticeInv
    <2> QED
      BY <2>1, <2>2 DEF DeviceInv
  <1>2. CASE Approve
    <2>1. /\ code' = "approved"
          /\ UNCHANGED <<clock, phase, interval, backoff, left, deadline, outcome, sent,
                         answered, missed, late>>
      BY <1>2 DEF Approve, cli
    <2>2. /\ approved' \in 0..Horizon /\ approved' # Never
          /\ IF sent = Never THEN approved' = clock ELSE sent <= approved'
      BY <1>2, DeviceAssumption, SMT DEF Approve, Since, DeviceInv, DeviceTypeOK
    <2>3. DeviceTypeOK' /\ BackoffInv' /\ DelayInv' /\ LateInv'
      BY <2>1, <2>2 DEF DeviceInv, DeviceTypeOK, BackoffInv, DelayInv, LateInv, Least
    <2>4. NoticeInv'
      <3>1. /\ clock \in Nat /\ approved' \in Nat /\ backoff \in Nat /\ left \in Nat
            /\ sent # Never => sent \in Nat
        BY <2>2, DeviceAssumption, SMT DEF DeviceInv, DeviceTypeOK
      <3>2. CASE sent = Never
        <4>1. phase # "wait" /\ outcome # "expired"
          BY <3>2 DEF DeviceInv, DelayInv, NoticeInv
        <4>2. clock <= approved' + MaxRequest + backoff
          BY <2>2, <3>1, <3>2, DeviceAssumption, SMT
        <4> QED
          BY <2>1, <2>2, <3>2, <4>1, <4>2 DEF DeviceInv, NoticeInv
      <3>3. CASE sent # Never
        <4>1. /\ sent <= approved' /\ sent \in Nat /\ clock \in Nat /\ approved' \in Nat
              /\ backoff \in Nat /\ left \in Nat /\ MaxRequest \in Nat
          BY <2>2, <3>1, <3>3, DeviceAssumption
        <4>2. sent <= approved' + MaxRequest + backoff
          BY <4>1, Sums
        <4>3. /\ phase = "poll" => clock <= sent + MaxRequest + backoff
              /\ phase = "wait" => clock + left <= sent + MaxRequest + backoff
          BY <3>3 DEF DeviceInv, NoticeInv
        <4>4. /\ phase = "poll" => clock <= approved' + MaxRequest + backoff
              /\ phase = "wait" => clock + left <= approved' + MaxRequest + backoff
          <5>1. clock + left \in Nat
            BY <4>1
          <5> QED
            BY <4>1, <4>3, <5>1, Sums
        <4> QED
          BY <2>1, <2>2, <3>3, <4>2, <4>4 DEF DeviceInv, NoticeInv
      <3> QED
        BY <3>2, <3>3
    <2> QED
      BY <2>3, <2>4 DEF DeviceInv
  <1>3. CASE Deny
    <2>1. DeviceTypeOK' /\ BackoffInv' /\ DelayInv' /\ LateInv'
      BY <1>3, DeviceAssumption, SMT
         DEF Deny, cli, DeviceInv, DeviceTypeOK, BackoffInv, DelayInv, LateInv, Least
    <2>2. NoticeInv'
      BY <1>3 DEF Deny, cli, DeviceInv, NoticeInv
    <2> QED
      BY <2>1, <2>2 DEF DeviceInv
  <1> QED
    BY <1>1, <1>2, <1>3

LEMMA NextPreserves ==
    ASSUME DeviceInv, [DeviceNext]_deviceVars
    PROVE  DeviceInv'
  <1>1. CASE PollStep
    BY <1>1, PollPreserves DEF PollStep
  <1>2. CASE UNCHANGED deviceVars
    BY <1>2 DEF deviceVars, user, cli, DeviceInv, DeviceTypeOK, BackoffInv, DelayInv, LateInv,
       NoticeInv, Least, Greatest, deviceMaxBackoff
  <1> QED
    BY <1>1, <1>2, TickPreserves, OthersPreserve DEF DeviceNext

-----------------------------------------------------------------------------
(* The wait computed, the wait so far and the deadline fit together. *)
THEOREM DeviceInductiveInvariant == DeviceSpec => []DeviceInv
  <1>1. DeviceInit => DeviceInv
    BY DeviceInitInv
  <1>2. DeviceInv /\ [DeviceNext]_deviceVars => DeviceInv'
    BY NextPreserves
  <1> QED
    BY <1>1, <1>2, PTL DEF DeviceSpec

(* Types: no wait is ever shorter than one unit or longer than the bound. *)
THEOREM DeviceTypeCorrect == DeviceSpec => []DeviceTypeOK
  <1>1. DeviceInv => DeviceTypeOK
    BY DEF DeviceInv
  <1> QED
    BY <1>1, DeviceInductiveInvariant, PTL

(* login.go:343-366: no poll comes earlier than the interval, or the cap of *)
(* the backoff after a lost one, allows.                                    *)
THEOREM PacedHolds == DeviceSpec => []Paced
  <1>1. DeviceInv => Paced
    <2> SUFFICES ASSUME DeviceInv, phase = "poll", sent # Never
                 PROVE  clock - sent >= Owed
      BY DEF Paced, Owed
    <2>1. sent \in Nat /\ clock \in Nat /\ backoff \in Nat /\ interval \in Nat
      BY DeviceAssumption, SMT DEF DeviceInv, DeviceTypeOK
    <2>2. clock >= sent + backoff
      BY DEF DeviceInv, DelayInv
    <2>3. backoff >= Owed /\ Owed \in Nat
      BY <2>1, SMT DEF DeviceInv, BackoffInv, Owed, Least, deviceMaxBackoff
    <2> QED
      BY <2>1, <2>2, <2>3, SMT
  <1> QED
    BY <1>1, DeviceInductiveInvariant, PTL

(* login.go:368: at most one poll is sent at or after the deadline. *)
THEOREM OneLatePollHolds == DeviceSpec => []OneLatePoll
  <1>1. DeviceInv => OneLatePoll
    BY DEF DeviceInv, LateInv, OneLatePoll
  <1> QED
    BY <1>1, DeviceInductiveInvariant, PTL

(* login.go:341-376: a login that expires although the user approved it,   *)
(* with no poll lost or put off since, was approved later than one wait    *)
(* and two requests before the code expired, whatever the server announces *)
(* and however long the backoff had become.                                *)
THEOREM ApprovalNoticedHolds == DeviceSpec => []ApprovalNoticed
  <1>1. DeviceInv => ApprovalNoticed
    <2> SUFFICES ASSUME DeviceInv, outcome = "expired", code = "approved", ~missed
                 PROVE  approved + Greatest(interval, deviceMaxBackoff) + 2 * MaxRequest
                           >= ExpiresIn
      BY DEF ApprovalNoticed
    <2>1. /\ ExpiresIn <= sent + MaxRequest /\ sent # Never /\ approved # Never
          /\ sent <= approved + MaxRequest + backoff
          /\ backoff <= Greatest(interval, deviceMaxBackoff)
      BY DEF DeviceInv, NoticeInv
    <2>2. /\ sent \in Nat /\ approved \in Nat /\ backoff \in Nat /\ interval \in Nat
          /\ Greatest(interval, deviceMaxBackoff) \in Nat
      BY <2>1, DeviceAssumption, SMT
         DEF DeviceInv, DeviceTypeOK, Greatest, deviceMaxBackoff
    <2> HIDE DEF Greatest
    <2> QED
      BY <2>1, <2>2, DeviceAssumption, SMT
  <1> QED
    BY <1>1, DeviceInductiveInvariant, PTL
=============================================================================
