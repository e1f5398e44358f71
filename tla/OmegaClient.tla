---------------------------- MODULE OmegaClient ----------------------------
(***************************************************************************)
(* The outbound half of the connector (connector/omega_client.py): the     *)
(* circuit breaker and the retry loop of OmegaClient.scan_attachment, run  *)
(* by any number of requests at once on one event loop, against an Omega   *)
(* that may be slow, lose a request or its answer, or refuse a repetition. *)
(*                                                                         *)
(* The only await of the loop is the POST.  What the code does from the    *)
(* end of one POST to the start of the next, or to its return, is one      *)
(* action; between two of them any other call may run.                     *)
(***************************************************************************)
EXTENDS Integers, FiniteSets

CONSTANTS
    Calls,              \* the calls of scan_attachment
    OkBodies,           \* the JSON values of a 2xx answer
    OmegaRetryCount,    \* OMEGA_RETRY_COUNT
    OmegaBreakerFails,  \* OMEGA_CIRCUIT_BREAKER_FAILS
    OmegaBreakerReset,  \* OMEGA_CIRCUIT_BREAKER_RESET_SEC, in ticks
    OmegaChecksNonce,   \* OMEGA_REQUIRE_HMAC is on and Omega refuses a nonce it has processed
    MaxSetBack,         \* bound: the ticks by which the clock is ever set back, in total
    MaxNow              \* bound: the clock stops here

ASSUME OmegaConstants ==
    /\ IsFiniteSet(Calls)
    /\ OmegaRetryCount \in Int
    /\ OmegaBreakerFails \in Int
    /\ OmegaBreakerReset \in Int
    /\ OmegaChecksNonce \in BOOLEAN
    /\ MaxSetBack \in Nat
    /\ MaxNow \in Nat

VARIABLES
    now,              \* time.time()
    setBack,          \* history: the ticks by which the clock was set back so far
    failure_count,    \* CircuitState.failure_count
    opened_until_ts,  \* CircuitState.opened_until_ts
    calls,            \* call -> where its coroutine is
    wire,             \* the attempts Omega can still receive
    replies,          \* the 2xx and 4xx answers on their way to a waiting attempt
    seen,             \* Omega: the nonces it has processed
    scans,            \* history: call -> how often Omega scanned its document
    failed,           \* history: the calls that ran out of attempts since the last success
    lastFailedAt      \* history: when the last of them did, 0 if there is none

clock == <<now, setBack>>
breaker == <<failure_count, opened_until_ts, failed, lastFailedAt>>
network == <<wire, replies, seen, scans>>
omegaVars == <<clock, breaker, calls, network>>

-----------------------------------------------------------------------------
(* The constructor's clamps                                                 *)

AtLeast(low, n) == IF n < low THEN low ELSE n

RetryCount == AtLeast(0, OmegaRetryCount)
BreakerFails == AtLeast(1, OmegaBreakerFails)

\* Mutant: no max(1, ...) around OMEGA_CIRCUIT_BREAKER_RESET_SEC.
BreakerResetUnclamped == OmegaBreakerReset

BreakerReset == AtLeast(1, OmegaBreakerReset)

-----------------------------------------------------------------------------
(* The circuit breaker                                                      *)

\* Mutant: a call may start while the breaker is open.
CanAttemptOneEarly == opened_until_ts <= now + 1

CanAttempt == opened_until_ts <= now

\* Mutant: opening the breaker starts a new count.
RecordFailureResetting(c) ==
    /\ failure_count' = IF failure_count + 1 >= BreakerFails THEN 0 ELSE failure_count + 1
    /\ opened_until_ts' = IF failure_count + 1 >= BreakerFails THEN now + BreakerReset ELSE opened_until_ts
    /\ failed' = failed \cup {c}
    /\ lastFailedAt' = now

\* Mutant: a failure prolongs an open period that has not ended.
RecordFailureProlonging(c) ==
    /\ failure_count' = failure_count + 1
    /\ opened_until_ts' = IF failure_count' < BreakerFails THEN opened_until_ts
                          ELSE AtLeast(now, opened_until_ts) + BreakerReset
    /\ failed' = failed \cup {c}
    /\ lastFailedAt' = now

RecordFailure(c) ==
    /\ failure_count' = failure_count + 1
    /\ opened_until_ts' = IF failure_count' >= BreakerFails THEN now + BreakerReset ELSE opened_until_ts
    /\ failed' = failed \cup {c}
    /\ lastFailedAt' = now

RecordSuccess ==
    /\ failure_count' = 0
    /\ opened_until_ts' = 0
    /\ failed' = {}
    /\ lastFailedAt' = 0

-----------------------------------------------------------------------------
(* One call                                                                 *)

\* What scan_attachment raises, as the except clauses of its caller tell it apart.
AttemptErrors == {"timeout", "unavailable", "client_error"}
Nothing == [kind |-> "none"]
Raised(e) == [kind |-> e]
Returned(b) == [kind |-> "ok", body |-> b]

Idle == [pc |-> "idle", attempt |-> 0, startedAt |-> 0, outcome |-> Nothing]
Waiting(c) == calls[c].pc = "waiting"
Ended(c, pc, o) == [pc |-> pc, attempt |-> calls[c].attempt, startedAt |-> 0, outcome |-> o]
Finish(c, o) == calls' = [calls EXCEPT ![c] = Ended(c, "done", o)]

Attempt(c) == <<c, calls[c].attempt>>

\* Mutant: the headers are built inside the retry loop, with a nonce per attempt.
NoncePerAttempt(a) == a

\* The headers, the nonce among them, are built once, before the retry loop.
Nonce(a) == a[1]

\* Mutant: the request is posted before the breaker is asked.
StartRefusedPosting(c) ==
    /\ calls[c].pc = "idle"
    /\ ~CanAttempt
    /\ Finish(c, Raised("circuit_open"))
    /\ wire' = wire \cup {<<c, 1>>}
    /\ UNCHANGED <<clock, breaker, replies, seen, scans>>

\* _can_attempt is False: OmegaCircuitOpen, nothing is sent.
StartRefused(c) ==
    /\ calls[c].pc = "idle"
    /\ ~CanAttempt
    /\ Finish(c, Raised("circuit_open"))
    /\ UNCHANGED <<clock, breaker, network>>

\* The body cannot be encoded (metadata holds what JSON cannot): raised before the loop, not counted.
StartRaises(c) ==
    /\ calls[c].pc = "idle"
    /\ CanAttempt
    /\ Finish(c, Raised("client_error"))
    /\ UNCHANGED <<clock, breaker, network>>

\* Up to the await of the first POST.
StartCall(c) ==
    /\ calls[c].pc = "idle"
    /\ CanAttempt
    /\ calls' = [calls EXCEPT ![c] = [pc |-> "waiting", attempt |-> 1, startedAt |-> now,
                                      outcome |-> Nothing]]
    /\ wire' = wire \cup {<<c, 1>>}
    /\ UNCHANGED <<clock, breaker, replies, seen, scans>>

Answered(c, answer) == [attempt |-> Attempt(c), answer |-> answer] \in replies

\* `async with httpx.AsyncClient` ends: what still arrives on its connection is lost.
CloseConnection(c) == replies' = {m \in replies : m.attempt # Attempt(c)}

\* 2xx with a JSON body: the breaker closes, whatever happened since c began.
ReceiveOk(c) ==
    /\ Waiting(c)
    /\ \E b \in OkBodies : Answered(c, Returned(b)) /\ Finish(c, Returned(b))
    /\ CloseConnection(c)
    /\ RecordSuccess
    /\ UNCHANGED <<clock, wire, seen, scans>>

\* Mutant: a 4xx counts as a failure of Omega.
ReceiveRejectedCounting(c) ==
    /\ Waiting(c)
    /\ Answered(c, Raised("rejected"))
    /\ Finish(c, Raised("rejected"))
    /\ CloseConnection(c)
    /\ failure_count' = failure_count + 1
    /\ opened_until_ts' = IF failure_count' >= BreakerFails THEN now + BreakerReset ELSE opened_until_ts
    /\ UNCHANGED <<clock, failed, lastFailedAt, wire, seen, scans>>

\* 4xx: raised at once, neither retried nor counted.
ReceiveRejected(c) ==
    /\ Waiting(c)
    /\ Answered(c, Raised("rejected"))
    /\ Finish(c, Raised("rejected"))
    /\ CloseConnection(c)
    /\ UNCHANGED <<clock, breaker, wire, seen, scans>>

(* An attempt fails with error e at any moment: httpx times out, cannot     *)
(* connect or loses the connection, or the answer is a 5xx ("unavailable")  *)
(* or not JSON ("client_error").  Omega may have received it or not.        *)

\* Mutant: range(retry_count + 2), one attempt too many.
LastAttemptOneMore(c) == calls[c].attempt = RetryCount + 2

LastAttempt(c) == calls[c].attempt = RetryCount + 1

\* Mutant: the loop does not count its rounds.
RetryAttemptForever(c, e) ==
    /\ Waiting(c)
    /\ ~LastAttempt(c)
    /\ wire' = wire \cup {Attempt(c)}
    /\ CloseConnection(c)
    /\ UNCHANGED <<clock, breaker, calls, seen, scans>>

\* The next round of the retry loop: the same headers are posted again.
RetryAttempt(c, e) ==
    /\ Waiting(c)
    /\ ~LastAttempt(c)
    /\ calls' = [calls EXCEPT ![c].attempt = @ + 1]
    /\ wire' = wire \cup {<<c, calls[c].attempt + 1>>}
    /\ CloseConnection(c)
    /\ UNCHANGED <<clock, breaker, seen, scans>>

\* The loop is over: one failure is counted and the last error raised.
ExhaustAttempts(c, e) ==
    /\ Waiting(c)
    /\ LastAttempt(c)
    /\ RecordFailure(c)
    /\ Finish(c, Raised(e))
    /\ CloseConnection(c)
    /\ UNCHANGED <<clock, wire, seen, scans>>

-----------------------------------------------------------------------------
(* Omega and the network, outside this repository                           *)

Deliver(a, answer) ==
    replies' = IF Waiting(a[1]) /\ Attempt(a[1]) = a
               THEN replies \cup {[attempt |-> a, answer |-> answer]} ELSE replies

\* Omega scans the document; its answer may be a 5xx, unreadable or lost (no reply).
OmegaScans(a) ==
    /\ a \in wire
    /\ OmegaChecksNonce => Nonce(a) \notin seen
    /\ wire' = wire \ {a}
    /\ seen' = seen \cup {Nonce(a)}
    /\ scans' = [scans EXCEPT ![a[1]] = @ + 1]
    /\ (\E b \in OkBodies : Deliver(a, Returned(b))) \/ UNCHANGED replies
    /\ UNCHANGED <<clock, breaker, calls>>

\* Omega refuses with a 4xx, for the payload, the signature or a nonce it knows.
OmegaRejects(a) ==
    /\ a \in wire
    /\ wire' = wire \ {a}
    /\ Deliver(a, Raised("rejected"))
    /\ UNCHANGED <<clock, breaker, calls, seen, scans>>

-----------------------------------------------------------------------------
\* The process ends: the coroutines are gone, a new OmegaClient has a fresh CircuitState.
Restart ==
    /\ calls' = [c \in Calls |-> IF Waiting(c) THEN Ended(c, "dropped", Nothing) ELSE calls[c]]
    /\ failure_count' = 0
    /\ opened_until_ts' = 0
    /\ failed' = {}
    /\ lastFailedAt' = 0
    /\ replies' = {}
    /\ UNCHANGED <<clock, wire, seen, scans>>

Tick ==
    /\ now < MaxNow
    /\ now' = now + 1
    /\ UNCHANGED <<setBack, breaker, calls, network>>

\* An adjustment of the host's clock: time.time() is not monotonic.
SetBack ==
    /\ \E d \in 1 .. (MaxSetBack - setBack) :
        /\ d <= now
        /\ now' = now - d
        /\ setBack' = setBack + d
    /\ UNCHANGED <<breaker, calls, network>>

Init ==
    /\ now = 0
    /\ setBack = 0
    /\ failure_count = 0
    /\ opened_until_ts = 0
    /\ calls = [c \in Calls |-> Idle]
    /\ wire = {}
    /\ replies = {}
    /\ seen = {}
    /\ scans = [c \in Calls |-> 0]
    /\ failed = {}
    /\ lastFailedAt = 0

Receive(c) == ReceiveOk(c) \/ ReceiveRejected(c)
FailAttempt(c) == \E e \in AttemptErrors : RetryAttempt(c, e) \/ ExhaustAttempts(c, e)
Start(c) == StartRefused(c) \/ StartRaises(c) \/ StartCall(c)
Call(c) == Start(c) \/ Receive(c) \/ FailAttempt(c)
External == \E a \in wire : OmegaScans(a) \/ OmegaRejects(a)

Next == (\E c \in Calls : Call(c)) \/ External \/ Restart \/ Tick \/ SetBack

Spec == Init /\ [][Next]_omegaVars

-----------------------------------------------------------------------------
(* Properties                                                               *)

Attempts == 1 .. (RetryCount + 1)

Answers == {Raised("rejected")} \cup {Returned(b) : b \in OkBodies}

Outcomes == {Nothing, Raised("circuit_open")} \cup {Raised(e) : e \in AttemptErrors} \cup Answers

CallStates == [pc : {"idle", "waiting", "done", "dropped"}, attempt : {0} \cup Attempts,
               startedAt : Nat, outcome : Outcomes]

(* The clock and the counters stay in range, and only attempts the retry    *)
(* loop can make are on the wire or answered.                               *)
TypeOK ==
    /\ now \in 0 .. MaxNow
    /\ setBack \in 0 .. MaxSetBack
    /\ failure_count \in Nat
    /\ opened_until_ts \in Nat
    /\ calls \in [Calls -> CallStates]
    /\ \A c \in Calls : Waiting(c) => calls[c].attempt \in Attempts
    /\ wire \subseteq Calls \X Attempts
    /\ replies \subseteq [attempt : Calls \X Attempts, answer : Answers]
    /\ scans \in [Calls -> Nat]
    /\ failed \subseteq Calls
    /\ lastFailedAt \in Nat

(* The breaker is a function of what happened to the calls: it is open      *)
(* until BREAKER_RESET after the last failed call once BREAKER_FAILS calls  *)
(* have run out of attempts with no success between them, and closed        *)
(* otherwise.  A failed call counts once, a 4xx never; the end of the open  *)
(* period forgets nothing, a late success everything.                       *)
BreakerFollowsCalls ==
    /\ failure_count = Cardinality(failed)
    /\ opened_until_ts = IF Cardinality(failed) >= BreakerFails THEN lastFailedAt + BreakerReset ELSE 0

(* The settings cannot switch the breaker off: whatever numbers are given,  *)
(* zero and negative ones included, once OMEGA_CIRCUIT_BREAKER_FAILS calls  *)
(* (one, at least) have run out of attempts with no success between them,   *)
(* nobody gets in at the moment of the last failure.                        *)
BreakerHoldsWhateverIsSet ==
    failed # {} /\ Cardinality(failed) >= OmegaBreakerFails /\ now <= lastFailedAt => ~CanAttempt

(* No call at work began in the open period: by the clock, it began before  *)
(* the breaker last opened, give or take the set-back, or when the period   *)
(* was over.  The check at the start of a call is enough to keep new ones   *)
(* out, although the retries of old ones go on without looking at it.       *)
NoCallSlipsIn ==
    \A c \in Calls : Waiting(c) =>
        \/ calls[c].startedAt <= opened_until_ts - BreakerReset + setBack
        \/ opened_until_ts <= calls[c].startedAt

(* The breaker keeps callers out for BREAKER_RESET from any moment at most, *)
(* however many calls fail while it is open, and longer only by as much as  *)
(* the clock was set back.                                                  *)
OpenPeriodBounded == opened_until_ts <= now + setBack + BreakerReset

(* With an Omega that refuses a known nonce, no document is scanned twice,  *)
(* whatever is retried, lost or late: the attempts of a call share one      *)
(* nonce.                                                                   *)
AtMostOneScan == OmegaChecksNonce => \A c \in Calls : scans[c] <= 1

(* A verdict is Omega's own: a call that returns a body was scanned, and    *)
(* one refused by the breaker never reached Omega.                          *)
OutcomeTellsScan ==
    \A c \in Calls : /\ calls[c].outcome.kind = "ok" => scans[c] >= 1
                     /\ calls[c].outcome.kind = "circuit_open" => scans[c] = 0

-----------------------------------------------------------------------------
(* The strengthenings the proofs use                                        *)

\* What counted as a failed call is over.
FailedAreDone == \A c \in failed : calls[c].pc = "done"

\* Nothing happened in the future, but for the set-back of the clock; and NoCallSlipsIn.
StartedBeforeOpening ==
    /\ \A c \in Calls : Waiting(c) => calls[c].startedAt <= now + setBack
    /\ lastFailedAt <= now + setBack
    /\ NoCallSlipsIn

\* A nonce Omega has not seen was never scanned.
UnseenUnscanned ==
    OmegaChecksNonce => \A c \in Calls : scans[c] <= 1 /\ (c \notin seen => scans[c] = 0)

(* Where scans come from: a call that made no attempt has nothing on the    *)
(* wire and no scan, and a verdict on its way back follows one.             *)
ScanTrail ==
    /\ \A c \in Calls : calls[c].pc = "idle" => calls[c].attempt = 0 /\ calls[c].outcome = Nothing
    /\ \A c \in Calls : calls[c].outcome.kind = "circuit_open" => calls[c].attempt = 0
    /\ \A c \in Calls : calls[c].attempt = 0 => scans[c] = 0
    /\ \A a \in wire : calls[a[1]].attempt # 0
    /\ \A m \in replies : m.answer.kind = "ok" => scans[m.attempt[1]] >= 1
    /\ OutcomeTellsScan
=============================================================================
