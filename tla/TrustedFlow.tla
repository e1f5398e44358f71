---------------------------- MODULE TrustedFlow ----------------------------
(***************************************************************************)
(* The SGraph side of a scan (upstream_patches/sgraph): the hook signs a   *)
(* decrypted file, waits for the connector under a socket timeout of its   *)
(* own, and releases the file, holds it for review or stops, by the        *)
(* verdict.  The connector works under the timeouts of its attempts, and   *)
(* goes on when the caller has left.                                       *)
(*                                                                         *)
(* Time is kept by the two stopwatches of a scan, one on each side; a Tick *)
(* moves both and does not pass a deadline.  Gate, breaker and retry loop  *)
(* are the subject of Connector: here a handler is what it can do to its   *)
(* caller, and when.                                                       *)
(***************************************************************************)
EXTENDS Integers

CONSTANTS
    Scans,            \* the calls of run_connector_scan, each with a signature of its own
    CallerTimeout,    \* SGRAPH_CONNECTOR_TIMEOUT_SEC, in ticks
    OmegaTimeout,     \* OMEGA_TIMEOUT_MS, in ticks
    WaitsPerAttempt,  \* httpx applies it to connecting, writing and reading one after the other
    RetryCount,       \* OMEGA_RETRY_COUNT, clamped
    Overhead,         \* the most it takes from the caller's last byte to the first attempt
    FailMode          \* CONNECTOR_FAIL_MODE, as load_settings leaves it

Verdicts == {"allow", "quarantine", "block"}

ASSUME FlowConstants ==
    /\ CallerTimeout \in Nat \ {0}
    /\ OmegaTimeout \in Nat \ {0}
    /\ WaitsPerAttempt \in Nat \ {0}
    /\ RetryCount \in Nat
    /\ Overhead \in Nat
    /\ FailMode \in Verdicts

VARIABLES
    flow,      \* scan -> where the hook is, and how long its socket has waited
    handler,   \* scan -> where the connector's handler is, and how long this step of it has taken
    audit      \* scan -> {} or {the decision the connector has logged and sent}

vars == <<flow, handler, audit>>

AttemptLimit == WaitsPerAttempt * OmegaTimeout

\* The longest a handler may take, as the caller sees it.
Budget == Overhead + (RetryCount + 1) * AttemptLimit

Decisions ==
    [source : {"omega"}, verdict : Verdicts] \cup [source : {"connector_fallback"}, verdict : {FailMode}]

NotStarted == [pc |-> "idle", waited |-> 0]
NoHandler == [pc |-> "none", attempt |-> 0, spent |-> 0]

Waiting(s) == flow[s].pc = "waiting"
Replied(s) == handler[s].pc \in {"answered", "refused"}
End(s, how) == flow' = [flow EXCEPT ![s].pc = how]

-----------------------------------------------------------------------------
(* The hook and the client                                                  *)

\* The payload is built, signed and sent.
StartScan(s) ==
    /\ flow[s].pc = "idle"
    /\ End(s, "waiting")
    /\ handler' = [handler EXCEPT ![s].pc = "arriving"]
    /\ UNCHANGED audit

\* urlopen cannot connect: ConnectorClientError.
CannotConnect(s) ==
    /\ flow[s].pc = "idle"
    /\ End(s, "unreachable")
    /\ UNCHANGED <<handler, audit>>

\* Mutant: only a block is enforced.
EnforceLenient(verdict) == IF verdict = "block" THEN "stopped" ELSE "released"

\* enforce_connector_verdict: "allow", "quarantine", or RuntimeError.
Enforce(verdict) ==
    CASE verdict = "allow" -> "released"
      [] verdict = "block" -> "stopped"
      [] OTHER -> "review"

\* Mutant: an answer that comes late is enforced too.
ReceiveLate(s) ==
    /\ flow[s].pc # "idle"
    /\ handler[s].pc = "answered"
    /\ \E d \in audit[s] : End(s, Enforce(d.verdict))
    /\ UNCHANGED <<handler, audit>>

\* 200 with a JSON object: its verdict is enforced.
Receive(s) ==
    /\ Waiting(s)
    /\ handler[s].pc = "answered"
    /\ \E d \in audit[s] : End(s, Enforce(d.verdict))
    /\ UNCHANGED <<handler, audit>>

\* urllib.error.HTTPError becomes ConnectorClientError.
ReceiveError(s) ==
    /\ Waiting(s)
    /\ handler[s].pc = "refused"
    /\ End(s, "http_error")
    /\ UNCHANGED <<handler, audit>>

\* The connection breaks, or what comes is cut short: ConnectorClientError.
ConnectionFails(s) ==
    /\ Waiting(s)
    /\ End(s, "connection_lost")
    /\ UNCHANGED <<handler, audit>>

\* Mutant: urlopen is called without a timeout.
GiveUpNever(s) == FALSE /\ UNCHANGED vars

\* Mutant: the timeout is a tick short.
GiveUpEarly(s) ==
    /\ Waiting(s)
    /\ ~Replied(s)
    /\ flow[s].waited + 1 >= CallerTimeout
    /\ End(s, "timed_out")
    /\ UNCHANGED <<handler, audit>>

\* The socket has been silent for timeout_sec: ConnectorClientError.
GiveUp(s) ==
    /\ Waiting(s)
    /\ ~Replied(s)
    /\ flow[s].waited >= CallerTimeout
    /\ End(s, "timed_out")
    /\ UNCHANGED <<handler, audit>>

-----------------------------------------------------------------------------
(* The connector                                                            *)

\* The gate lets the request through: the first attempt.
Begin(s) ==
    /\ handler[s].pc = "arriving"
    /\ handler' = [handler EXCEPT ![s] = [pc |-> "working", attempt |-> 1, spent |-> 0]]
    /\ UNCHANGED <<flow, audit>>

\* The gate answers with an error.
Refuse(s) ==
    /\ handler[s].pc = "arriving"
    /\ handler' = [handler EXCEPT ![s].pc = "refused"]
    /\ UNCHANGED <<flow, audit>>

\* Mutant: one attempt more than range(retry_count + 1).
NextAttemptOneMore(s) ==
    /\ handler[s].pc = "working"
    /\ handler[s].attempt <= RetryCount + 1
    /\ handler' = [handler EXCEPT ![s] = [pc |-> "working", attempt |-> @.attempt + 1, spent |-> 0]]
    /\ UNCHANGED <<flow, audit>>

\* An attempt fails and the retry loop goes round.
NextAttempt(s) ==
    /\ handler[s].pc = "working"
    /\ handler[s].attempt <= RetryCount
    /\ handler' = [handler EXCEPT ![s] = [pc |-> "working", attempt |-> @.attempt + 1, spent |-> 0]]
    /\ UNCHANGED <<flow, audit>>

(* Omega answers, or the breaker, a 4xx, an unreadable answer or the end of *)
(* the loop leads to the fallback.  The decision is logged and sent,        *)
(* whether the caller is still there or not.                                *)
Decide(s, d) ==
    /\ handler[s].pc = "working"
    /\ handler' = [handler EXCEPT ![s].pc = "answered"]
    /\ audit' = [audit EXCEPT ![s] = {d}]
    /\ UNCHANGED flow

Busy(s) == handler[s].pc \in {"arriving", "working"}

\* The connector's process ends; its callers may hear of it (ConnectionFails) or not.
ConnectorDies ==
    /\ handler' = [s \in Scans |-> IF Busy(s) THEN [handler[s] EXCEPT !.pc = "gone"] ELSE handler[s]]
    /\ UNCHANGED <<flow, audit>>

-----------------------------------------------------------------------------
\* A deadline of scan s is here, or an answer lies in its socket.
Due(s) ==
    \/ Waiting(s) /\ (Replied(s) \/ flow[s].waited >= CallerTimeout)
    \/ handler[s].pc = "arriving" /\ handler[s].spent >= Overhead
    \/ handler[s].pc = "working" /\ handler[s].spent >= AttemptLimit

Tick ==
    /\ \A s \in Scans : ~Due(s)
    /\ flow' = [s \in Scans |-> IF Waiting(s) THEN [flow[s] EXCEPT !.waited = @ + 1] ELSE flow[s]]
    /\ handler' = [s \in Scans |-> IF Busy(s) THEN [handler[s] EXCEPT !.spent = @ + 1] ELSE handler[s]]
    /\ UNCHANGED audit

Init ==
    /\ flow = [s \in Scans |-> NotStarted]
    /\ handler = [s \in Scans |-> NoHandler]
    /\ audit = [s \in Scans |-> {}]

EndWait(s) == Receive(s) \/ ReceiveError(s) \/ GiveUp(s)
Arrive(s) == Begin(s) \/ Refuse(s)
EndAttempt(s) == NextAttempt(s) \/ \E d \in Decisions : Decide(s, d)
Step(s) == StartScan(s) \/ CannotConnect(s) \/ EndWait(s) \/ ConnectionFails(s) \/ Arrive(s) \/ EndAttempt(s)

Next == (\E s \in Scans : Step(s)) \/ ConnectorDies \/ Tick

Spec == Init /\ [][Next]_vars

(* Time passes and timers fire: that of the caller's socket, those of httpx *)
(* behind every attempt, and the event loop turns to a request that has     *)
(* arrived.  That the connector answers, lives or is reached is not assumed.*)
FairSpec ==
    /\ Spec
    /\ WF_vars(Tick)
    /\ \A s \in Scans : WF_vars(EndWait(s)) /\ WF_vars(Arrive(s)) /\ WF_vars(EndAttempt(s))

-----------------------------------------------------------------------------
(* Properties                                                               *)

Places == {"idle", "waiting", "released", "review", "stopped",
           "http_error", "connection_lost", "timed_out", "unreachable"}

HandlerStates == [pc : {"none", "arriving", "working", "answered", "refused", "gone"},
                  attempt : 0 .. (RetryCount + 1), spent : Nat]

(* The stopwatches run, and attempts stay within the retry loop.            *)
TypeOK ==
    /\ flow \in [Scans -> [pc : Places, waited : Nat]]
    /\ handler \in [Scans -> HandlerStates]
    /\ audit \in [Scans -> SUBSET Decisions]

(* A file is released only after the connector has logged an allow for this *)
(* very scan, and with a fail mode other than allow that one is Omega's: no *)
(* outage, timeout, refusal or late answer releases anything.               *)
ReleasedOnlyIfAllowed ==
    \A s \in Scans : flow[s].pc = "released" =>
        \E d \in audit[s] : d.verdict = "allow" /\ (FailMode # "allow" => d.source = "omega")

Ended(s) == ~Waiting(s) /\ flow[s].pc # "idle"
EndsKept == \A s \in Scans : Ended(s) => flow'[s] = flow[s]

(* What a hook has come to stays: one that gave up, lost its connection or  *)
(* was refused releases nothing when the decision is made after all, and no *)
(* later step takes a release, a review or a stop back.                     *)
EndedIsFinal == [][EndsKept]_vars

(* The caller times out on a connector that has died and on no other: as    *)
(* long as it lives, its decision, the fallback included, comes in time.    *)
NoTimeoutOnLiveConnector ==
    \A s \in Scans : flow[s].pc = "timed_out" => handler[s].pc = "gone"

(* A caller that waits longer than the longest handler hears its decision:  *)
(* timeout_sec must exceed the overhead and all attempts together.          *)
BudgetedCallerHears == CallerTimeout > Budget => NoTimeoutOnLiveConnector

(* Every hook that waits comes to an end, by the caller's own timeout if by *)
(* nothing else.                                                            *)
EveryScanEnds == \A s \in Scans : Waiting(s) ~> ~Waiting(s)

-----------------------------------------------------------------------------
(* The strengthenings the proofs use                                        *)

\* What the earlier attempts of scan s may have used up.
Used(s) == (handler[s].attempt - 1) * AttemptLimit

\* The caller's stopwatch is never ahead of what its handler has used up.
Accounted(s) ==
    /\ flow[s].pc = "idle" => handler[s].pc = "none" /\ handler[s].spent = 0 /\ flow[s].waited = 0
    /\ Waiting(s) => handler[s].pc # "none"
    /\ handler[s].pc = "arriving" =>
          /\ handler[s].spent <= Overhead
          /\ Waiting(s) => flow[s].waited <= handler[s].spent
    /\ handler[s].pc = "working" =>
          /\ handler[s].attempt >= 1
          /\ handler[s].spent <= AttemptLimit
          /\ Waiting(s) => flow[s].waited <= Overhead + Used(s) + handler[s].spent

WaitAccounted == \A s \in Scans : Accounted(s)

\* A scan that is released has been answered, so its audit line stays.
ReleasedAnswered ==
    \A s \in Scans : flow[s].pc = "released" =>
        /\ handler[s].pc = "answered"
        /\ \E d \in audit[s] : d.verdict = "allow"
=============================================================================
