----------------------------- MODULE Connector -----------------------------
(***************************************************************************)
(* The connector as a whole (connector/app.py): a request passes the gate, *)
(* Omega is called for it, and the answer, or the error, becomes the       *)
(* verdict sent to the caller.  The gate and the client of Omega are the   *)
(* modules AuthGate and OmegaClient, on one clock.                         *)
(*                                                                         *)
(* The handler of a request runs without an await from its first check to  *)
(* the POST, and from the end of the last attempt to its response: those   *)
(* are the joint steps below.  The time the gate takes between its two     *)
(* clock readings, and the clock set back, are left to the two modules.    *)
(***************************************************************************)
EXTENDS Integers, FiniteSets

CONSTANTS
    Requests, Texts, Strip, GeneratedId, ApiKeyItems, NonAscii, NoKey, ConnectorHmacSecret,
    NoSecret, HmacSettings, DebugDocumentScan, MaxClockSkewSec, NonceTtlSec, MaxEntries, TicksPerSec,
    Calls, OkBodies, OmegaRetryCount, OmegaBreakerFails, OmegaBreakerReset, OmegaChecksNonce,
    MaxNow,
    ConnectorFailMode,   \* CONNECTOR_FAIL_MODE, as load_settings leaves it
    VerdictText          \* str.strip().lower() on the verdicts Omega writes, as a function

VARIABLES now, require_hmac, entries, answer, admittedAt, replayed, forgotten,
          failure_count, opened_until_ts, calls, wire, replies, seen, scans, failed, lastFailedAt,
          request,       \* call -> {} or {the request it serves}
          response       \* call -> {} or {the ScanAttachmentResponse sent for it}

Gate == INSTANCE AuthGate WITH HandlingTicks <- 0, MaxSetBack <- 0, setBack <- 0
Omega == INSTANCE OmegaClient WITH MaxSetBack <- 0, setBack <- 0

gateState == <<require_hmac, entries, answer, admittedAt, replayed, forgotten>>
omegaState == <<failure_count, opened_until_ts, calls, wire, replies, seen, scans, failed, lastFailedAt>>
vars == <<now, gateState, omegaState, request, response>>

Verdicts == {"allow", "quarantine", "block"}

(* A JSON value Omega answers with, reduced to what the handler tells       *)
(* apart: whether _normalize_response can read it, its verdict as written,  *)
(* its risk_score and the identifiers it repeats ("" when absent).          *)
IsOkBody(b) ==
    /\ b.readable \in BOOLEAN
    /\ b.verdict \in DOMAIN VerdictText
    /\ b.risk \in Int
    /\ b.rid \in Texts
    /\ b.tenant \in Texts

ASSUME ConnectorConstants ==
    /\ Gate!GateConstants
    /\ Omega!OmegaConstants
    /\ ConnectorFailMode \in Verdicts
    /\ \A b \in OkBodies : IsOkBody(b)

-----------------------------------------------------------------------------
(* The response                                                             *)

\* Mutant: a verdict nobody knows passes.
NormalVerdictTrusting(v) == IF VerdictText[v] \in Verdicts THEN VerdictText[v] ELSE "allow"

NormalVerdict(v) == IF VerdictText[v] \in Verdicts THEN VerdictText[v] ELSE "quarantine"

Clamp(n) == IF n < 0 THEN 0 ELSE IF n > 100 THEN 100 ELSE n

OrElse(text, default) == IF text = "" THEN default ELSE text

Normalized(b, r) ==
    [source |-> "omega", verdict |-> NormalVerdict(b.verdict), risk |-> Clamp(b.risk),
     rid |-> OrElse(b.rid, Gate!RequestId(r)), tenant |-> OrElse(b.tenant, r.body.tenant),
     reason |-> "omega"]

FallbackRisk == [allow |-> 0, quarantine |-> 55, block |-> 95]

\* Mutant: a fallback is not told apart from Omega's own verdict.
FallbackUnmarked(reason, r) ==
    [source |-> "omega", verdict |-> ConnectorFailMode, risk |-> FallbackRisk[ConnectorFailMode],
     rid |-> Gate!RequestId(r), tenant |-> r.body.tenant, reason |-> reason]

Fallback(reason, r) ==
    [source |-> "connector_fallback", verdict |-> ConnectorFailMode, risk |-> FallbackRisk[ConnectorFailMode],
     rid |-> Gate!RequestId(r), tenant |-> r.body.tenant, reason |-> reason]

\* The except clauses around the call of Omega.
ReasonOf(kind) ==
    CASE kind = "timeout" -> "omega_timeout"
      [] kind = "rejected" -> "omega_rejected_4xx"
      [] kind \in {"circuit_open", "unavailable"} -> "omega_unavailable"
      [] OTHER -> "invalid_response"

Decision(outcome, r) ==
    IF outcome.kind = "ok" /\ outcome.body.readable THEN Normalized(outcome.body, r)
    ELSE Fallback(ReasonOf(outcome.kind), r)

(* When the call of Omega is over the handler answers in the same step.     *)
RespondIfDone(c) ==
    response' = IF calls'[c].pc = "done"
                THEN [response EXCEPT ![c] = {Decision(calls'[c].outcome, r) : r \in request'[c]}]
                ELSE response

-----------------------------------------------------------------------------
(* Actions                                                                  *)

\* The gate turns the request away: an error envelope, Omega is not called.
TurnAway(r) ==
    /\ Gate!Refuse(r) \/ Gate!RejectReplay(r)
    /\ UNCHANGED <<omegaState, request, response>>

\* Mutant: the error of the gate is built but not raised.
AdmitUnraised(r, c) ==
    /\ Gate!AdmitSigned(r) \/ Gate!AdmitUnsigned(r) \/ Gate!Refuse(r)
    /\ request' = [request EXCEPT ![c] = {r}]
    /\ Omega!Start(c)
    /\ RespondIfDone(c)

\* The request is admitted and its handler calls Omega, or finds it cannot.
Admit(r, c) ==
    /\ Gate!AdmitSigned(r) \/ Gate!AdmitUnsigned(r)
    /\ request' = [request EXCEPT ![c] = {r}]
    /\ Omega!Start(c)
    /\ RespondIfDone(c)

\* An attempt of call c ends, and with the last one the handler.
EndAttempt(c) ==
    /\ Omega!Receive(c) \/ Omega!FailAttempt(c)
    /\ UNCHANGED <<gateState, request>>
    /\ RespondIfDone(c)

OmegaWorks ==
    /\ Omega!External
    /\ UNCHANGED <<gateState, request, response>>

\* The process is replaced: cache, breaker and handlers are lost together.
Restart ==
    /\ Gate!Restart
    /\ Omega!Restart
    /\ UNCHANGED <<request, response>>

Tick ==
    /\ Gate!Tick
    /\ Omega!Tick
    /\ UNCHANGED <<request, response>>

Init ==
    /\ Gate!Init
    /\ Omega!Init
    /\ request = [c \in Calls |-> {}]
    /\ response = [c \in Calls |-> {}]

Next ==
    \/ \E r \in Requests : TurnAway(r)
    \/ \E r \in Requests, c \in Calls : Admit(r, c)
    \/ \E c \in Calls : EndAttempt(c)
    \/ OmegaWorks
    \/ Restart
    \/ Tick

Spec == Init /\ [][Next]_vars

(* httpx gives every attempt a timeout, so no attempt waits for ever: the   *)
(* wait ends with an answer or with an exception.  Nothing is assumed of    *)
(* Omega, of the arrival of requests or of the clock.                       *)
FairSpec == Spec /\ \A c \in Calls : WF_vars(EndAttempt(c))

-----------------------------------------------------------------------------
(* Properties                                                               *)

(* "allow" is never the connector's own idea: it was configured as the fail *)
(* mode, or Omega scanned this very request and said so, in an answer the   *)
(* connector could read, and the response says which of the two it was.     *)
FailClosed ==
    \A c \in Calls : \A p \in response[c] : p.verdict = "allow" =>
        IF p.source = "connector_fallback" THEN ConnectorFailMode = "allow"
        ELSE /\ scans[c] >= 1
             /\ calls[c].outcome.body.readable
             /\ VerdictText[calls[c].outcome.body.verdict] = "allow"

(* Admission and scanning are both at-most-once, and so is their            *)
(* composition: with signatures required on both sides and a retention that *)
(* covers the window, Omega scans a request once, however often the caller  *)
(* repeats it and the connector retries, unless the cache lost its key.     *)
ScannedAtMostOnce ==
    HmacSettings = {TRUE} /\ OmegaChecksNonce /\ Gate!RetentionCoversWindow =>
        \A r \in Requests : Gate!ReplayKey(r) \notin forgotten =>
            /\ Cardinality({c \in Calls : request[c] = {r} /\ scans[c] > 0}) <= 1
            /\ \A c \in Calls : request[c] = {r} => scans[c] <= 1

(* The settings cannot switch the breaker off, in the connector as a whole. *)
BreakerHoldsWhateverIsSet == Omega!BreakerHoldsWhateverIsSet

(* Omega works for nobody the gate has not admitted: whatever is on the     *)
(* wire or scanned serves an admitted request, and a refused request leaves *)
(* no call behind.                                                          *)
OnlyAdmittedReachOmega ==
    /\ \A a \in wire : \E r \in DOMAIN admittedAt : request[a[1]] = {r}
    /\ \A c \in Calls : scans[c] > 0 => \E r \in DOMAIN admittedAt : request[c] = {r}

(* What the connector promises its callers, as a specification of its own.  *)
Contract == INSTANCE ScanContract WITH
    Jobs <- Calls,
    FailMode <- ConnectorFailMode,
    owner <- request,
    scanned <- {c \in Calls : scans[c] > 0},
    reply <- [c \in Calls |-> {[source |-> p.source, verdict |-> p.verdict] : p \in response[c]}],
    lost <- {c \in Calls : calls[c].pc = "dropped"}

(* Gate, client and handler together implement that contract: a request has *)
(* one job for life, a verdict attributed to Omega follows a scan of that   *)
(* job, any other is the fail mode, and an answer once given is final.      *)
KeepsContract == Contract!Spec

(* Every admitted request is answered, unless the process dies first.       *)
EveryAdmittedAnswered ==
    \A c \in Calls : request[c] # {} ~> (response[c] # {} \/ calls[c].pc = "dropped")
=============================================================================
