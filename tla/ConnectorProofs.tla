--------------------------- MODULE ConnectorProofs ---------------------------
(***************************************************************************)
(* Theorems about the connector as a whole.  They are built on those about *)
(* its parts: every step of the connector is a step of the gate and a step *)
(* of the client of Omega, or leaves that part alone, so what is proved of *)
(* AuthGate and of OmegaClient holds of both inside the connector.  The    *)
(* invariant Served ties a call to the request it serves.                  *)
(***************************************************************************)
EXTENDS Connector, FiniteSetTheorems, TLAPS

OmegaFacts == INSTANCE OmegaClientProofs WITH MaxSetBack <- 0, setBack <- 0
GateFacts == INSTANCE AuthGateProofs WITH HandlingTicks <- 0, MaxSetBack <- 0, setBack <- 0

-----------------------------------------------------------------------------
(* The theorems about the parts speak of the parts of the connector: the    *)
(* same formulas, reached through two instances of one module.              *)

(* The client's assumptions on the settings are the connector's.            *)
LEMMA OmegaAssumptions == OmegaFacts!OmegaConstants
  BY ConnectorConstants
  DEF Omega!OmegaConstants, OmegaFacts!OmegaConstants, Omega!IsFiniteSet, OmegaFacts!IsFiniteSet

(* The gate's assumptions on the settings are the connector's.              *)
LEMMA GateAssumptions == GateFacts!GateConstants
  BY ConnectorConstants
  DEF Gate!GateConstants, GateFacts!GateConstants, Gate!IsRequest, GateFacts!IsRequest,
      Gate!Bodies, GateFacts!Bodies, Gate!HeaderShapes, GateFacts!HeaderShapes

(* One specification of the client.                                         *)
LEMMA SameOmega ==
    /\ Omega!Init => OmegaFacts!Init
    /\ [Omega!Next]_(Omega!omegaVars) => [OmegaFacts!Next]_(OmegaFacts!omegaVars)
  BY Zenon
  DEF
      Omega!clock, OmegaFacts!clock, Omega!SetBack, OmegaFacts!SetBack, Omega!Ended, OmegaFacts!Ended,
      Omega!breaker, OmegaFacts!breaker, Omega!network, OmegaFacts!network, Omega!omegaVars,
      OmegaFacts!omegaVars, Omega!AtLeast, OmegaFacts!AtLeast, Omega!RetryCount, OmegaFacts!RetryCount,
      Omega!BreakerFails, OmegaFacts!BreakerFails, Omega!BreakerReset, OmegaFacts!BreakerReset,
      Omega!CanAttempt, OmegaFacts!CanAttempt, Omega!RecordFailure, OmegaFacts!RecordFailure,
      Omega!RecordSuccess, OmegaFacts!RecordSuccess, Omega!AttemptErrors, OmegaFacts!AttemptErrors,
      Omega!Nothing, OmegaFacts!Nothing, Omega!Raised, OmegaFacts!Raised, Omega!Returned,
      OmegaFacts!Returned, Omega!Idle, OmegaFacts!Idle, Omega!Waiting, OmegaFacts!Waiting,
      Omega!Finish, OmegaFacts!Finish, Omega!Attempt, OmegaFacts!Attempt, Omega!Nonce,
      OmegaFacts!Nonce, Omega!StartRefused, OmegaFacts!StartRefused, Omega!StartRaises,
      OmegaFacts!StartRaises, Omega!StartCall, OmegaFacts!StartCall, Omega!Answered,
      OmegaFacts!Answered, Omega!CloseConnection, OmegaFacts!CloseConnection, Omega!ReceiveOk,
      OmegaFacts!ReceiveOk, Omega!ReceiveRejected, OmegaFacts!ReceiveRejected, Omega!LastAttempt,
      OmegaFacts!LastAttempt, Omega!RetryAttempt, OmegaFacts!RetryAttempt, Omega!ExhaustAttempts,
      OmegaFacts!ExhaustAttempts, Omega!Deliver, OmegaFacts!Deliver, Omega!OmegaScans,
      OmegaFacts!OmegaScans, Omega!OmegaRejects, OmegaFacts!OmegaRejects, Omega!Restart,
      OmegaFacts!Restart, Omega!Tick, OmegaFacts!Tick, Omega!Receive, OmegaFacts!Receive,
      Omega!FailAttempt, OmegaFacts!FailAttempt, Omega!Start, OmegaFacts!Start, Omega!Call,
      OmegaFacts!Call, Omega!External, OmegaFacts!External, Omega!Init, OmegaFacts!Init, Omega!Next,
      OmegaFacts!Next

(* One specification of the gate.                                           *)
LEMMA SameGate ==
    /\ Gate!Init => GateFacts!Init
    /\ [Gate!Next]_(Gate!gateVars) => [GateFacts!Next]_(GateFacts!gateVars)
  BY Zenon
  DEF
      Gate!gateVars, GateFacts!gateVars, Gate!history, GateFacts!history, Gate!Parsed,
      GateFacts!Parsed, Gate!RequestId, GateFacts!RequestId, Gate!Raises, GateFacts!Raises,
      Gate!Decides, GateFacts!Decides, Gate!FirstDeciding, GateFacts!FirstDeciding, Gate!KeyAccepted,
      GateFacts!KeyAccepted, Gate!KeyRaises, GateFacts!KeyRaises, Gate!NowSec, GateFacts!NowSec,
      Gate!InWindow, GateFacts!InWindow, Gate!Canonical, GateFacts!Canonical, Gate!Expected,
      GateFacts!Expected, Gate!HmacRefusal, GateFacts!HmacRefusal, Gate!KeyRefusal,
      GateFacts!KeyRefusal, Gate!Refusal, GateFacts!Refusal, Gate!ReplayKey, GateFacts!ReplayKey,
      Gate!Keep, GateFacts!Keep, Gate!Unexpired, GateFacts!Unexpired, Gate!Overflow,
      GateFacts!Overflow, Gate!Evicted, GateFacts!Evicted, Gate!Expiry, GateFacts!Expiry,
      Gate!SecondReading, GateFacts!SecondReading, Gate!Reply, GateFacts!Reply, Gate!RecordAdmission,
      GateFacts!RecordAdmission, Gate!Refuse, GateFacts!Refuse, Gate!AdmitUnsigned,
      GateFacts!AdmitUnsigned, Gate!RejectReplay, GateFacts!RejectReplay, Gate!AdmitSigned,
      GateFacts!AdmitSigned, Gate!Restart, GateFacts!Restart, Gate!Tick, GateFacts!Tick, Gate!SetBack,
      GateFacts!SetBack, Gate!Handle, GateFacts!Handle, Gate!Cardinality, GateFacts!Cardinality,
      Gate!IsFiniteSet, GateFacts!IsFiniteSet, Gate!Init, GateFacts!Init, Gate!Next, GateFacts!Next

-----------------------------------------------------------------------------
(* The connector implements its parts                                       *)

ClockOK == now \in 0 .. MaxNow

(* The two clock readings of one request agree here.                        *)
LEMMA OneReading == ASSUME ClockOK PROVE Gate!SecondReading \subseteq {now}
  BY ConnectorConstants DEF ClockOK, Gate!SecondReading, Omega!OmegaConstants

(* A request that is turned away takes no time.                             *)
LEMMA TurnAwayKeepsTime == ASSUME ClockOK, NEW r \in Requests, TurnAway(r) PROVE now' = now
  BY OneReading DEF TurnAway, Gate!Refuse, Gate!RejectReplay

(* A step of the connector moves the clock by Tick alone.                   *)
LEMMA ClockInductive == ASSUME ClockOK, [Next]_vars PROVE ClockOK'
<1> USE DEF ClockOK, Omega!clock
<1>0. MaxNow \in Nat
  BY ConnectorConstants DEF Omega!OmegaConstants
<1>1. ASSUME NEW r \in Requests, TurnAway(r) PROVE ClockOK'
  BY <1>1, TurnAwayKeepsTime
<1>2. ASSUME NEW r \in Requests, NEW c \in Calls, Admit(r, c) PROVE ClockOK'
  BY <1>2 DEF Admit, Omega!Start, Omega!StartRefused, Omega!StartRaises, Omega!StartCall
<1>3. ASSUME NEW c \in Calls, EndAttempt(c) PROVE ClockOK'
  BY <1>3 DEF EndAttempt, Omega!Receive, Omega!FailAttempt, Omega!ReceiveOk, Omega!ReceiveRejected,
              Omega!RetryAttempt, Omega!ExhaustAttempts
<1>4. CASE OmegaWorks
  BY <1>4 DEF OmegaWorks, Omega!External, Omega!OmegaScans, Omega!OmegaRejects
<1>5. CASE Restart
  BY <1>5 DEF Restart, Omega!Restart
<1>6. CASE Tick
  BY <1>6, <1>0 DEF Tick, Omega!Tick
<1>7. CASE UNCHANGED vars
  BY <1>7 DEF vars
<1> QED
  BY <1>1, <1>2, <1>3, <1>4, <1>5, <1>6, <1>7 DEF Next

(* Every step of the connector is a step of the client, or none.            *)
LEMMA OmegaSteps == ASSUME ClockOK, [Next]_vars PROVE [Omega!Next]_(Omega!omegaVars)
<1> USE DEF Omega!Next, Omega!omegaVars, Omega!clock, Omega!breaker, Omega!network, omegaState
<1>1. ASSUME NEW r \in Requests, TurnAway(r) PROVE UNCHANGED Omega!omegaVars
  BY <1>1, TurnAwayKeepsTime DEF TurnAway
<1>2. ASSUME NEW r \in Requests, NEW c \in Calls, Admit(r, c) PROVE Omega!Next
  BY <1>2 DEF Admit, Omega!Call
<1>3. ASSUME NEW c \in Calls, EndAttempt(c) PROVE Omega!Next
  BY <1>3 DEF EndAttempt, Omega!Call
<1>4. CASE OmegaWorks
  BY <1>4 DEF OmegaWorks
<1>5. CASE Restart
  BY <1>5 DEF Restart
<1>6. CASE Tick
  BY <1>6 DEF Tick
<1>7. CASE UNCHANGED vars
  BY <1>7 DEF vars
<1> QED
  BY <1>1, <1>2, <1>3, <1>4, <1>5, <1>6, <1>7 DEF Next

(* Every step of the connector is a step of the gate, or none.              *)
LEMMA GateSteps == ASSUME [Next]_vars PROVE [Gate!Next]_(Gate!gateVars)
<1> USE DEF Gate!Next, Gate!gateVars, gateState, Omega!clock
<1>1. ASSUME NEW r \in Requests, TurnAway(r) PROVE Gate!Next
  BY <1>1 DEF TurnAway, Gate!Handle
<1>2. ASSUME NEW r \in Requests, NEW c \in Calls, Admit(r, c) PROVE Gate!Next
  BY <1>2 DEF Admit, Gate!Handle
<1>3. ASSUME NEW c \in Calls, EndAttempt(c) PROVE UNCHANGED Gate!gateVars
  <2>1. now' = now
    BY <1>3 DEF EndAttempt, Omega!Receive, Omega!FailAttempt, Omega!ReceiveOk, Omega!ReceiveRejected,
                Omega!RetryAttempt, Omega!ExhaustAttempts
  <2> QED
    BY <1>3, <2>1 DEF EndAttempt
<1>4. ASSUME OmegaWorks PROVE UNCHANGED Gate!gateVars
  BY <1>4 DEF OmegaWorks, Omega!External, Omega!OmegaScans, Omega!OmegaRejects
<1>5. CASE Restart
  BY <1>5 DEF Restart
<1>6. CASE Tick
  BY <1>6 DEF Tick
<1>7. CASE UNCHANGED vars
  BY <1>7 DEF vars
<1> QED
  BY <1>1, <1>2, <1>3, <1>4, <1>5, <1>6, <1>7 DEF Next

(* The clock stays in range.                                                *)
LEMMA ClockHolds == Spec => []ClockOK
<1>1. Init => ClockOK
  BY ConnectorConstants DEF Init, Omega!Init, ClockOK, Omega!OmegaConstants
<1> QED
  BY <1>1, ClockInductive, PTL DEF Spec

(* The connector implements the gate and the client of Omega it is made of: *)
(* sharing a clock, a process and their joint steps, neither does anything  *)
(* its own specification does not allow.                                    *)
THEOREM ImplementsParts == Spec => Gate!Spec /\ Omega!Spec
<1>1. Init => Gate!Init /\ Omega!Init
  BY DEF Init
<1> QED
  BY <1>1, ClockHolds, OmegaSteps, GateSteps, PTL DEF Spec, Gate!Spec, Omega!Spec

-----------------------------------------------------------------------------
(* What the parts guarantee inside the connector                            *)

(* The invariants of the client.                                            *)
LEMMA OmegaInvariants == Spec => [](Omega!TypeOK /\ Omega!ScanTrail /\ Omega!AtMostOneScan)
<1>1. OmegaFacts!Spec => [](OmegaFacts!TypeOK /\ OmegaFacts!ScanTrail /\ OmegaFacts!AtMostOneScan)
  BY OmegaAssumptions, OmegaFacts!TypeCorrect, OmegaFacts!TrailHolds, OmegaFacts!ScannedOnce, PTL
<1>2. Omega!Spec => OmegaFacts!Spec
  BY SameOmega, PTL DEF Omega!Spec, OmegaFacts!Spec
<1>3. OmegaFacts!TypeOK => Omega!TypeOK
  BY Zenon DEF Omega!TypeOK, OmegaFacts!TypeOK, Omega!CallStates, OmegaFacts!CallStates, Omega!Outcomes,
      OmegaFacts!Outcomes, Omega!Answers, OmegaFacts!Answers, Omega!Attempts, OmegaFacts!Attempts,
      Omega!RetryCount, OmegaFacts!RetryCount, Omega!AtLeast, OmegaFacts!AtLeast, Omega!AttemptErrors,
      OmegaFacts!AttemptErrors, Omega!Nothing, OmegaFacts!Nothing, Omega!Raised, OmegaFacts!Raised,
      Omega!Returned, OmegaFacts!Returned, Omega!Waiting, OmegaFacts!Waiting
<1>4. OmegaFacts!ScanTrail => Omega!ScanTrail
  BY Zenon DEF Omega!ScanTrail, OmegaFacts!ScanTrail, Omega!OutcomeTellsScan, OmegaFacts!OutcomeTellsScan,
      Omega!Nothing, OmegaFacts!Nothing
<1>5. OmegaFacts!AtMostOneScan => Omega!AtMostOneScan
  BY DEF OmegaFacts!AtMostOneScan, Omega!AtMostOneScan
<1> QED
  BY <1>1, <1>2, <1>3, <1>4, <1>5, ImplementsParts, PTL

(* The replay guarantee of the gate, under the connector's settings.        *)
LEMMA NoReplayUnlessForgotten ==
    ASSUME HmacSettings = {TRUE}, Gate!RetentionCoversWindow
    PROVE  Spec => []Gate!ReplayOnlyIfForgotten
<1>1. GateFacts!RetentionCoversWindow
  BY DEF Gate!RetentionCoversWindow, GateFacts!RetentionCoversWindow
<1>2. GateFacts!Spec => []GateFacts!ReplayOnlyIfForgotten
  BY <1>1, GateAssumptions, GateFacts!ReplayGuarantee
<1>3. Gate!Spec => GateFacts!Spec
  BY SameGate, PTL DEF Gate!Spec, GateFacts!Spec
<1>4. GateFacts!ReplayOnlyIfForgotten => Gate!ReplayOnlyIfForgotten
  BY DEF GateFacts!ReplayOnlyIfForgotten, Gate!ReplayOnlyIfForgotten, GateFacts!ReplayKey, Gate!ReplayKey
<1> QED
  BY <1>2, <1>3, <1>4, ImplementsParts, PTL

(* No setting switches the breaker of the connector off.                    *)
THEOREM BreakerWorksInside == Spec => []BreakerHoldsWhateverIsSet
<1>1. OmegaFacts!Spec => []OmegaFacts!BreakerHoldsWhateverIsSet
  BY OmegaAssumptions, OmegaFacts!BreakerAlwaysWorks
<1>2. Omega!Spec => OmegaFacts!Spec
  BY SameOmega, PTL DEF Omega!Spec, OmegaFacts!Spec
<1>3. OmegaFacts!BreakerHoldsWhateverIsSet => BreakerHoldsWhateverIsSet
  BY Zenon DEF BreakerHoldsWhateverIsSet, Omega!BreakerHoldsWhateverIsSet,
      OmegaFacts!BreakerHoldsWhateverIsSet, Omega!CanAttempt, OmegaFacts!CanAttempt,
      Omega!Cardinality, OmegaFacts!Cardinality
<1> QED
  BY <1>1, <1>2, <1>3, ImplementsParts, PTL

-----------------------------------------------------------------------------
(* Calls and the requests they serve                                        *)

\* The response a call should have.
Due(c) == IF calls[c].pc = "done" THEN {Decision(calls[c].outcome, r) : r \in request[c]} ELSE {}

(* A call is idle until a request is admitted for it, and serves that one   *)
(* for good; its response is the decision on how it ended; and two calls    *)
(* serve one request only if it was admitted twice.                         *)
Served ==
    /\ request \in [Calls -> SUBSET Requests]
    /\ response = [c \in Calls |-> Due(c)]
    /\ \A c \in Calls : calls[c].pc = "idle" <=> request[c] = {}
    /\ \A c \in Calls : request[c] # {} => \E r \in DOMAIN admittedAt : request[c] = {r}
    /\ \A c, d \in Calls : c # d /\ request[c] # {} /\ request[c] = request[d] => request[c] \subseteq replayed

(* What the start of a call does to the calls.                              *)
LEMMA StartEffect ==
    ASSUME Omega!TypeOK, NEW c \in Calls, Omega!Start(c)
    PROVE  /\ calls[c].pc = "idle" /\ scans' = scans
           /\ \/ calls'[c].pc = "waiting"
              \/ calls'[c].pc = "done" /\ calls'[c].outcome.kind \in {"circuit_open", "client_error"}
           /\ \A d \in Calls : d # c => calls'[d] = calls[d]
<1>0. calls \in [Calls -> Omega!CallStates]
  BY DEF Omega!TypeOK
<1>1. CASE Omega!StartRefused(c)
  BY <1>0, <1>1 DEF Omega!StartRefused, Omega!Finish, Omega!Ended, Omega!Raised, Omega!CallStates, Omega!network
<1>2. CASE Omega!StartRaises(c)
  BY <1>0, <1>2 DEF Omega!StartRaises, Omega!Finish, Omega!Ended, Omega!Raised, Omega!CallStates, Omega!network
<1>3. CASE Omega!StartCall(c)
  BY <1>0, <1>3 DEF Omega!StartCall
<1> QED
  BY <1>1, <1>2, <1>3 DEF Omega!Start

(* What the end of an attempt does to the calls.                            *)
LEMMA EndEffect ==
    ASSUME Omega!TypeOK, NEW c \in Calls, Omega!Receive(c) \/ Omega!FailAttempt(c)
    PROVE  /\ calls[c].pc = "waiting" /\ scans' = scans
           /\ calls'[c].pc \in {"waiting", "done"}
           /\ \A d \in Calls : d # c => calls'[d] = calls[d]
<1> USE DEF Omega!Waiting, Omega!Finish, Omega!Ended
<1>0. calls \in [Calls -> Omega!CallStates]
  BY DEF Omega!TypeOK
<1>1. CASE Omega!Receive(c)
  BY <1>0, <1>1 DEF Omega!Receive, Omega!ReceiveOk, Omega!ReceiveRejected, Omega!CallStates
<1>2. ASSUME NEW e \in Omega!AttemptErrors, Omega!RetryAttempt(c, e) \/ Omega!ExhaustAttempts(c, e)
      PROVE  /\ calls[c].pc = "waiting" /\ scans' = scans
             /\ calls'[c].pc \in {"waiting", "done"}
             /\ \A d \in Calls : d # c => calls'[d] = calls[d]
  BY <1>0, <1>2 DEF Omega!RetryAttempt, Omega!ExhaustAttempts, Omega!CallStates
<1> QED
  BY <1>1, <1>2 DEF Omega!FailAttempt

(* The handler answers as soon as its call is over, and nobody else.        *)
LEMMA RespondEffect ==
    ASSUME Served, NEW c \in Calls, calls[c].pc # "done", RespondIfDone(c),
           \A d \in Calls : d # c => calls'[d] = calls[d] /\ request'[d] = request[d]
    PROVE  response' = [d \in Calls |-> Due(d)']
<1>1. \A d \in Calls : d # c => Due(d)' = Due(d)
  BY DEF Due
<1>2. Due(c) = {} /\ response = [d \in Calls |-> Due(d)]
  BY DEF Due, Served
<1>3. CASE calls'[c].pc = "done"
  <2>1. Due(c)' = {Decision(calls'[c].outcome, r) : r \in request'[c]}
    BY <1>3 DEF Due
  <2>2. response' = [response EXCEPT ![c] = Due(c)']
    BY <1>3, <2>1 DEF RespondIfDone
  <2> QED
    BY <1>1, <1>2, <2>2
<1>4. CASE calls'[c].pc # "done"
  <2>1. Due(c)' = {}
    BY <1>4 DEF Due
  <2>2. response' = response
    BY <1>4 DEF RespondIfDone
  <2> QED
    BY <1>1, <1>2, <2>1, <2>2
<1> QED
  BY <1>3, <1>4

(* An admission is recorded, and a second one of the same request noted.    *)
LEMMA AdmitEffect ==
    ASSUME NEW r \in Requests, Gate!AdmitSigned(r) \/ Gate!AdmitUnsigned(r)
    PROVE  /\ DOMAIN admittedAt' = DOMAIN admittedAt \cup {r}
           /\ replayed' = IF r \in DOMAIN admittedAt THEN replayed \cup {r} ELSE replayed
  BY DEF Gate!AdmitSigned, Gate!AdmitUnsigned, Gate!RecordAdmission

(* Every step keeps calls and requests together.                            *)
LEMMA ServedInductive ==
    ASSUME Served, Omega!TypeOK, [Next]_vars PROVE Served'
<1>1. ASSUME NEW r \in Requests, TurnAway(r) PROVE Served'
  <2>1. UNCHANGED <<calls, request, response, admittedAt, replayed>>
    BY <1>1 DEF TurnAway, omegaState, Gate!Refuse, Gate!RejectReplay, Gate!history
  <2> QED
    BY <2>1 DEF Served, Due
<1>2. ASSUME NEW r \in Requests, NEW c \in Calls, Admit(r, c) PROVE Served'
  <2>1. /\ request' = [request EXCEPT ![c] = {r}]
        /\ RespondIfDone(c) /\ Omega!Start(c)
        /\ Gate!AdmitSigned(r) \/ Gate!AdmitUnsigned(r)
    BY <1>2 DEF Admit
  <2>2. /\ calls[c].pc = "idle" /\ calls'[c].pc \in {"waiting", "done"}
        /\ \A d \in Calls : d # c => calls'[d] = calls[d]
    BY <2>1, StartEffect
  <2>3. /\ DOMAIN admittedAt' = DOMAIN admittedAt \cup {r}
        /\ replayed' = IF r \in DOMAIN admittedAt THEN replayed \cup {r} ELSE replayed
    BY <2>1, AdmitEffect
  <2>4. request' \in [Calls -> SUBSET Requests] /\ request'[c] = {r}
        /\ \A d \in Calls : d # c => request'[d] = request[d]
    BY <2>1 DEF Served
  <2>5. response' = [d \in Calls |-> Due(d)']
    BY <2>1, <2>2, <2>4, RespondEffect
  <2>6. \A d \in Calls : calls'[d].pc = "idle" <=> request'[d] = {}
    BY <2>2, <2>4 DEF Served
  <2>7. \A d \in Calls : request'[d] # {} => \E q \in DOMAIN admittedAt' : request'[d] = {q}
    BY <2>3, <2>4 DEF Served
  <2>8. \A a, b \in Calls : a # b /\ request'[a] # {} /\ request'[a] = request'[b] => request'[a] \subseteq replayed'
    BY <2>3, <2>4 DEF Served
  <2> QED
    BY <2>4, <2>5, <2>6, <2>7, <2>8 DEF Served
<1>3. ASSUME NEW c \in Calls, EndAttempt(c) PROVE Served'
  <2>1. RespondIfDone(c) /\ UNCHANGED <<request, admittedAt, replayed>>
    BY <1>3 DEF EndAttempt, gateState
  <2>2. /\ calls[c].pc = "waiting" /\ calls'[c].pc \in {"waiting", "done"}
        /\ \A d \in Calls : d # c => calls'[d] = calls[d]
    BY <1>3, EndEffect DEF EndAttempt
  <2>3. response' = [d \in Calls |-> Due(d)']
    BY <2>1, <2>2, RespondEffect
  <2>4. \A d \in Calls : calls'[d].pc = "idle" <=> request'[d] = {}
    BY <2>1, <2>2 DEF Served
  <2> QED
    BY <2>1, <2>3, <2>4 DEF Served
<1>4. CASE OmegaWorks \/ Tick \/ UNCHANGED vars
  <2>1. UNCHANGED <<calls, request, response, admittedAt, replayed>>
    BY <1>4 DEF OmegaWorks, Omega!External, Omega!OmegaScans, Omega!OmegaRejects, gateState, omegaState,
                Tick, Omega!Tick, Gate!Tick, Gate!history, vars
  <2> QED
    BY <2>1 DEF Served, Due
<1>5. CASE Restart
  <2>1. UNCHANGED <<request, response, admittedAt, replayed>>
    BY <1>5 DEF Restart, Gate!Restart, Gate!history
  <2>2. \A d \in Calls : IF calls[d].pc = "waiting" THEN calls'[d].pc = "dropped" ELSE calls'[d] = calls[d]
    BY <1>5 DEF Restart, Omega!Restart, Omega!Ended, Omega!Waiting, Omega!TypeOK, Omega!CallStates
  <2>3. response' = [d \in Calls |-> Due(d)']
    BY <2>1, <2>2 DEF Served, Due
  <2>4. \A d \in Calls : calls'[d].pc = "idle" <=> request'[d] = {}
    BY <2>1, <2>2 DEF Served
  <2> QED
    BY <2>1, <2>3, <2>4 DEF Served
<1> QED
  BY <1>1, <1>2, <1>3, <1>4, <1>5 DEF Next

(* Calls and requests stay together.                                        *)
LEMMA ServedHolds == Spec => []Served
<1>1. Init => Served
  BY DEF Init, Omega!Init, Omega!Idle, Served, Due
<1> QED
  BY <1>1, ServedInductive, OmegaInvariants, PTL DEF Spec

-----------------------------------------------------------------------------
(* Theorems                                                                 *)

(* Nothing reaches Omega that the gate has not admitted.                    *)
THEOREM OmegaServesTheAdmitted == Spec => []OnlyAdmittedReachOmega
<1>1. Served /\ Omega!TypeOK /\ Omega!ScanTrail => OnlyAdmittedReachOmega
  <2> SUFFICES ASSUME Served, Omega!TypeOK, Omega!ScanTrail PROVE OnlyAdmittedReachOmega
    OBVIOUS
  <2>1. ASSUME NEW c \in Calls, calls[c].attempt # 0 PROVE \E r \in DOMAIN admittedAt : request[c] = {r}
    BY <2>1 DEF Served, Omega!ScanTrail
  <2>2. \A a \in wire : a[1] \in Calls /\ calls[a[1]].attempt # 0
    BY DEF Omega!TypeOK, Omega!ScanTrail
  <2>3. \A c \in Calls : scans[c] > 0 => calls[c].attempt # 0
    BY DEF Omega!TypeOK, Omega!ScanTrail
  <2> QED
    BY <2>1, <2>2, <2>3 DEF OnlyAdmittedReachOmega
<1> QED
  BY <1>1, ServedHolds, OmegaInvariants, PTL

(* A response is a fallback, or Omega's own verdict after a scan.           *)
LEMMA DecisionFacts ==
    ASSUME NEW o, NEW r
    PROVE  /\ Decision(o, r).source = "omega" =>
                 /\ o.kind = "ok" /\ o.body.readable
                 /\ Decision(o, r).verdict = NormalVerdict(o.body.verdict)
           /\ Decision(o, r).source \in {"omega", "connector_fallback"}
           /\ Decision(o, r).source = "connector_fallback" => Decision(o, r).verdict = ConnectorFailMode
           /\ o.kind # "ok" => Decision(o, r).source = "connector_fallback"
<1>1. CASE o.kind = "ok" /\ o.body.readable
  <2>1. Decision(o, r) = Normalized(o.body, r)
    BY <1>1 DEF Decision
  <2>2. Normalized(o.body, r).source = "omega" /\ Normalized(o.body, r).verdict = NormalVerdict(o.body.verdict)
    BY DEF Normalized
  <2> QED
    BY <1>1, <2>1, <2>2
<1>2. CASE ~(o.kind = "ok" /\ o.body.readable)
  <2>1. Decision(o, r) = Fallback(ReasonOf(o.kind), r)
    BY <1>2 DEF Decision
  <2>2. /\ Fallback(ReasonOf(o.kind), r).source = "connector_fallback"
        /\ Fallback(ReasonOf(o.kind), r).verdict = ConnectorFailMode
    BY DEF Fallback
  <2> QED
    BY <2>1, <2>2
<1> QED
  BY <1>1, <1>2

(* "allow" is never the connector's own idea.                               *)
THEOREM NeverAllowsOnItsOwn == Spec => []FailClosed
<1>1. Served /\ Omega!TypeOK /\ Omega!ScanTrail => FailClosed
  <2> SUFFICES ASSUME Served, Omega!TypeOK, Omega!ScanTrail,
                      NEW c \in Calls, NEW p \in response[c], p.verdict = "allow"
               PROVE  IF p.source = "connector_fallback" THEN ConnectorFailMode = "allow"
                      ELSE /\ scans[c] >= 1
                           /\ calls[c].outcome.body.readable
                           /\ VerdictText[calls[c].outcome.body.verdict] = "allow"
    BY DEF FailClosed
  <2>1. PICK r \in request[c] : p = Decision(calls[c].outcome, r)
    BY DEF Served, Due
  <2>2. CASE p.source = "connector_fallback"
    BY <2>1, <2>2, DecisionFacts
  <2>3. CASE p.source # "connector_fallback"
    <3>1. /\ calls[c].outcome.kind = "ok" /\ calls[c].outcome.body.readable
          /\ p.verdict = NormalVerdict(calls[c].outcome.body.verdict)
      BY <2>1, <2>3, DecisionFacts
    <3>2. VerdictText[calls[c].outcome.body.verdict] = "allow"
      BY <3>1 DEF NormalVerdict
    <3>3. scans[c] >= 1
      BY <3>1 DEF Omega!ScanTrail, Omega!OutcomeTellsScan
    <3> QED
      BY <2>3, <3>1, <3>2, <3>3
  <2> QED
    BY <2>2, <2>3
<1> QED
  BY <1>1, ServedHolds, OmegaInvariants, PTL

(* The documents of one request are scanned once at most.                   *)
THEOREM EndToEndOnce == Spec => []ScannedAtMostOnce
<1>1. CASE HmacSettings = {TRUE} /\ OmegaChecksNonce /\ Gate!RetentionCoversWindow
  <2>1. Served /\ Omega!TypeOK /\ Omega!AtMostOneScan /\ Gate!ReplayOnlyIfForgotten => ScannedAtMostOnce
    <3> SUFFICES ASSUME Served, Omega!TypeOK, Omega!AtMostOneScan, Gate!ReplayOnlyIfForgotten,
                        NEW r \in Requests, Gate!ReplayKey(r) \notin forgotten
                 PROVE  /\ Cardinality({c \in Calls : request[c] = {r} /\ scans[c] > 0}) <= 1
                        /\ \A c \in Calls : request[c] = {r} => scans[c] <= 1
      BY DEF ScannedAtMostOnce
    <3>1. r \notin replayed
      BY DEF Gate!ReplayOnlyIfForgotten
    <3>2. \A c, d \in Calls : request[c] = {r} /\ request[d] = {r} => c = d
      BY <3>1 DEF Served
    <3> DEFINE S == {c \in Calls : request[c] = {r} /\ scans[c] > 0}
    <3>3. S = {} \/ \E c \in Calls : S = {c}
      BY <3>2
    <3>4. Cardinality(S) <= 1
      <4>1. CASE S = {}
        BY <4>1, FS_EmptySet
      <4>2. ASSUME NEW c \in Calls, S = {c} PROVE Cardinality(S) <= 1
        <5>1. Cardinality({c}) = 1
          BY FS_Singleton
        <5> HIDE DEF S
        <5> QED
          BY <4>2, <5>1
      <4> QED
        BY <3>3, <4>1, <4>2
    <3>5. \A c \in Calls : scans[c] <= 1
      BY <1>1 DEF Omega!AtMostOneScan
    <3> QED
      BY <3>4, <3>5
  <2> QED
    BY <1>1, <2>1, ServedHolds, OmegaInvariants, NoReplayUnlessForgotten, PTL
<1>2. CASE ~(HmacSettings = {TRUE} /\ OmegaChecksNonce /\ Gate!RetentionCoversWindow)
  <2>1. ScannedAtMostOnce
    BY <1>2 DEF ScannedAtMostOnce
  <2> QED
    BY <2>1, PTL
<1> QED
  BY <1>1, <1>2

-----------------------------------------------------------------------------
(* The contract                                                             *)

\* The mapped variables reply, scanned and lost of the contract.
Reply(c) == {[source |-> p.source, verdict |-> p.verdict] : p \in response[c]}
Replies == [c \in Calls |-> Reply(c)]
Scanned == {c \in Calls : scans[c] > 0}
Lost == {c \in Calls : calls[c].pc = "dropped"}

(* A request that is admitted is accepted under the contract.               *)
LEMMA AdmitAccepts ==
    ASSUME Served, Served', Omega!TypeOK, NEW r \in Requests, NEW c \in Calls, Admit(r, c)
    PROVE  Contract!Accept(c, r)
<1>1. /\ request' = [request EXCEPT ![c] = {r}] /\ Omega!Start(c)
  BY DEF Admit
<1>2. /\ calls[c].pc = "idle" /\ scans' = scans
      /\ \/ calls'[c].pc = "waiting"
         \/ calls'[c].pc = "done" /\ calls'[c].outcome.kind \in {"circuit_open", "client_error"}
      /\ \A d \in Calls : d # c => calls'[d] = calls[d]
  BY <1>1, StartEffect
<1>3. request[c] = {} /\ request'[c] = {r} /\ \A d \in Calls : d # c => request'[d] = request[d]
  BY <1>1, <1>2 DEF Served
<1>4. \A d \in Calls : d # c => Reply(d)' = Reply(d)
  BY <1>2, <1>3 DEF Served, Due, Reply
<1>5. Scanned' = Scanned /\ Lost' = Lost
  BY <1>2 DEF Scanned, Lost
<1>6. \/ Replies' = Replies
      \/ Replies' = [Replies EXCEPT ![c] = {[source |-> "connector_fallback", verdict |-> ConnectorFailMode]}]
  <2>1. Reply(c) = {}
    BY <1>2 DEF Served, Due, Reply
  <2>2. CASE calls'[c].pc = "waiting"
    <3>1. Reply(c)' = {}
      BY <2>2 DEF Served, Due, Reply
    <3> QED
      BY <1>4, <2>1, <3>1 DEF Replies
  <2>3. CASE calls'[c].pc = "done" /\ calls'[c].outcome.kind \in {"circuit_open", "client_error"}
    <3>1. response'[c] = {Decision(calls'[c].outcome, r)}
      BY <1>3, <2>3 DEF Served, Due
    <3>2. Reply(c)' = {[source |-> "connector_fallback", verdict |-> ConnectorFailMode]}
      BY <2>3, <3>1, DecisionFacts DEF Reply
    <3> QED
      BY <1>4, <2>1, <3>2 DEF Replies
  <2> QED
    BY <1>2, <2>2, <2>3
<1> QED
  BY <1>1, <1>3, <1>5, <1>6 DEF Contract!Accept, Contract!ByConnector, Replies, Reply, Scanned, Lost

(* The end of an attempt answers the job, or leaves it waiting.             *)
LEMMA EndAnswers ==
    ASSUME Served, Served', Omega!TypeOK, Omega!TypeOK', Omega!ScanTrail', NEW c \in Calls, EndAttempt(c)
    PROVE  Contract!Answer(c) \/ UNCHANGED Contract!contractVars
<1>1. request' = request
  BY DEF EndAttempt
<1>2. /\ calls[c].pc = "waiting" /\ scans' = scans
      /\ calls'[c].pc \in {"waiting", "done"}
      /\ \A d \in Calls : d # c => calls'[d] = calls[d]
  BY EndEffect DEF EndAttempt
<1>3. \A d \in Calls : d # c => Reply(d)' = Reply(d)
  BY <1>1, <1>2 DEF Served, Due, Reply
<1>4. Scanned' = Scanned /\ Lost' = Lost /\ c \notin Lost
  BY <1>2 DEF Scanned, Lost
<1>5. Reply(c) = {} /\ request[c] # {}
  BY <1>2 DEF Served, Due, Reply
<1>6. CASE calls'[c].pc = "waiting"
  <2>1. Reply(c)' = {}
    BY <1>6 DEF Served, Due, Reply
  <2>2. Replies' = Replies
    BY <1>3, <1>5, <2>1 DEF Replies
  <2> QED
    BY <1>1, <1>4, <2>2 DEF Contract!contractVars, Replies, Reply, Scanned, Lost
<1>7. CASE calls'[c].pc = "done"
  <2>1. PICK r \in Requests : request[c] = {r}
    BY <1>5 DEF Served
  <2> DEFINE o == calls'[c].outcome
             v == [source |-> Decision(o, r).source, verdict |-> Decision(o, r).verdict]
  <2>2. response'[c] = {Decision(o, r)}
    BY <1>1, <1>7, <2>1 DEF Served, Due
  <2>3. Reply(c)' = {v}
    BY <2>2 DEF Reply
  <2>4. Replies' = [Replies EXCEPT ![c] = {v}]
    BY <1>3, <2>3 DEF Replies
  <2>5. v \in Contract!ByConnector \cup (IF c \in Scanned THEN Contract!ByOmega ELSE {})
    <3>1. CASE Decision(o, r).source = "connector_fallback"
      BY <3>1, DecisionFacts DEF Contract!ByConnector
    <3>2. CASE Decision(o, r).source = "omega"
      <4>1. o.kind = "ok" /\ Decision(o, r).verdict = NormalVerdict(o.body.verdict)
        BY <3>2, DecisionFacts
      <4>2. NormalVerdict(o.body.verdict) \in {"allow", "quarantine", "block"}
        BY DEF NormalVerdict, Verdicts
      <4>3. scans'[c] >= 1
        BY <4>1 DEF Omega!ScanTrail, Omega!OutcomeTellsScan
      <4>4. c \in Scanned
        BY <1>2, <4>3 DEF Scanned, Omega!TypeOK
      <4> QED
        BY <3>2, <4>1, <4>2, <4>4 DEF Contract!ByOmega, Contract!Verdicts
    <3> QED
      BY <3>1, <3>2, DecisionFacts
  <2> HIDE DEF v
  <2> QED
    BY <1>1, <1>4, <1>5, <2>4, <2>5
    DEF Contract!Answer, Contract!Unanswered, Replies, Reply, Scanned, Lost
<1> QED
  BY <1>2, <1>6, <1>7

(* Omega scans a job that was accepted, or refuses it.                      *)
LEMMA OmegaScansJobs ==
    ASSUME Served, Served', Omega!TypeOK, Omega!ScanTrail, OmegaWorks
    PROVE  (\E c \in Calls : Contract!Scan(c)) \/ UNCHANGED Contract!contractVars
<1>1. UNCHANGED <<request, response, calls>>
  BY DEF OmegaWorks, Omega!External, Omega!OmegaScans, Omega!OmegaRejects
<1>2. Replies' = Replies /\ Lost' = Lost
  BY <1>1 DEF Replies, Reply, Lost
<1>3. ASSUME NEW a \in wire, Omega!OmegaScans(a) PROVE Contract!Scan(a[1])
  <2>1. a[1] \in Calls /\ scans \in [Calls -> Nat] /\ scans' = [scans EXCEPT ![a[1]] = @ + 1]
    BY <1>3 DEF Omega!OmegaScans, Omega!TypeOK
  <2>2. Scanned' = Scanned \cup {a[1]}
    BY <2>1 DEF Scanned
  <2>3. request[a[1]] # {}
    BY <2>1 DEF Served, Omega!ScanTrail
  <2> QED
    BY <1>1, <1>2, <2>2, <2>3 DEF Contract!Scan, Replies, Reply, Scanned, Lost
<1>4. ASSUME NEW a \in wire, Omega!OmegaRejects(a) PROVE UNCHANGED Contract!contractVars
  <2>1. Scanned' = Scanned
    BY <1>4 DEF Omega!OmegaRejects, Scanned
  <2> QED
    BY <1>1, <1>2, <2>1 DEF Contract!contractVars, Replies, Reply, Scanned, Lost
<1>5. \A a \in wire : a[1] \in Calls
  BY DEF Omega!TypeOK
<1> QED
  BY <1>3, <1>4, <1>5 DEF OmegaWorks, Omega!External

(* With the process, every job without an answer is lost.                   *)
LEMMA RestartLoses ==
    ASSUME Served, Omega!TypeOK, Restart
    PROVE  Contract!Die
<1>1. UNCHANGED <<request, response, scans>>
  BY DEF Restart, Omega!Restart
<1>2. \A d \in Calls : IF calls[d].pc = "waiting" THEN calls'[d].pc = "dropped" ELSE calls'[d] = calls[d]
  BY DEF Restart, Omega!Restart, Omega!Ended, Omega!Waiting, Omega!TypeOK, Omega!CallStates
<1>3. \A d \in Calls : calls[d].pc = "waiting" <=> request[d] # {} /\ Reply(d) = {} /\ d \notin Lost
  <2> SUFFICES ASSUME NEW d \in Calls
               PROVE  calls[d].pc = "waiting" <=> request[d] # {} /\ Reply(d) = {} /\ d \notin Lost
    OBVIOUS
  <2>1. calls[d].pc \in {"idle", "waiting", "done", "dropped"}
    BY DEF Omega!TypeOK, Omega!CallStates
  <2>2. calls[d].pc = "idle" <=> request[d] = {}
    BY DEF Served
  <2>3. calls[d].pc = "done" => Reply(d) # {}
    <3>1. SUFFICES ASSUME calls[d].pc = "done" PROVE Reply(d) # {}
      OBVIOUS
    <3>2. PICK r : r \in request[d]
      BY <2>2, <3>1
    <3>3. Decision(calls[d].outcome, r) \in response[d]
      BY <3>1, <3>2 DEF Served, Due
    <3> QED
      BY <3>3 DEF Reply
  <2>4. calls[d].pc # "done" => Reply(d) = {}
    BY DEF Served, Due, Reply
  <2> QED
    BY <2>1, <2>2, <2>3, <2>4 DEF Lost
<1>4. Lost' = Lost \cup {d \in Calls : request[d] # {} /\ Replies[d] = {} /\ d \notin Lost}
  BY <1>2, <1>3 DEF Lost, Replies
<1>5. Replies' = Replies /\ Scanned' = Scanned
  BY <1>1 DEF Replies, Reply, Scanned
<1> QED
  BY <1>1, <1>4, <1>5 DEF Contract!Die, Contract!Unanswered, Replies, Reply, Scanned, Lost

(* The connector, as gate, client and handlers together, implements its     *)
(* contract: each of its steps is one of the contract's, or none.           *)
THEOREM ContractKept == Spec => KeepsContract
<1>1. Init => Contract!Init
  BY DEF Init, Omega!Init, Omega!Idle, Contract!Init
<1>2. ASSUME Served, Served', Omega!TypeOK, Omega!TypeOK', Omega!ScanTrail, Omega!ScanTrail', ClockOK, [Next]_vars
      PROVE  [Contract!Next]_(Contract!contractVars)
  <2>1. ASSUME UNCHANGED <<request, response, scans, calls>> PROVE UNCHANGED Contract!contractVars
    BY <2>1 DEF Contract!contractVars
  <2>2. ASSUME NEW r \in Requests, TurnAway(r) PROVE UNCHANGED <<request, response, scans, calls>>
    BY <2>2 DEF TurnAway, omegaState
  <2>3. ASSUME NEW r \in Requests, NEW c \in Calls, Admit(r, c) PROVE Contract!Next
    BY <1>2, <2>3, AdmitAccepts DEF Contract!Next
  <2>4. ASSUME NEW c \in Calls, EndAttempt(c) PROVE [Contract!Next]_(Contract!contractVars)
    BY <1>2, <2>4, EndAnswers DEF Contract!Next
  <2>5. CASE OmegaWorks
    BY <1>2, <2>5, OmegaScansJobs DEF Contract!Next
  <2>6. CASE Restart
    BY <1>2, <2>6, RestartLoses DEF Contract!Next
  <2>7. CASE Tick \/ UNCHANGED vars
    BY <2>1, <2>7 DEF Tick, Omega!Tick, Omega!network, vars, omegaState
  <2> QED
    BY <1>2, <2>1, <2>2, <2>3, <2>4, <2>5, <2>6, <2>7 DEF Next
<1> QED
  BY <1>1, <1>2, ServedHolds, OmegaInvariants, ClockHolds, PTL DEF Spec, KeepsContract, Contract!Spec
=============================================================================
