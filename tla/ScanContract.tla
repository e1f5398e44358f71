---------------------------- MODULE ScanContract ----------------------------
(***************************************************************************)
(* What the connector promises its callers (POST /v1/scan/attachment),     *)
(* with nothing said of signatures, retries or circuit breakers.  Each     *)
(* accepted request has a job.  A job may be scanned by Omega, even after  *)
(* it was answered or lost, since an attempt given up may still arrive.    *)
(* It is answered once at most, by Omega after a scan or by the connector  *)
(* on its own with the configured fail mode, and it is never answered once *)
(* the process that held it is gone.                                       *)
(***************************************************************************)
CONSTANTS Jobs, Requests, FailMode

VARIABLES
    owner,     \* job -> {} or {the request it was accepted for}
    scanned,   \* the jobs whose document Omega has scanned
    reply,     \* job -> {} or {the verdict sent and who decided it}
    lost       \* the jobs that died with the process

contractVars == <<owner, scanned, reply, lost>>

Verdicts == {"allow", "quarantine", "block"}

ByOmega == [source : {"omega"}, verdict : Verdicts]
ByConnector == [source : {"connector_fallback"}, verdict : {FailMode}]

Unanswered(j) == owner[j] # {} /\ reply[j] = {} /\ j \notin lost

\* A request is taken on, and may be answered at once when Omega cannot be called.
Accept(j, r) ==
    /\ owner[j] = {}
    /\ owner' = [owner EXCEPT ![j] = {r}]
    /\ \/ UNCHANGED reply
       \/ \E v \in ByConnector : reply' = [reply EXCEPT ![j] = {v}]
    /\ UNCHANGED <<scanned, lost>>

Scan(j) ==
    /\ owner[j] # {}
    /\ scanned' = scanned \cup {j}
    /\ UNCHANGED <<owner, reply, lost>>

Answer(j) ==
    /\ Unanswered(j)
    /\ \E v \in ByConnector \cup (IF j \in scanned THEN ByOmega ELSE {}) :
          reply' = [reply EXCEPT ![j] = {v}]
    /\ UNCHANGED <<owner, scanned, lost>>

\* The process ends: every job without an answer is lost.
Die ==
    /\ lost' = lost \cup {j \in Jobs : Unanswered(j)}
    /\ UNCHANGED <<owner, scanned, reply>>

Init ==
    /\ owner = [j \in Jobs |-> {}]
    /\ scanned = {}
    /\ reply = [j \in Jobs |-> {}]
    /\ lost = {}

Next ==
    \/ \E j \in Jobs, r \in Requests : Accept(j, r)
    \/ \E j \in Jobs : Scan(j) \/ Answer(j)
    \/ Die

Spec == Init /\ [][Next]_contractVars
=============================================================================
