---------------------------- MODULE LocalChecks ----------------------------
(***************************************************************************)
(* `make health` and `make smoke` (scripts/compose_healthcheck.py and      *)
(* scripts/smoke_local.py): one request after the other, while services    *)
(* come and go.  The health check notes a failed request and goes on; the  *)
(* smoke test does not catch it, and looks at the verdicts only when it is *)
(* told to be strict.                                                      *)
(***************************************************************************)
EXTENDS Naturals, Sequences

CONSTANTS
    Services,      \* the services of the compose file, in the order they are asked
    Expected,      \* the verdicts the smoke scenarios expect, in order
    VerdictTexts   \* the texts an answer can have as its verdict

LocalConstants ==
    /\ Services \in Seq(STRING) /\ Len(Services) > 0
    /\ Expected \in Seq(VerdictTexts) /\ Len(Expected) > 0

VARIABLES
    tool,       \* "health" or "smoke", as started by the operator
    strict,     \* --strict of the smoke test
    up,         \* the services that answer at this moment
    asked,      \* the requests made so far
    verdicts,   \* the verdicts printed by the smoke test
    failures,   \* the requests noted as failures
    exit,       \* "running", "ok" (0), "failed" (1) or "raised" (a traceback)
    answeredBy  \* history: the services that answered this run

localVars == <<tool, strict, up, asked, verdicts, failures, exit, answeredBy>>

ToAsk == IF tool = "health" THEN Len(Services) ELSE Len(Expected)

\* The end of main(), once the loop is over.
ExitAfter(n, fails) == IF n < ToAsk THEN "running" ELSE IF fails = {} THEN "ok" ELSE "failed"

Ask(fails) ==
    /\ asked' = asked + 1
    /\ failures' = fails
    /\ exit' = ExitAfter(asked + 1, fails)
    /\ UNCHANGED <<tool, strict, up>>

HealthOk ==
    /\ tool = "health" /\ exit = "running"
    /\ Services[asked + 1] \in up
    /\ Ask(failures)
    /\ answeredBy' = answeredBy \cup {Services[asked + 1]}
    /\ UNCHANGED verdicts

\* Mutant: the exception is swallowed.
HealthFailsSilently ==
    /\ tool = "health" /\ exit = "running"
    /\ Ask(failures)
    /\ UNCHANGED <<verdicts, answeredBy>>

\* Any exception: refused, not 2xx, too slow, or not JSON.
HealthFails ==
    /\ tool = "health" /\ exit = "running"
    /\ Ask(failures \cup {asked + 1})
    /\ UNCHANGED <<verdicts, answeredBy>>

\* Mutant: only the last scenario decides.
SmokeAnswersLastOnly(v) ==
    /\ tool = "smoke" /\ exit = "running"
    /\ "connector" \in up
    /\ Ask(IF strict /\ v # Expected[asked + 1] THEN {asked + 1} ELSE {})
    /\ verdicts' = Append(verdicts, v)
    /\ answeredBy' = answeredBy \cup {"connector"}

SmokeAnswers(v) ==
    /\ tool = "smoke" /\ exit = "running"
    /\ "connector" \in up
    /\ Ask(IF strict /\ v # Expected[asked + 1] THEN failures \cup {asked + 1} ELSE failures)
    /\ verdicts' = Append(verdicts, v)
    /\ answeredBy' = answeredBy \cup {"connector"}

\* urlopen raises, on a refusal by the gate too, or the answer is not JSON.
SmokeRaises ==
    /\ tool = "smoke"
    /\ exit = "running"
    /\ exit' = "raised"
    /\ UNCHANGED <<tool, strict, up, asked, verdicts, failures, answeredBy>>

\* A service goes down or comes back.
Toggle(s) ==
    /\ exit = "running"
    /\ up' = IF s \in up THEN up \ {s} ELSE up \cup {s}
    /\ UNCHANGED <<tool, strict, asked, verdicts, failures, exit, answeredBy>>

Init ==
    /\ tool \in {"health", "smoke"}
    /\ strict \in BOOLEAN
    /\ up = {Services[i] : i \in 1 .. Len(Services)}
    /\ asked = 0
    /\ verdicts = << >>
    /\ failures = {}
    /\ exit = "running"
    /\ answeredBy = {}

Next ==
    \/ HealthOk \/ HealthFails \/ SmokeRaises
    \/ \E v \in VerdictTexts : SmokeAnswers(v)
    \/ \E i \in 1 .. Len(Services) : Toggle(Services[i])

Spec == Init /\ [][Next]_localVars

-----------------------------------------------------------------------------
(* Properties                                                               *)

(* What exit code 0 is worth, with services that come and go: the health    *)
(* check was answered by each service at some moment of its run, and the    *)
(* smoke test had every scenario answered by the connector, with the        *)
(* expected verdicts if it was strict (if it was not: the next property).   *)
ExitOkIsEarned ==
    exit = "ok" =>
        IF tool = "health" THEN \A i \in 1 .. Len(Services) : Services[i] \in answeredBy
        ELSE Len(verdicts) = Len(Expected) /\ (strict => verdicts = Expected)

(* docs/INTEGRATION_ARCHITECTURE.md, Go/No-Go: "`make smoke` -> `allow`,    *)
(* `quarantine`, `block` scenarios pass."  The Makefile runs the script     *)
(* without --strict.                                                        *)
SmokePassMeansVerdicts == tool = "smoke" /\ exit = "ok" => verdicts = Expected
=============================================================================
