------------------------------ MODULE Scripts ------------------------------
(***************************************************************************)
(* The checks of an installation the Makefile offers.  They are programs   *)
(* of their own that share no state: the operator starts one of them.      *)
(***************************************************************************)
EXTENDS Integers, Sequences

CONSTANTS
    Magic, Base, IsJson, Scenarios, StrictNoFallback, OmegaReasons, StartsWithOmega,
    Services, Expected, VerdictTexts, SampleCounts, Latencies, SlowMs, RateScale

VARIABLES
    script,
    idx, stage, transfer, fetched, store, results,
    tool, strict, up, asked, verdicts, failures, exit, answeredBy,
    samples, phase, latencies, error_count, fallback_count, unexpected_fallback_count,
    non_fallback_expected_total, verdict_matrix, first_response, report, log

Upstream == INSTANCE SmokePath
Local == INSTANCE LocalChecks
Qualify == INSTANCE Qualification

ASSUME ScriptConstants ==
    /\ Upstream!SmokeConstants
    /\ Local!LocalConstants
    /\ Qualify!QualificationConstants

upstreamVars == <<idx, stage, transfer, fetched, store, results>>
localVars == <<tool, strict, up, asked, verdicts, failures, exit, answeredBy>>
qualVars ==
    <<samples, phase, latencies, error_count, fallback_count, unexpected_fallback_count,
      non_fallback_expected_total, verdict_matrix, first_response, report, log>>
vars == <<script, upstreamVars, localVars, qualVars>>

\* make smoke-upstream
RunUpstream ==
    /\ script = "smoke-upstream"
    /\ Upstream!Next
    /\ UNCHANGED <<script, localVars, qualVars>>

\* make health, make smoke
RunLocal ==
    /\ script = "local"
    /\ Local!Next
    /\ UNCHANGED <<script, upstreamVars, qualVars>>

\* make qualification-report
RunQualification ==
    /\ script = "qualification-report"
    /\ Qualify!Next
    /\ UNCHANGED <<script, upstreamVars, localVars>>

Init ==
    /\ script \in {"smoke-upstream", "local", "qualification-report"}
    /\ Upstream!Init
    /\ Local!Init
    /\ Qualify!Init
    \* The arguments of the scripts that are not started do not matter.
    /\ script # "local" => tool = "health" /\ ~strict
    /\ script # "qualification-report" => \A n \in SampleCounts : samples >= n

Next == RunUpstream \/ RunLocal \/ RunQualification

Spec == Init /\ [][Next]_vars

-----------------------------------------------------------------------------
(* The properties of the three, stated in their own modules                 *)

(* What smoke-upstream saves is about the scenarios' own files.             *)
ReportIsOfTheScenarios == Upstream!ReportIsOfTheScenarios

(* A strict smoke-upstream that is saved saw no outage of Omega.            *)
StrictReportSawNoOutage == Upstream!StrictReportSawNoOutage

(* Exit code 0 of health and smoke.                                         *)
ExitOkIsEarned == Local!ExitOkIsEarned

(* What the documents say exit code 0 of smoke means.                       *)
SmokePassMeansVerdicts == Local!SmokePassMeansVerdicts

(* The qualification report accounts for every request.                     *)
ReportCountsTheSamples == Qualify!ReportCountsTheSamples

(* GO of the qualification report.                                          *)
GoIsEarned == Qualify!GoIsEarned

(* The percentiles of the qualification report.                             *)
PercentilesInOrder == Qualify!PercentilesInOrder
=============================================================================
