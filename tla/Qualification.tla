--------------------------- MODULE Qualification ---------------------------
(***************************************************************************)
(* The qualification report (scripts/generate_qualification_report.py): a  *)
(* number of signed requests of three scenarios in random order, counters  *)
(* over their answers, percentiles of their latencies, and GO or NO-GO.    *)
(*                                                                         *)
(* Rates are compared as fractions, and a percentile is kept as a hundred  *)
(* times its value, so that nothing is rounded.                            *)
(***************************************************************************)
EXTENDS Integers, Sequences, FiniteSets

CONSTANTS
    SampleCounts,  \* the values --samples may have
    VerdictTexts,  \* the texts an answer can have as its verdict, after strip() and lower()
    Latencies,     \* the latencies a request can take
    SlowMs,        \* the limit of p95: 1000
    RateScale      \* the limit of both rates is 1 / RateScale: 100

Verdicts == {"allow", "quarantine", "block"}
SampleScenarios == {"allow", "quarantine", "block"}

QualificationConstants ==
    /\ SampleCounts \subseteq Int
    /\ Latencies \subseteq Nat
    /\ SlowMs \in Nat
    /\ RateScale \in Nat \ {0}

VARIABLES
    samples,                      \* args.samples
    phase,                        \* "sampling", "raised" or "written"
    latencies,                    \* latencies
    error_count, fallback_count, unexpected_fallback_count, non_fallback_expected_total,
    verdict_matrix,               \* scenario -> verdict -> how often
    first_response,               \* scenario -> {} or {its first answer}
    report,                       \* {} or {the summary written}
    log                           \* history: every sample with its answer

counters == <<error_count, fallback_count, unexpected_fallback_count, non_fallback_expected_total>>
qualVars == <<samples, phase, latencies, counters, verdict_matrix, first_response, report, log>>

\* Only the oversize scenario is expected to end in a fallback.
ExpectedFallback(s) == s = "quarantine"

(* An answer: 200 with a verdict and a policy_trace that may name the       *)
(* connector as its source, or an HTTP error with an envelope that has      *)
(* neither.                                                                 *)
QualAnswers ==
    [error : {FALSE}, verdict : VerdictTexts, fallback : BOOLEAN]
      \cup [error : {TRUE}, verdict : {"absent"}, fallback : {FALSE}]

\* Mutant: an answer without a verdict is taken for an allow.
MatrixVerdictTrusting(v) == IF v \in Verdicts THEN v ELSE "allow"

MatrixVerdict(v) == IF v \in Verdicts THEN v ELSE "quarantine"

Plus(n, condition) == IF condition THEN n + 1 ELSE n

AtLeastOne(n) == IF n < 1 THEN 1 ELSE n

-----------------------------------------------------------------------------
(* Percentiles                                                              *)

Below(s, v) == {i \in 1 .. Len(s) : s[i] < v}
UpTo(s, v) == {i \in 1 .. Len(s) : s[i] <= v}

\* sorted(values): the k-th value has fewer than k values below it, and k or more up to it.
Sorted(s) ==
    [k \in 1 .. Len(s) |->
        CHOOSE v \in {s[i] : i \in 1 .. Len(s)} : Cardinality(Below(s, v)) < k /\ k <= Cardinality(UpTo(s, v))]

\* Mutant: the weights of the two neighbours are swapped.
PercentileSwapped(values, q) ==
    LET data == Sorted(values)
        idx == (Len(data) - 1) * q
        low == idx \div 100
        high == IF low + 1 < Len(data) THEN low + 1 ELSE Len(data) - 1
        frac == idx % 100
    IN  IF data = << >> THEN 0 ELSE data[low + 1] * frac + data[high + 1] * (100 - frac)

\* _percentile: the value between the two nearest ranks, times 100, q in hundredths.
Percentile(values, q) ==
    LET data == Sorted(values)
        idx == (Len(data) - 1) * q
        low == idx \div 100
        high == IF low + 1 < Len(data) THEN low + 1 ELSE Len(data) - 1
        frac == idx % 100
    IN  IF data = << >> THEN 0 ELSE data[low + 1] * (100 - frac) + data[high + 1] * frac

-----------------------------------------------------------------------------
(* The sample loop                                                          *)

Sample(s, a, ms) ==
    /\ phase = "sampling"
    /\ Len(latencies) < AtLeastOne(samples)
    /\ latencies' = Append(latencies, ms)
    /\ error_count' = Plus(error_count, a.error)
    /\ fallback_count' = Plus(fallback_count, a.fallback)
    /\ non_fallback_expected_total' = Plus(non_fallback_expected_total, ~ExpectedFallback(s))
    /\ unexpected_fallback_count' = Plus(unexpected_fallback_count, ~ExpectedFallback(s) /\ a.fallback)
    /\ verdict_matrix' = [verdict_matrix EXCEPT ![s][MatrixVerdict(a.verdict)] = @ + 1]
    /\ first_response' = IF first_response[s] = {} THEN [first_response EXCEPT ![s] = {a}] ELSE first_response
    /\ log' = Append(log, [scenario |-> s, answer |-> a, latency |-> ms])
    /\ UNCHANGED <<samples, phase, report>>

\* No connection, a timeout, or a body that is not JSON: a traceback, and no report.
SampleRaises ==
    /\ phase = "sampling"
    /\ Len(latencies) < AtLeastOne(samples)
    /\ phase' = "raised"
    /\ UNCHANGED <<samples, latencies, counters, verdict_matrix, first_response, report, log>>

\* Mutant: the errors are left out of the decision.
BlockersNoErrors ==
    {b \in {"unexpected_fallback_rate", "latency"} :
        \/ b = "unexpected_fallback_rate" /\ RateScale * unexpected_fallback_count > AtLeastOne(non_fallback_expected_total)
        \/ b = "latency" /\ Percentile(latencies, 95) >= 100 * SlowMs}

Blockers ==
    {b \in {"unexpected_fallback_rate", "error_rate", "latency"} :
        \/ b = "unexpected_fallback_rate" /\ RateScale * unexpected_fallback_count > AtLeastOne(non_fallback_expected_total)
        \/ b = "error_rate" /\ RateScale * error_count >= AtLeastOne(Len(latencies))
        \/ b = "latency" /\ Percentile(latencies, 95) >= 100 * SlowMs}

\* After the loop: the summary, as JSON and as Markdown.
Write ==
    /\ phase = "sampling"
    /\ Len(latencies) = AtLeastOne(samples)
    /\ phase' = "written"
    /\ report' = {[total |-> AtLeastOne(Len(latencies)), errors |-> error_count, fallbacks |-> fallback_count,
                   unexpected |-> unexpected_fallback_count, matrix |-> verdict_matrix,
                   p50 |-> Percentile(latencies, 50), p95 |-> Percentile(latencies, 95),
                   p99 |-> Percentile(latencies, 99), blockers |-> Blockers,
                   decision |-> IF Blockers = {} THEN "GO" ELSE "NO-GO"]}
    /\ UNCHANGED <<samples, latencies, counters, verdict_matrix, first_response, log>>

Init ==
    /\ samples \in SampleCounts
    /\ phase = "sampling"
    /\ latencies = << >>
    /\ error_count = 0
    /\ fallback_count = 0
    /\ unexpected_fallback_count = 0
    /\ non_fallback_expected_total = 0
    /\ verdict_matrix = [s \in SampleScenarios |-> [v \in Verdicts |-> 0]]
    /\ first_response = [s \in SampleScenarios |-> {}]
    /\ report = {}
    /\ log = << >>

Next ==
    \/ \E s \in SampleScenarios, a \in QualAnswers, ms \in Latencies : Sample(s, a, ms)
    \/ SampleRaises
    \/ Write

Spec == Init /\ [][Next]_qualVars

-----------------------------------------------------------------------------
(* Properties                                                               *)

Count(P(_)) == Cardinality({i \in 1 .. Len(log) : P(log[i])})

(* The report accounts for every request: one row of the matrix per         *)
(* scenario and one cell per request, an answer without a verdict of its    *)
(* own under quarantine, and the counters those of the requests made.       *)
ReportCountsTheSamples ==
    \A p \in report :
        /\ p.total = Len(log) /\ Len(log) >= 1
        /\ p.errors = Count(LAMBDA x : x.answer.error)
        /\ p.fallbacks = Count(LAMBDA x : x.answer.fallback)
        /\ p.unexpected = Count(LAMBDA x : x.answer.fallback /\ x.scenario # "quarantine")
        /\ \A s \in SampleScenarios :
              /\ p.matrix[s]["allow"] = Count(LAMBDA x : x.scenario = s /\ x.answer.verdict = "allow")
              /\ p.matrix[s]["block"] = Count(LAMBDA x : x.scenario = s /\ x.answer.verdict = "block")
              /\ p.matrix[s]["quarantine"] =
                    Count(LAMBDA x : x.scenario = s /\ x.answer.verdict \notin {"allow", "block"})

(* What GO is worth: of the requests that should reach Omega, no more than  *)
(* the two rates allow were left without its verdict, and no more of all    *)
(* requests were slow than p95, interpolated as it is, can hide.            *)
GoIsEarned ==
    \A p \in report : p.decision = "GO" =>
        /\ RateScale * Count(LAMBDA x : x.scenario # "quarantine" /\ (x.answer.fallback \/ x.answer.error))
              < AtLeastOne(Count(LAMBDA x : x.scenario # "quarantine")) + Len(log)
        /\ Count(LAMBDA x : x.latency >= SlowMs) <= Len(log) - 1 - (95 * (Len(log) - 1)) \div 100

(* The percentiles of a report are in order and within the latencies that   *)
(* were measured.                                                           *)
PercentilesInOrder ==
    \A p \in report :
        /\ \E i \in 1 .. Len(log) : 100 * log[i].latency <= p.p50
        /\ p.p50 <= p.p95 /\ p.p95 <= p.p99
        /\ \E i \in 1 .. Len(log) : p.p99 <= 100 * log[i].latency
=============================================================================
