# SGraph Omega Connector: models, checks and proofs

The connector is a FastAPI service between SGraph, which holds encrypted
transfers, and Omega, which scans documents. A trusted SGraph flow decrypts a
file and POSTs it to the connector; the connector authenticates the request,
forwards it to Omega with retries behind a circuit breaker, and turns Omega's
answer, or its absence, into a verdict: `allow`, `quarantine` or `block`. This
directory holds TLA+ models of that service, TLC runs on small instances of
them, and theorems checked by TLAPS for all instances.

## 1. The system

| Part | Source | State it keeps | Operations |
|---|---|---|---|
| Inbound gate | `connector/app.py` (first half of both handlers), `auth.py`, `security.py`, `models.py`, `errors.py` | the replay cache: replay key -> expiry | parse and validate the body, fill in `request_id`, `validate_api_key`, `validate_hmac`, `check_and_mark` with `_cleanup` |
| Omega client | `connector/omega_client.py` | `failure_count`, `opened_until_ts`; per call the round of the retry loop | `_can_attempt`, `_headers`, `scan_attachment`, `_record_failure`, `_record_success` |
| Handlers | `connector/app.py` | none of their own | `_normalize_response`, `_fallback_response`, audit line, response |
| Settings | `connector/config.py`, `lifespan` in `app.py` | what was read at the start, kept until the process ends | `load_settings` with `_as_bool`, `_as_int` |
| SGraph client and hook | `upstream_patches/sgraph/*.py` | none | sign and send a request, enforce the verdict |
| End-to-end scripts | `scripts/e2e_sgraph_*.py` | the transfer at work, the results so far | package, encrypt, transfer, decrypt, scan, report |
| Local checks | `scripts/compose_healthcheck.py`, `smoke_local.py` | failures so far | ask each service, run each scenario, exit code |
| Qualification report | `scripts/generate_qualification_report.py` | counters, latencies, verdict matrix | sample, percentiles, GO or NO-GO |
| Other scripts | `scripts/perf_report.py`, the body size probes, `preflight_upstream.py`, `signature_helper.py` | none | print or record what they are given |
| Deployment | `deploy/`, `contracts/`, `env/` | none | configuration |

How they interact. One process, one event loop. A handler awaits the body of
its request, then runs without an await through every check of the gate, the
breaker test and the construction of the signed headers up to the POST to
Omega. It awaits the POST, at most `retry_count + 1` times, and runs from the
end of the last one to its response without another await. The replay cache and
the breaker are shared by all handlers and need no lock for that reason; what
can interleave is what lies between two awaits. Both are in memory only: a
restart empties the cache, closes the breaker and kills the handlers at work,
while requests already posted are still on their way to Omega.

What is hard to test here, and is therefore what the properties are about:

* the boundary of the timestamp window against the life of a nonce, with a
  clock truncated to seconds in one place, not in the other, read twice, and
  set back by the host;
* the eviction of live nonces at the capacity of the cache, and restarts;
* calls that overlap the opening of the breaker, on a clock that may be set
  back: late successes that close it,
  late failures that prolong it, retries that go on regardless;
* attempts that time out here and are processed there, and their retries;
* answers Omega gave that the handler cannot read;
* that every call ends, and that "allow" is never invented on the way;
* a caller whose patience ends before the connector's, and what it does with
  the file then;
* what all of these, interleaved, add up to for a caller;
* variables that are absent, blank or malformed, and edits between two starts;
* what an operator may conclude from a report or an exit code, when services
  fail in the middle of a check.

`PROJECT.json` lists these hazards with their lines and properties.

## 2. The modules

| Module | Models | Extends / instantiates |
|---|---|---|
| `AuthGate` | the gate, up to refusal or admission, and the signing of `connector_client.py` | |
| `OmegaClient` | retry loop and breaker, with an external Omega and network | |
| `ScanContract` | what the connector promises its callers, abstractly | |
| `Connector` | the handlers: gate + client + response | `Gate == INSTANCE AuthGate`, `Omega == INSTANCE OmegaClient`, one `now`; `Contract == INSTANCE ScanContract WITH ...` |
| `TrustedFlow` | the SGraph hook and client against the connector's timers | |
| `Settings` | `load_settings` and the start of the process | |
| `SgMeta` | the container of the end-to-end scripts | |
| `SmokePath` | the end-to-end scripts over an SGraph that may fail | extends `SgMeta` |
| `LocalChecks` | health check and smoke test | |
| `Qualification` | the qualification report | |
| `Scripts` | the operator starting one of the three | `INSTANCE` of `SmokePath`, `LocalChecks`, `Qualification` |
| `MCAuthGate`, `MCOmegaClient`, `MCConnector`, `MCTrustedFlow`, `MCSettings`, `MCScripts`, `MCSmokePath` | constants for TLC | the module they are named after |
| `AuthGateProofs`, `OmegaClientProofs`, `ConnectorProofs`, `TrustedFlowProofs`, `SettingsProofs`, `SmokePathProofs`, `QualificationProofs`, `ScriptsProofs` | theorems | the module they are named after |

### AuthGate

`entries` is `NonceReplayCache._entries`; `now` is `time.time()` in ticks,
`TicksPerSec` to the second, so that `int()` really truncates. A request is a
record of what the checks look at: the path, the body (its kind, `tenant_id`,
`request_id`), the API key, the timestamp, the nonce, the shape of the
signature headers and the signature. A digest is the value it was taken of and
a signature the pair of canonical fields and secret; `Strip` is `str.strip()`,
given as a function.

`Refusal(r)` is the first check of the handler that fails, in the order of the
code; two of its results are 500s, where `hmac.compare_digest` raises on
characters outside ASCII. One action is one handled request: `Refuse`,
`AdmitUnsigned` (HMAC switched off), `RejectReplay` and `AdmitSigned`. The last
two contain the whole of `check_and_mark`: the second reading of the clock (up
to `HandlingTicks` after the first), the removal of expired entries, the
eviction of the overflow, and the mark. `Restart` empties the cache and reads
`CONNECTOR_REQUIRE_HMAC` again: `require_hmac` is what the running process
read, one of `HmacSettings`. `Tick` moves the clock, `SetBack` sets it back, by
`MaxSetBack` ticks in all. `admittedAt`, `replayed` and `forgotten` are history:
`forgotten` collects the keys dropped before they expired.

Entries with equal expiry are evicted in arrival order in the code and in any
order in the model.

### OmegaClient

`calls[c]` is the coroutine of one `scan_attachment`: idle, waiting for attempt
n, done with an outcome, or dropped by a restart. `StartRefused` is the open
breaker, `StartRaises` a body that cannot be encoded (raised outside the loop
and not counted), `StartCall` everything up to the first POST. `ReceiveOk`,
`ReceiveRejected`, `RetryAttempt` and `ExhaustAttempts` are the ways a round of
the loop ends. Timeouts, lost connections, 5xx answers and answers that are not
JSON lead the loop to the same place with different errors, so they are one
choice of `e` that may happen at any moment of the wait, whether or not Omega
has the request.

Omega and the network are external: `OmegaScans` and `OmegaRejects` take an
attempt from `wire`, at any later time, in any order. `OmegaChecksNonce` says
whether Omega refuses a nonce it has processed; the repository does not settle
it, and what depends on it says so. `scans`, `failed` and `lastFailedAt` are
history.

The clock is the `time.time()` of the gate, and like there the host may set it
back (`SetBack`, by `MaxSetBack` ticks in all). That costs the breaker
precision, and the properties say how much: it stays open for longer, by no
more than the set-back (`OpenPeriodBounded`), and "before the breaker opened" is
true of a call up to the set-back (`NoCallSlipsIn`). With a clock that only
moves forward (`MaxSetBack` = 0) both bounds are exact. The other properties do
not depend on it.

### Connector

`Admit` joins a gate admission with the start of a call of Omega, `EndAttempt`
joins the end of an attempt with the response, since neither pair has an await
between its halves. `Decision` is the `try`/`except` of the handler:
`Normalized` for an answer `_normalize_response` can read, `Fallback` with the
reason of the error class otherwise. An answer of Omega is reduced to whether
it can be read (an object whose `risk_score` converts), its verdict as written,
its risk and identifiers. Both endpoints run the same code and differ in the
path; the debug switch is part of the gate. The gate's second reading of the
clock and a clock set back are `AuthGate`'s subject; here the clock is read
once per step and moves forward, for the gate and for the client alike. So what
`Connector` says of time is said for a forward clock; what it takes over from
its parts is proved of them for one that is set back.

`ScanContract` is what a caller may rely on, with no signatures, retries or
breaker in it: an accepted request has a job, Omega may scan it at any later
time, it is answered at most once, by Omega only after a scan of that very job,
else by the connector with the fail mode and marked as such, and never once the
process that held it is gone. `Contract` maps `Connector` to it: a job is a
call, its owner the request admitted with it, its reply the source and verdict
of the response, and lost are the calls a restart dropped. Admitting a
request the breaker refuses, or whose body cannot be encoded, is one step of
both: accepted and answered.

### TrustedFlow

`flow[s]` is one call of the hook with its stopwatch: idle, waiting, or ended
by a verdict (`released`, `review`, `stopped`) or by `ConnectorClientError`,
whose causes are told apart (`http_error`, `connection_lost`, `timed_out`,
`unreachable`). `handler[s]` is the connector's side of it: arriving, at work
on attempt n, answered, refused, or gone with its process. A handler here is
what `Connector` allows one to do to its caller, with time added: an attempt
ends within `AttemptLimit` = `WaitsPerAttempt` * `OMEGA_TIMEOUT_MS` (httpx
applies the timeout to each phase of a request), and the loop after
`RetryCount + 1` of them. `Overhead` bounds what comes before. `Tick` moves all
stopwatches by one and stops at a deadline until its timer has fired. There is
no clock that grows, so the state space needs no bound. `audit[s]` is the
logged decision; a handler logs and sends it whether its caller still waits or
not. That such a late decision changes nothing for the file is `EndedIsFinal`.
The gate, the breaker and the retry of a single scan are not repeated here.

### SmokePath

`run()` of `e2e_sgraph_real_path.py` and of
`e2e_sgraph_upstream_connector_path.py`, request by request. `store` is SGraph,
external: any request may fail, and a download may bring another transfer's
payload or noise. AES-GCM is perfect: only the scenario's fresh key opens its
payload, and only unchanged. An answer of the scan is whether it is a fallback
and its reasons; `Detected` is the script's test on the reasons. Omega's own
reasons may start with `omega_` too, which makes the script raise.

What is encrypted is the container of `SgMeta`: magic, length of the metadata
in four digits of base `Base` (256 in the code), metadata, file.
`Extract` takes every early return of `_extract_sgmeta_or_raw`. A file is a
sequence of bytes, because here the property is about the bytes.

### Settings

`env` is the environment the next start will see, edited by the operator at any
time; `settings` is what the running process read. A text is told apart by what
the code makes of it: `StripLower`, `IntOf` (a partial function: `int()` raises
outside of it) and `Items` are given as functions. A number that cannot be read
ends the start (`StartFails`). The comprehension that drops blank API keys is
written by rank (`NonBlank`): the k-th key is the item with k items that are not
blank up to it. `KeysAreTheItems` does not use ranks: it reads the keys off the
items from left to right. `startedWith` is history. `TypeOK` says that the
settings are what the other modules assume of their constants.

### LocalChecks, Qualification, Scripts

`LocalChecks` is both loops with their different manners: the health check
catches every exception and goes on, the smoke test catches none. `up` changes
between two requests. What exit code 0 of the smoke test is worth depends on
`--strict`: `ExitOkIsEarned` says what the code ensures with and without it,
`SmokePassMeansVerdicts` what the checklist expects of `make smoke`.
`Qualification` keeps every variable of `main()`; a
sample is any scenario with any answer and latency. A rate is compared as a
fraction and a percentile is kept times 100, so nothing is rounded; the code
computes both in floats. `sorted()` is written by rank too: the k-th value is
the one with fewer than k values below it and at least k up to it. `Scripts` lets the operator start one of the programs,
which share nothing, so that one run covers them.

## 3. Runs

Each `.cfg` names every bound. The clock bounds are `MaxNow`; the others are
set sizes.

| Run | Question | Instance |
|---|---|---|
| `gate_replay` | Can a request be admitted twice? Is a 409 ever wrong? | two ticks a second, skew 1 s, TTL 4 s, a clock that may be set back by a second in all, one entry of capacity, three honest requests (two with one replay key) and two forged ones; the clock runs to the end of every window and to the first expiry, with one tick of set-back less than would break it |
| `gate_refusals` | Do refused requests leave a trace? Do client and server agree on the signature? How large does the cache get, and whom does it cost a nonce? | HMAC on or off from start to start, seven requests, one change away from an honest one each, a padded tenant, three live replay keys for one entry of capacity; one tick a second and no skew, since the window is the subject of `gate_replay` |
| `gate_without_request_id` | finding: see below | |
| `gate_default_retention` | finding: see below | skew 1 s, TTL 2 s |
| `omega_calls` | Is the breaker what the fates of the calls say it is? How long does it stay open when the clock is set back? Are scans repeated, are outcomes true? | three calls of two attempts, two failures open the breaker for two ticks, so that a third call overlaps the opening or comes after it; one tick of set-back |
| `connector_end_to_end` | Is the contract kept, "allow" ever invented, anything scanned twice, anything unadmitted forwarded, anything admitted left unanswered? Can the breaker be set so that it does not work? | two calls, two requests repeated in time or too late, three kinds of answers, breaker set to zero failures and zero seconds, fairness below |
| `flow_decisions` | Is anything released that was not allowed? Does a late decision change what the hook did? Does a patient caller hear every decision? Does every hook end? | two scans, budget 5 ticks, caller's timeout 6: one tick less, or one attempt more, breaks it |
| `flow_default_timeouts` | finding: see below | the default timeouts in units of 5 s |
| `operator_scripts` | Is a saved end-to-end report about the scenarios' own files, and about no outage? What are exit code 0, the counters, the percentiles and GO worth? | bits for bytes, metadata of one, two and 15 bits, the last filling the four digits of the length field, files that are empty, begin like a container and are one; three services; up to three samples, of two latencies, with a rate limit of one half |
| `settings` | Can anything be relaxed by omission, or a number used that was not written? | one text of every kind the code tells apart, a list of keys with a blank item and a repeated one, six variables, at least one of every kind, three edits, any number of starts |
| `smoke_verdicts` | finding: see below | the instance of `operator_scripts` |
| `smoke_strict` | finding: see below | one scenario |

The instances are small but each contains what its question needs: a cache that
overflows, windows that end, a breaker that opens with calls in flight, an
attempt processed after its call gave up, a restart at any moment. The
properties proved below do not depend on the bounds at all.

`omega_calls` permutes the calls, which no action distinguishes (`SYMMETRY`);
the runs with a liveness property do without it. `Restart` is always possible,
so deadlock checking is on and has nothing to report: the service is never
finished. The scripts do finish, so `operator_scripts`, `smoke_verdicts` and
`smoke_strict` switch deadlock checking off.

The largest runs are `omega_calls` (1.6 million states) and `gate_replay` (0.7
million); each run takes at most three minutes with two workers.

Fairness. `FairSpec` of `Connector` assumes weak fairness of
the end of an attempt, for each call. The code justifies it: `httpx.Timeout`
bounds every phase of the POST. (A server that keeps sending single bytes can
stretch the read phase; the model does not count that as waiting for ever.)
Nothing is assumed of Omega, of arrivals, of restarts or of the clock.
`FairSpec` of `TrustedFlow` assumes that time passes and that timers fire: the
socket timeout given to `urlopen`, the timeouts of httpx, and an event loop
that turns to a request that has arrived. That the connector answers, lives or
is reached at all is not assumed.

### Disagreements

* `gate_without_request_id`: `docs/CONTRACT.md` says the canonical string
  holds the "empty string if absent in body" for `request_id`. The handler
  generates one first (`app.py:189`) and verifies against it, so a request
  without `request_id` signed as documented, and as `connector_client.py` signs
  it, is answered 401 `invalid_signature`.
* `gate_default_retention`: with `NONCE_TTL_SEC` = 2 * `MAX_CLOCK_SKEW_SEC`, as
  in the defaults, the window is one second longer than the life of the nonce,
  and a request stamped a full skew ahead is accepted twice. The test plan and
  the end-to-end tests expect 409 for as long as the timestamp is accepted. The
  condition under which the guarantee holds is `RetentionCoversWindow`, under
  which `gate_replay` checks it and `ReplayGuarantee` proves it.
* `flow_default_timeouts`: the SGraph client waits 30 seconds, the connector
  decides after up to three attempts of 15. `docs/CONTRACT.md` promises the
  SGraph flow a fallback decision when Omega fails; with an Omega that does not
  answer, the caller has left before it is made. The file is not released, but
  the verdict, its reason and the fail mode never reach the hook.
  `BudgetedCallerHears` states the timeout that would do.
* `smoke_strict`: `--strict-no-fallback` recognises fallbacks by the prefix
  `omega_` and so accepts `invalid_response`, the fourth of the reasons
  `docs/CONTRACT.md` lists.
* `smoke_verdicts`: `docs/INTEGRATION_ARCHITECTURE.md` makes "`make smoke` ->
  `allow`, `quarantine`, `block` scenarios pass" a Go/No-Go check. The Makefile
  runs `smoke_local.py` without `--strict`, and without it the script prints a
  verdict next to the expected one and does not compare them: it exits 0 with
  any three verdicts, three fallbacks included.

### Worth knowing

The properties had to be stated around these. They are not findings: we know of
no line of the repository that promises otherwise.

* A switch set to nothing is off, a number set to nothing is its default:
  `CONNECTOR_REQUIRE_HMAC=` turns signatures off. `RelaxedOnlyIfSet` therefore
  says "set" and not "set to off".
* GO does not look at the verdict matrix, and the exit code is 0 for NO-GO too.
  A request answered with an HTTP error is not a fallback, so `GoIsEarned` has
  to add the two rates. A request that is not answered at all ends the script
  without a report.
* `signature_helper.py` signs `tenant_id` and `request_id` as they are, while
  connector and client strip them: it cannot sign padded ones. The scripts'
  own payloads have no padding.

## 4. Proofs

Assumptions on constants are `GateConstants`, `OmegaConstants`,
`ConnectorConstants` (which contains the two), `FlowConstants`,
`SettingsConstants` and `ScriptConstants` (which contains those of the three
scripts): the types of the settings, finitely many calls, a positive clock
resolution and positive timeouts, a text that `int()` accepts not being blank,
files and metadata made of bytes, metadata that are JSON and whose length the
field can hold, latencies and limits that are numbers. TLC evaluates them in
every run.

`AuthGateProofs`

* `TypeCorrect`.
* `NoncesAreAdmitted` and `ReplaysAreReal` (no false 409) from
  `EntryFromAdmission`: every entry stems from an admission one TTL before its
  expiry.
* `ReplayGuarantee`: `ReplayOnlyIfForgotten` under `HmacSettings = {TRUE}`
  (no start of the process switches signatures off) and `RetentionCoversWindow`. The property says nothing of the cache, so it is not
  inductive. `KeyOutlivesWindow` is: every admitted request is past its window,
  however far the clock may still be set back (`Reserve`), or has an entry that
  outlives the window by `HandlingTicks` and by that reserve, or is forgotten.
  A step back lowers the clock and the reserve alike, so nothing that was past
  comes into reach again; `RetentionCoversWindow` asks for the retention that
  pays for both. A second admission finds the window open, so the entry is there
  and live at the second reading, so it must have been evicted in this step.
  `DivUpper` and `DivLower` turn the truncated seconds into ticks, and
  `WindowInTicks` gives the length of the window, 2 * skew + 1 seconds.
* `CacheIsBounded`, by the cardinality theorems of the library.
* `LiveKeysKeptWhileRoom`, an action property: a step that handles a request
  drops a live nonce only if `MaxEntries` others stay, and none of them expires
  sooner. `EvictedForRoom` is the arithmetic of the overflow. It is what the
  `forgotten` of the replay guarantee amounts to: to have a live nonce dropped,
  traffic has to fill the cache with admitted requests.
* `ClientIsUnderstood`: whatever a client signs with a
  `request_id`, the gate derives the same canonical fields (`SignedOnlyLate`),
  so that only its timestamp or a repetition can be held against it.

`OmegaClientProofs`

* `TypeCorrect`.
* `BreakerCorrect`: a call that fails now has not been counted before, because
  counted calls are done (`FailedAreDone`); so the counter is the number of
  failed calls.
* `NoneSlipsIn` and `OpenIsBounded` from `StartedBeforeOpening`: no time that was
  noted lies further in the future than the clock was set back. A step back
  lowers the clock and raises the set-back alike, so it keeps both.
* `BreakerAlwaysWorks`: `BreakerHoldsWhateverIsSet` speaks of the numbers as the
  operator wrote them, while the breaker uses them clamped. It follows from
  `BreakerCorrect` because the clamps never shorten the period to nothing and
  never ask for more failures than were written, one at least.
* `ScannedOnce` from `UnseenUnscanned`, and `OutcomesAreTrue` from `ScanTrail`,
  which follows a scan from the wire to the outcome.

`ConnectorProofs`

* `ImplementsParts`: `Spec => Gate!Spec /\ Omega!Spec`. Every joint step is a
  step of each part or leaves it alone, so the theorems of `AuthGateProofs` and
  `OmegaClientProofs` hold of the composition, and the proofs below cite them
  through the instances.
* `Served` is the invariant of the composition: a call has at most one request,
  admitted by the gate, and an idle call has none; a response is there exactly
  when the call is done, and it is the `Decision` of its outcome; two calls
  serve one request only if it was admitted twice.
* `OmegaServesTheAdmitted`, `NeverAllowsOnItsOwn` and `EndToEndOnce` follow from
  `Served` and from what the parts guarantee: `ScanTrail`, `AtMostOneScan` and
  `ReplayOnlyIfForgotten`. None of the three could be proved of either part.
* `BreakerWorksInside`: `BreakerAlwaysWorks` through the instance.
* `ContractKept`: `Connector` implements `ScanContract`. One lemma per action
  names the step of the contract it is: `Admit` is `Accept`, the end of an
  attempt is `Answer` or nothing, a scan by Omega is `Scan`, a restart is `Die`.

`SettingsProofs`

* `TypeCorrect`, `NothingRelaxedByOmission` and `NumbersAreUsed`, from
  `Loaded`: a process that serves holds `LoadSettings(startedWith)`, and
  `startedWith` did not raise. Without the second half nothing could be said of
  the `CHOOSE` that takes the number out of `AsInt`.
* `KeysAreThoseWritten`: the API keys are the items that are not blank, in their
  order and each as often as it was written, for every list of items: an
  increasing choice of places, which leaves out no item that is not blank. The
  ranks of the written items are shown to be all the
  numbers from 1 to their count (`PlacesNumbered`: an injection between finite
  sets of one size is onto), so every `CHOOSE` of `NonBlank` has its item.

`SmokePathProofs`

* `ExtractsWhatWasPacked`: `Extract(Package(meta, content))` is `meta` and
  `content`, for every file, every base and every metadata the field can hold.
  The four digits are taken apart and put together by division, digit by digit
  (`LengthRoundTrip`); the rest is arithmetic of sequences.
* `ReportIsOfTheScenariosHolds` and `StrictReportSawNoOutageHolds`, for any
  list of scenarios, from `SmokeInv`: the results so far are those of the
  scenarios so far, and after a decryption what is at hand is the container
  that was encrypted, because only that opens under the scenario's key.

`QualificationProofs`

* The order statistics come first. `RankExists`: for every list of numbers and
  every k up to its length some value has rank k, so `Sorted` is defined;
  `SortedInOrder`: it is in order. No induction over the list is needed: the
  value is the least one with k or more values up to it (`LeastNumber`, from
  the well-foundedness of the natural numbers, takes the place of induction).
* `PercentilesMonotone`: an interpolated percentile lies between two neighbours
  of the sorted list and grows with q; `PercentilesInOrderHolds` follows.
* `ReportCountsTheSamplesHolds` from `QualInv`: each counter is the number of
  samples of its kind in the history, by one lemma on what appending a sample
  does to such a number.
* `GoIsEarnedHolds`: what the absence of a blocker says about the samples.
  `FewAreSlow`: p95 below the limit means the value at its lower rank is, so no
  more samples are slow than come after that rank. `RatesAdd`: the two rates,
  one strict and one not, with their denominators of at least one.

`ScriptsProofs`

* `ImplementsParts`: a step of one script is no step of the others. The results
  above hold of the composition for that reason, under the names the run checks
  (`SavedReportIsOfTheScenarios` and so on).
* `ExitOkOfLocalChecks` from `LocalInv`: the loops have asked what precedes
  their position, in order; while no failure is noted, all of it answered; and
  the exit code is set from the failures once nothing is left to ask.

`TrustedFlowProofs`

* `TypeCorrect`.
* `ReleasesAreAllowed` from `ReleasedAnswered`: a released scan is answered for
  good, so its decision stays the one that was enforced.
* `EndsAreFinal`, an action property: no step changes a hook that has ended.
* `BudgetSuffices`: `BudgetedCallerHears` for all timeouts and retry counts.
  The property looks at two stopwatches that nothing relates directly.
  `WaitAccounted` does: the caller has waited no longer than the overhead, the
  attempts before the present one at their limit, and the time spent on this
  one. `WithinBudget` sums the attempts; a caller that reaches its timeout
  above the budget can then only be waiting for a process that is gone.

The inductive strengthenings of the gate, the client and the flow are defined at
the end of their modules, the others in the proof modules.

Only model-checked: `EveryAdmittedAnswered` and `EveryScanEnds`, because
liveness under fairness is out of the prover's reach. Every invariant and every
action property of a passing run is stated by a theorem. The properties of the
five violation runs are false, as those runs show.

## 5. Not modelled

* Audit lines, reasons, evidence ids, policy traces, error messages: no code
  reads them back.
* TLS options and `_detail_code`: they choose a transport and a text.
* Concurrency outside the event loop: the service runs one process without
  threads of its own. Several workers would each have a cache and a breaker.
* The secrets, URLs and paths among the settings: they are taken over as they
  are. The health endpoint: a constant answer.
* `perf_report.py` copies numbers of k6 into a table, the body size probes
  record what a third-party proxy answers, `preflight_upstream.py` looks at the
  text of a URL: no state, no order of steps, nothing that can interleave.
* Deployment and the OpenAPI file: configuration of other programs, and a
  schema.

## 6. Plan

Done: the core (gate, client, handlers), the contract they implement, the
caller, the settings, and the scripts an operator relies on. What would come
next:

1. An abstract breaker with a countdown, for recovery: Omega healthy again leads
   to a closed breaker.
2. A caller that repeats a scan that timed out, while the first one is still at
   work: two verdicts for one file.
