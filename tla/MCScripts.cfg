SPECIFICATION Spec
CONSTANTS
    Magic <- MCMagic
    Base = 2
    IsJson <- MCIsJson
    Scenarios <- MCScenarios
    StrictNoFallback = TRUE
    OmegaReasons <- MCOmegaReasons
    StartsWithOmega <- MCStartsWithOmega
    Services <- MCServices
    Expected <- MCExpected
    VerdictTexts = {"allow", "quarantine", "block", "odd"}
    SampleCounts <- MCSampleCounts
    Latencies = {1, 3}
    SlowMs = 3
    RateScale = 2
INVARIANTS
    ReportIsOfTheScenarios
    StrictReportSawNoOutage
    ExitOkIsEarned
    ReportCountsTheSamples
    GoIsEarned
    PercentilesInOrder
CHECK_DEADLOCK FALSE
