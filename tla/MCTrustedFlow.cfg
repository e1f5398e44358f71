SPECIFICATION FairSpec
CONSTANTS
    Scans = {s1, s2}
    CallerTimeout = 6
    OmegaTimeout = 1
    WaitsPerAttempt = 2
    RetryCount = 1
    Overhead = 1
    FailMode = "quarantine"
INVARIANTS
    TypeOK
    ReleasedOnlyIfAllowed
    BudgetedCallerHears
PROPERTIES
    
    EveryScanEnds
