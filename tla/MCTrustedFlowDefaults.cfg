SPECIFICATION Spec
CONSTANTS
    Scans = {s1}
    CallerTimeout = 6
    OmegaTimeout = 3
    WaitsPerAttempt = 1
    RetryCount = 2
    Overhead = 0
    FailMode = "quarantine"
INVARIANTS
    NoTimeoutOnLiveConnector
