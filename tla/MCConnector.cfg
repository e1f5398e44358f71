SPECIFICATION FairSpec
CONSTANTS
    Requests <- MCRequests
    Texts <- MCTexts
    Strip <- MCStrip
    GeneratedId = "uuid"
    ApiKeyItems <- MCApiKeyItems
    NonAscii = {}
    NoKey = "none"
    ConnectorHmacSecret = "s"
    NoSecret = "empty"
    HmacSettings = {TRUE}
    DebugDocumentScan = FALSE
    MaxClockSkewSec = 0
    NonceTtlSec = 1
    MaxEntries = 1
    TicksPerSec = 1
    Calls = {c1, c2}
    OkBodies <- MCOkBodies
    OmegaRetryCount = 1
    OmegaBreakerFails = 0
    OmegaBreakerReset = 0
    OmegaChecksNonce = TRUE
    MaxNow = 2
    ConnectorFailMode = "quarantine"
    VerdictText <- MCVerdictText
INVARIANTS
    FailClosed
    ScannedAtMostOnce
    OnlyAdmittedReachOmega
    BreakerHoldsWhateverIsSet
PROPERTIES
    KeepsContract
    EveryAdmittedAnswered
