SPECIFICATION Spec
CONSTANTS
    Requests <- MCWithoutId
    Texts <- MCTexts
    Strip <- MCStrip
    GeneratedId = "uuid"
    ApiKeyItems <- MCApiKeyItems
    NonAscii = {"cle_accent"}
    NoKey = "none"
    ConnectorHmacSecret = "s"
    NoSecret = "empty"
    HmacSettings = {TRUE}
    DebugDocumentScan = FALSE
    MaxClockSkewSec = 1
    NonceTtlSec = 4
    MaxEntries = 1
    TicksPerSec = 2
    HandlingTicks = 1
    MaxSetBack = 1
    MaxNow = 10
INVARIANT
    SignedWithoutIdUnderstood
