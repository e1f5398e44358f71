SPECIFICATION Spec
CONSTANTS
    Requests <- MCHonest
    Texts <- MCTexts
    Strip <- MCStrip
    GeneratedId = "uuid"
    ApiKeyItems <- MCApiKeyItems
    NonAscii = {"cle_accent"}
    NoKey = "none"
    ConnectorHmacSecret = "s"
    NoSecret = "empty"
    HmacSettings = {TRUE}
    DebugDocumentScan = FALSE
    MaxClockSkewSec = 1
    NonceTtlSec = 2
    MaxEntries = 3
    TicksPerSec = 2
    HandlingTicks = 0
    MaxSetBack = 0
    MaxNow = 10
INVARIANT
    ReplayOnlyIfForgotten
