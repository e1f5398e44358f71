SPECIFICATION Spec
CONSTANTS
    Requests <- MCRefusals
    Texts <- MCTexts
    Strip <- MCStrip
    GeneratedId = "uuid"
    ApiKeyItems <- MCApiKeyItems
    NonAscii = {"cle_accent"}
    NoKey = "none"
    ConnectorHmacSecret = "s"
    NoSecret = "empty"
    HmacSettings = {TRUE, FALSE}
    DebugDocumentScan = FALSE
    MaxClockSkewSec = 0
    NonceTtlSec = 4
    MaxEntries = 1
    TicksPerSec = 1
    HandlingTicks = 1
    MaxSetBack = 0
    MaxNow = 2
INVARIANTS
    TypeOK
    NonceOnlyByAdmitted
    SignedRequestUnderstood
    CacheBounded
PROPERTY
    LiveKeysGoForRoomOnly
