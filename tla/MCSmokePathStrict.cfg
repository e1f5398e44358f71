SPECIFICATION Spec
CONSTANTS
    Scenarios <- MCOneScenario
    Magic <- MCMagic
    Base = 2
    IsJson <- MCIsJson
    StrictNoFallback = TRUE
    OmegaReasons <- MCOmegaReasons
    StartsWithOmega <- MCStartsWithOmega
INVARIANTS
    StrictReportHasNoFallback
CHECK_DEADLOCK FALSE
