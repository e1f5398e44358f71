SPECIFICATION Spec
CONSTANTS
    Calls = {c1, c2, c3}
    OkBodies = {"verdict"}
    OmegaRetryCount = 1
    OmegaBreakerFails = 2
    OmegaBreakerReset = 2
    OmegaChecksNonce = TRUE
    MaxSetBack = 1
    MaxNow = 2
SYMMETRY MCSymmetry
INVARIANTS
    TypeOK
    OpenPeriodBounded
    BreakerFollowsCalls
    NoCallSlipsIn
    AtMostOneScan
    OutcomeTellsScan
