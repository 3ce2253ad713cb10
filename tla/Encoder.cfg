\* Pictures, failures, bitrates, conversions.
SPECIFICATION MCSpec
CONSTANTS
    Uses = {"encode", "process"}
    Attempts = 5
    Failures = 2
    Blits = 3
    Gop = 3
    Limit = 2
    PocLsb = 2
    Rates = {0, 8, 40}
    MinCoded = 2
    EncodeSize = "large"
    Sizes <- Sizes2
    MaxSurfaces = 4
INVARIANTS
    TypeOK
    StreamContinues
    OrderCountsArrive
    KeyFrameOwed
    KeyFrameInterval
    RateFollows
    ContextsWhole
    HeldFramesKept
CHECK_DEADLOCK FALSE
