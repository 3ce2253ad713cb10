\* Two key frames in a row.
SPECIFICATION MCSpec
CONSTANTS
    Uses = {"encode"}
    Attempts = 5
    Failures = 2
    Blits = 3
    Gop = 3
    Limit = 2
    PocLsb = 2
    Rates = {0, 8, 40}
    MinCoded = 2
    EncodeSize = "large"
    Sizes <- Sizes2
    MaxSurfaces = 4
INVARIANTS
    IdrPicIdsDiffer
CHECK_DEADLOCK FALSE
