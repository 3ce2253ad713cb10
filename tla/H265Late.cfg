\* Pictures that overstay the latency limit.
SPECIFICATION MCSpec
CONSTANTS
    SpsSet <- AllSps
    Scenarios <- Late
INVARIANTS
    OutputIncreasing
CHECK_DEADLOCK FALSE
