\* A stream entered between two IDRs.
SPECIFICATION MCSpec
CONSTANTS
    SpsSet <- AllSps
    Scenarios <- MidStream
INVARIANTS
    MidStreamDecodes
CHECK_DEADLOCK FALSE
