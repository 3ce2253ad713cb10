\* A lost picture moves the order counts onto those of long-term references.
SPECIFICATION MCSpec
CONSTANTS
    SpsSet <- AllSps
    Scenarios <- Drifted
INVARIANTS
    EachPictureOnce
CHECK_DEADLOCK FALSE
