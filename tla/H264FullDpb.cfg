\* A picture freed by memory management keeps its frame buffer.
SPECIFICATION MCSpec
CONSTANTS
    SpsSet <- AllSps
    Scenarios <- FreedPicture
INVARIANTS
    RefusedOnlyWhenInUse
CHECK_DEADLOCK FALSE
