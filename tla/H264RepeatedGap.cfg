\* A gap in frame_num before pictures that are no references.
SPECIFICATION MCSpec
CONSTANTS
    SpsSet <- AllSps
    Scenarios <- GapBeforeNonRefs
PROPERTIES
    RefsAreEncoders
CHECK_DEADLOCK FALSE
