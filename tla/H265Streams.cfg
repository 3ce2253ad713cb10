\* Random access, wrapping order counts, faults.
SPECIFICATION MCSpec
CONSTANTS
    SpsSet <- AllSps
    Scenarios <- Streams
INVARIANTS
    TypeOK
    DpbWithinSequence
    BumpFindsWaiting
    NeverRefused
    SegmentsOfOnePicture
    OutputIncreasing
    RefsAreEncoders
PROPERTIES
    OutputInOrder
    BumpingEnds
CHECK_DEADLOCK FALSE
