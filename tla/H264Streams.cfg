\* Sliding window, losses, changes of format, adaptive reference marking.
SPECIFICATION MCSpec
CONSTANTS
    SpsSet <- AllSps
    Scenarios <- Streams
INVARIANTS
    TypeOK
    DpbWithinSequence
    NeverRefusedSliding
    FrameNumUniqueSliding
    LongTermFrameIdxUnique
PROPERTIES
    SlicesOfOnePicture
    RefsAreEncoders
    OutputInOrder
CHECK_DEADLOCK FALSE
