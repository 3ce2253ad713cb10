\* The algorithms under the codecs, from every small input.
SPECIFICATION MCSpec
CONSTANTS
    Parts = {"loops", "counts", "lists", "rps", "refs", "bytes", "sets"}
    Loops = {"drain", "bump", "window"}
    MaxEntries = 3
    MaxLimit = 3
    Values = {0, 1}
    MaxPoc = 10
    MaxZeros = 3
    MaxUnits = 6
    MaxVps = 2
    MaxSps = 2
    MaxPps = 2
INVARIANTS
    LoopsAgree
    CountsAreEncoders
    ListsAreEncoders
    SetsAreEncoders
    ListsAreStandards
    BytesArrive
PROPERTIES
    LoopsEnd
    SlicesReadAsWritten
CHECK_DEADLOCK FALSE
