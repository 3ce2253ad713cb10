\* Payloads with zero bytes in a row as they come.
SPECIFICATION MCSpec
CONSTANTS
    Parts = {"bytes"}
    Loops = {"drain", "bump", "window"}
    MaxEntries = 3
    MaxLimit = 3
    Values = {0, 1}
    MaxPoc = 20
    MaxZeros = 5
    MaxUnits = 6
    MaxVps = 2
    MaxSps = 2
    MaxPps = 2
INVARIANTS
    BytesArrive
CHECK_DEADLOCK FALSE
