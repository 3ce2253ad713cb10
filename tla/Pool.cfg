\* Pictures shared between threads, and the pool replaced under them.
SPECIFICATION MCSpec
CONSTANTS
    Surfaces = {s1, s2}
    Threads = {decoder, c1, c2}
    Owner = decoder
    Pools = {p1, p2}
    Capacity = 1
INVARIANTS
    TypeOK
    FreeUnheld
    HeldNotGone
    FreeWithinCapacity
    NoFreeLeftBehind
    NoMoreThanNeeded
PROPERTIES
    OrphansDestroyed
CHECK_DEADLOCK FALSE
