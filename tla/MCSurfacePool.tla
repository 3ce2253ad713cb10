--------------------------- MODULE MCSurfacePool ---------------------------
(***************************************************************************)
(* Instances of SurfacePool, with the most surfaces of a pool that ever    *)
(* were in use at the same time.                                           *)
(***************************************************************************)
EXTENDS SurfacePool

\* What is in use can be counted.
ASSUME ThreadsAssumption == IsFiniteSet(Threads)

VARIABLE peak \* history: for each pool, the most surfaces in use at once

mcvars == <<vars, peak>>

\* The surfaces of pool p that there are, and those that are held.
Live(p) == {s \in created \ gone : home[s] = {p}}
Held(p) == {s \in Surfaces : home[s] = {p} /\ holders[s] # {}}

\* The threads on which one of them is on its way back, or is being created.
Busy(p) ==
    {t \in Threads : /\ doing[t].at # "idle" /\ doing[t].list = {p}
                     /\ doing[t].surface # {} \/ doing[t].at = "create"}

InUse(p) == Cardinality(Held(p)) + Cardinality(Busy(p))

MCInit == Init /\ peak = [p \in Pools |-> 0]
MCNext ==
    /\ Next
    /\ peak' = [p \in Pools |-> IF InUse(p)' > peak[p] THEN InUse(p)' ELSE peak[p]]
MCSpec == MCInit /\ [][MCNext]_mcvars /\ Fairness

\* A pool has at most as many surfaces as were in use at the same time, however
\* the drops race the allocations: "one a consumer has let go of is written
\* into again rather than replaced by a fresh allocation".
NoMoreThanNeeded == \A p \in Pools : Cardinality(Live(p)) <= peak[p]
=============================================================================
