--------------------------- MODULE VideoProcessor ---------------------------
(***************************************************************************)
(* The video processor of src/src/vpp.rs: a context per destination size,  *)
(* kept while its blits succeed, and per size the recycled surfaces that   *)
(* resize() writes into.                                                   *)
(*                                                                         *)
(* A call is one step, and `failed` names the call within it that fails:   *)
(* "none" is success.  Only the drop of a frame can come from elsewhere.   *)
(* A pool is that of SurfacePool with a capacity of one, its allocation    *)
(* and its return each in one step.                                        *)
(***************************************************************************)
EXTENDS Integers, FiniteSets, Functions

CONSTANTS
    Sizes,      \* the sizes of destinations
    MaxSurfaces \* bounds the surfaces that exist at once

ASSUME VppAssumption == MaxSurfaces \in Nat

VARIABLES
    contexts, \* Processor::contexts: whether a picture was left open on each
    surfaces, \* the surfaces of Processor::outputs: size, what it shows, free or not
    held,     \* the frames resize returned, by number: the surface of each
    blits     \* how many blits were begun, the number of the last

vppVars == <<contexts, surfaces, held, blits>>

VppInit ==
    /\ contexts = [s \in {} |-> FALSE]
    /\ surfaces = [s \in {} |-> 0]
    /\ held = [f \in {} |-> 0]
    /\ blits = 0

With(f, x, y) == [z \in DOMAIN f \cup {x} |-> IF z = x THEN y ELSE f[z]]
Without(f, x) == Restrict(f, DOMAIN f \ {x})

\* Where a blit can fail: the check of the displays, the making of a context,
\* then the calls of run_blit.
BlitFailures == {"display", "context", "buffer", "begin", "render", "end", "sync"}

\* vaBeginPicture went through and vaEndPicture did not.
LeftOpen(failed) == failed \in {"render", "end"}

\* Mutant: a context stays whatever happened on it.
BlitOnKept(size, failed) ==
    /\ failed = "context" => size \notin DOMAIN contexts
    /\ contexts' = IF failed \in {"display", "context"} THEN contexts
                   ELSE With(contexts, size, LeftOpen(failed))
    /\ blits' = blits + 1

\* Processor::blit: a context is made on first use, and goes with a blit that
\* failed.
BlitOn(size, failed) ==
    /\ failed = "context" => size \notin DOMAIN contexts
    /\ contexts' = CASE failed = "none"                   -> With(contexts, size, FALSE)
                     [] failed \in {"display", "context"} -> contexts
                     [] OTHER                             -> Without(contexts, size)
    /\ blits' = blits + 1

\* blit(), and retile(), whose destination is new each time.
Blit(size, failed) ==
    /\ BlitOn(size, failed)
    /\ UNCHANGED <<surfaces, held>>

Free(size) == {s \in DOMAIN surfaces : surfaces[s].size = size /\ surfaces[s].free}

\* SurfacePool::alloc for this size: a free surface, or a new one.
Allocatable(size) ==
    IF Free(size) # {} THEN Free(size)
    ELSE {s \in 1 .. MaxSurfaces : DOMAIN surfaces \cap 1 .. s = 1 .. s - 1}

\* Mutant: the pool keeps a surface it has lent, for the next call to find.
LentNotTaken(size, s, shows) == With(surfaces, s, [size |-> size, shows |-> shows, free |-> TRUE])

Lent(size, s, shows) == With(surfaces, s, [size |-> size, shows |-> shows, free |-> FALSE])

\* The drop of a surface on loan: one is kept per size, another destroyed.
GivenBack(size, s, shows) ==
    IF Free(size) \ {s} = {} THEN With(surfaces, s, [size |-> size, shows |-> shows, free |-> TRUE])
    ELSE Without(surfaces, s)

\* Processor::resize: the surface goes back unless a frame that holds it is
\* returned.  A blit that failed at its end may have written it.
Resize(size, failed) ==
    \/ /\ failed = "alloc"
       /\ Free(size) = {}
       /\ UNCHANGED vppVars
    \/ /\ failed # "alloc"
       /\ BlitOn(size, IF failed = "export" THEN "none" ELSE failed)
       /\ \E s \in Allocatable(size) :
             LET before == IF s \in DOMAIN surfaces THEN surfaces[s].shows ELSE 0
             IN  \E shows \in CASE failed \in {"none", "export"} -> {blits'}
                                [] failed \in {"end", "sync"}    -> {before, blits'}
                                [] OTHER                         -> {before} :
                    IF failed = "none"
                    THEN /\ surfaces' = Lent(size, s, shows)
                         /\ held' = With(held, blits', s)
                    ELSE /\ surfaces' = GivenBack(size, s, shows)
                         /\ UNCHANGED held

\* The last reference to a frame drops, on whichever thread.
DropFrame(f) ==
    /\ surfaces' = GivenBack(surfaces[held[f]].size, held[f], surfaces[held[f]].shows)
    /\ held' = Without(held, f)
    /\ UNCHANGED <<contexts, blits>>

VppNext ==
    \/ \E size \in Sizes : \E failed \in BlitFailures \cup {"none"} : Blit(size, failed)
    \/ \E size \in Sizes : \E failed \in BlitFailures \cup {"none", "alloc", "export"} : Resize(size, failed)
    \/ \E f \in DOMAIN held : DropFrame(f)

VppSpec == VppInit /\ [][VppNext]_vppVars

-----------------------------------------------------------------------------

\* No blit starts on a context another left in the middle of a picture.
ContextsWhole == \A size \in DOMAIN contexts : ~contexts[size]

\* "A frame still held is never written over": each shows what its own blit
\* wrote, also after calls that failed and frames dropped in any order.
HeldFramesKept ==
    \A f \in DOMAIN held :
        held[f] \in DOMAIN surfaces /\ surfaces[held[f]].shows = f /\ ~surfaces[held[f]].free
=============================================================================
