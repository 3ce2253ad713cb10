---------------------------- MODULE SurfacePool ----------------------------
(***************************************************************************)
(* The recycling pools of src/src/pool.rs.  The decoder's thread allocates *)
(* surfaces from the pool of its sequence and replaces that pool when the  *)
(* format changes; the pictures it hands out (ExportedFrame) are shared    *)
(* and dropped on any thread, each drop racing the decoder and the others. *)
(*                                                                         *)
(* An Arc<PooledSurface> is the set of threads that hold a clone.  The     *)
(* drop of the last one runs PooledSurface::drop, which takes one step     *)
(* where another thread can see it: Weak::upgrade, the push under the      *)
(* lock, and the end of the function, where its Arc<FreeList> goes.        *)
(*                                                                         *)
(* A free list is a set: pop() gives the surface pushed last, the model    *)
(* any of them.                                                            *)
(***************************************************************************)
EXTENDS Integers, FiniteSets

CONSTANTS
    Surfaces, \* the surfaces the driver can create
    Threads,  \* the threads that hold pictures
    Owner,    \* the decoder's thread, which alone allocates
    Pools,    \* the pools, one for each sequence of the stream
    Capacity  \* FreeList::capacity

ASSUME OwnerAssumption == Owner \in Threads
ASSUME SurfacesAssumption == IsFiniteSet(Surfaces)
ASSUME CapacityAssumption == Capacity \in Nat \ {0}

VARIABLES
    pool,    \* the pool of the active sequence, as a set of at most one
    unused,  \* the pools no sequence had yet
    free,    \* FreeList::surfaces of each pool
    home,    \* the pool each surface was allocated from
    holders, \* the threads with a clone of the surface's Arc
    doing,   \* where each thread is in alloc() or in PooledSurface::drop
    created, \* the surfaces the driver created
    gone     \* those it destroyed

vars == <<pool, unused, free, home, holders, doing, created, gone>>

Idle == [at |-> "idle", surface |-> {}, list |-> {}]
At(at, surface, list) == [at |-> at, surface |-> surface, list |-> list]

Init ==
    /\ pool = {}
    /\ unused = Pools
    /\ free = [p \in Pools |-> {}]
    /\ home = [s \in Surfaces |-> {}]
    /\ holders = [s \in Surfaces |-> {}]
    /\ doing = [t \in Threads |-> Idle]
    /\ created = {}
    /\ gone = {}

\* The Arc<FreeList> of p is held by the pool itself and by a drop between its
\* upgrade and its end.
HeldBy(p, t) == doing[t].at \in {"return", "end"} /\ doing[t].list = {p}
Alive(p) == p \in pool \/ \E t \in Threads : HeldBy(p, t)

-----------------------------------------------------------------------------
(* SurfacePool *)

\* Mutant: the surfaces that were free are left to themselves.
ReplacePoolLeaking(new) ==
    /\ doing[Owner] = Idle
    /\ pool \cup new # {}
    /\ new \subseteq unused
    /\ pool' = new
    /\ unused' = unused \ new
    /\ UNCHANGED <<free, home, holders, doing, created, gone>>

\* Sequence::new, and the drop of the Sequence it replaces (`new` is empty
\* when the decoder itself is dropped).  The last Arc<FreeList> takes the free
\* surfaces with it.
ReplacePool(new) ==
    LET dead == {p \in pool : \A t \in Threads : ~HeldBy(p, t)}
    IN  /\ doing[Owner] = Idle
        /\ pool \cup new # {}
        /\ new \subseteq unused
        /\ pool' = new
        /\ unused' = unused \ new
        /\ gone' = gone \cup UNION {free[p] : p \in dead}
        /\ free' = [p \in Pools |-> IF p \in dead THEN {} ELSE free[p]]
        /\ UNCHANGED <<home, holders, doing, created>>

\* Mutant: the surface is read from the list and stays there.
RecycleInPlace(s) ==
    /\ doing[Owner] = Idle
    /\ \E p \in pool : s \in free[p]
    /\ holders' = [holders EXCEPT ![s] = {Owner}]
    /\ UNCHANGED <<pool, unused, free, home, doing, created, gone>>

\* alloc: pop() finds a surface.
Recycle(s) ==
    /\ doing[Owner] = Idle
    /\ \E p \in pool :
          /\ s \in free[p]
          /\ free' = [free EXCEPT ![p] = @ \ {s}]
    /\ holders' = [holders EXCEPT ![s] = {Owner}]
    /\ UNCHANGED <<pool, unused, home, doing, created, gone>>

\* Mutant: a surface is created although one is free.
MissAlways ==
    /\ doing[Owner] = Idle
    /\ \E p \in pool : doing' = [doing EXCEPT ![Owner] = At("create", {}, {p})]
    /\ UNCHANGED <<pool, unused, free, home, holders, created, gone>>

\* alloc: pop() finds none, and the lock is let go of.
Miss ==
    /\ doing[Owner] = Idle
    /\ \E p \in pool :
          /\ free[p] = {}
          /\ doing' = [doing EXCEPT ![Owner] = At("create", {}, {p})]
    /\ UNCHANGED <<pool, unused, free, home, holders, created, gone>>

\* Mutant: the new surface is not counted.
CreateUncounted(s) ==
    /\ doing[Owner].at = "create"
    /\ s \in Surfaces \ created
    /\ home' = [home EXCEPT ![s] = doing[Owner].list]
    /\ holders' = [holders EXCEPT ![s] = {Owner}]
    /\ doing' = [doing EXCEPT ![Owner] = Idle]
    /\ UNCHANGED <<pool, unused, free, created, gone>>

\* alloc: the surface is created, whatever came back in the meantime.
Create(s) ==
    /\ doing[Owner].at = "create"
    /\ s \in Surfaces \ created
    /\ created' = created \cup {s}
    /\ home' = [home EXCEPT ![s] = doing[Owner].list]
    /\ holders' = [holders EXCEPT ![s] = {Owner}]
    /\ doing' = [doing EXCEPT ![Owner] = Idle]
    /\ UNCHANGED <<pool, unused, free, gone>>

\* alloc: the driver has no surface to give.
CreateFails ==
    /\ doing[Owner].at = "create"
    /\ doing' = [doing EXCEPT ![Owner] = Idle]
    /\ UNCHANGED <<pool, unused, free, home, holders, created, gone>>

\* PooledSurface::unpooled: a thread wraps a surface of its own.
Wrap(t, s) ==
    /\ doing[t] = Idle
    /\ s \in Surfaces \ created
    /\ created' = created \cup {s}
    /\ holders' = [holders EXCEPT ![s] = {t}]
    /\ UNCHANGED <<pool, unused, free, home, doing, gone>>

-----------------------------------------------------------------------------
(* Arc<PooledSurface> *)

\* Arc::clone, sent to thread u.
Share(t, u, s) ==
    /\ doing[t] = Idle
    /\ t \in holders[s]
    /\ u \notin holders[s]
    /\ holders' = [holders EXCEPT ![s] = @ \cup {u}]
    /\ UNCHANGED <<pool, unused, free, home, doing, created, gone>>

\* Mutant: every clone that is dropped gives the surface back.
ReleaseEach(t, s) ==
    /\ doing[t] = Idle
    /\ t \in holders[s]
    /\ holders' = [holders EXCEPT ![s] = @ \ {t}]
    /\ doing' = [doing EXCEPT ![t] = At("upgrade", {s}, home[s])]
    /\ UNCHANGED <<pool, unused, free, home, created, gone>>

\* A clone is dropped; the last one starts PooledSurface::drop.
Release(t, s) ==
    /\ doing[t] = Idle
    /\ t \in holders[s]
    /\ holders' = [holders EXCEPT ![s] = @ \ {t}]
    /\ doing' = IF holders[s] = {t}
                THEN [doing EXCEPT ![t] = At("upgrade", {s}, home[s])]
                ELSE doing
    /\ UNCHANGED <<pool, unused, free, home, created, gone>>

\* Weak::upgrade.  A surface whose pool is no more is destroyed.
Upgrade(t) ==
    /\ doing[t].at = "upgrade"
    /\ IF \E p \in doing[t].list : Alive(p)
       THEN /\ doing' = [doing EXCEPT ![t].at = "return"]
            /\ UNCHANGED gone
       ELSE /\ doing' = [doing EXCEPT ![t] = Idle]
            /\ gone' = gone \cup doing[t].surface
    /\ UNCHANGED <<pool, unused, free, home, holders, created>>

\* Mutant: a surface too many is kept.
ReturnPastCapacity(t) ==
    /\ doing[t].at = "return"
    /\ \E p \in doing[t].list :
          IF Cardinality(free[p]) <= Capacity
          THEN /\ free' = [free EXCEPT ![p] = @ \cup doing[t].surface]
               /\ doing' = [doing EXCEPT ![t] = At("end", {}, @.list)]
          ELSE /\ doing' = [doing EXCEPT ![t].at = "end"]
               /\ UNCHANGED free
    /\ UNCHANGED <<pool, unused, home, holders, created, gone>>

\* Under the lock: the surface is pushed if there is room for it.
Return(t) ==
    /\ doing[t].at = "return"
    /\ \E p \in doing[t].list :
          IF Cardinality(free[p]) < Capacity
          THEN /\ free' = [free EXCEPT ![p] = @ \cup doing[t].surface]
               /\ doing' = [doing EXCEPT ![t] = At("end", {}, @.list)]
          ELSE /\ doing' = [doing EXCEPT ![t].at = "end"]
               /\ UNCHANGED free
    /\ UNCHANGED <<pool, unused, home, holders, created, gone>>

\* Mutant: the list of a replaced pool is left as it is.
EndLeavingList(t) ==
    /\ doing[t].at = "end"
    /\ doing' = [doing EXCEPT ![t] = Idle]
    /\ gone' = gone \cup doing[t].surface
    /\ UNCHANGED <<pool, unused, free, home, holders, created>>

\* The locals go: the Arc<FreeList>, with the list if it was the last, then
\* the surface there was no room for.
End(t) ==
    LET last == {p \in doing[t].list \ pool : \A u \in Threads \ {t} : ~HeldBy(p, u)}
    IN  /\ doing[t].at = "end"
        /\ doing' = [doing EXCEPT ![t] = Idle]
        /\ gone' = gone \cup doing[t].surface \cup UNION {free[p] : p \in last}
        /\ free' = [p \in Pools |-> IF p \in last THEN {} ELSE free[p]]
        /\ UNCHANGED <<pool, unused, home, holders, created>>

Drop(t) == Upgrade(t) \/ Return(t) \/ End(t)

Next ==
    \/ \E p \in Pools : ReplacePool({p})
    \/ ReplacePool({})
    \/ \E s \in Surfaces : Recycle(s) \/ Create(s)
    \/ Miss
    \/ CreateFails
    \/ \E t \in Threads, s \in Surfaces :
          Wrap(t, s) \/ Release(t, s) \/ \E u \in Threads : Share(t, u, s)
    \/ \E t \in Threads : Drop(t)

Spec == Init /\ [][Next]_vars

\* A thread that started to drop a surface gets to the end of the function.
Fairness == \A t \in Threads : WF_vars(Drop(t))

-----------------------------------------------------------------------------
(* Properties *)

Doing ==
    [at : {"idle", "create", "upgrade", "return", "end"},
     surface : SUBSET Surfaces, list : SUBSET Pools]

TypeOK ==
    /\ pool \subseteq Pools
    /\ unused \subseteq Pools
    /\ free \in [Pools -> SUBSET Surfaces]
    /\ home \in [Surfaces -> SUBSET Pools]
    /\ holders \in [Surfaces -> SUBSET Threads]
    /\ doing \in [Threads -> Doing]
    /\ created \subseteq Surfaces
    /\ gone \subseteq created

\* A surface that can be handed out again is one nobody reads: no thread holds
\* it, none is still dropping it, it was not destroyed, and it is of the size
\* of the pool it is in.  "A picture a consumer holds is never written over."
FreeUnheld ==
    \A p \in Pools : \A s \in free[p] :
        /\ holders[s] = {}
        /\ \A t \in Threads : s \notin doing[t].surface
        /\ s \in created \ gone
        /\ home[s] = {p}

\* A surface is not destroyed under a consumer, whatever became of its pool.
HeldNotGone == \A s \in Surfaces : holders[s] # {} => s \in created \ gone

\* "The pool keeps at most capacity surfaces free", however many come back at
\* the same time.
FreeWithinCapacity == \A p \in Pools : Cardinality(free[p]) <= Capacity

\* A free list nobody can reach is empty: its surfaces went with it.
NoFreeLeftBehind == \A p \in Pools : ~Alive(p) => free[p] = {}

\* "A surface that outlives its pool is destroyed": once its last clone is
\* dropped, also when the pool is replaced in the middle of the drop.
OrphansDestroyed ==
    \A s \in Surfaces :
        (s \in created /\ holders[s] = {} /\ home[s] \cap pool = {}) ~> s \in gone
=============================================================================
