------------------------- MODULE SurfacePoolProofs -------------------------
(***************************************************************************)
(* The safety of SurfacePool for any number of surfaces, threads and pools *)
(* and any capacity.  The invariants of the module follow from one that    *)
(* says, of each surface on its way back, that its thread is the only one  *)
(* to know it and that it goes where it came from.                         *)
(***************************************************************************)
EXTENDS MCSurfacePool, FiniteSetTheorems, TLAPS

\* The active sequence has one pool, which no other ever had, and a surface
\* comes from one.
OnePool ==
    /\ \A p, q \in pool : p = q
    /\ pool \cap unused = {}
    /\ \A s \in Surfaces : \A p, q \in home[s] : p = q

\* What each thread holds in alloc() or in a drop, by where it is there.
Stages ==
    \A t \in Threads :
        /\ doing[t].at \in {"idle", "create"} => doing[t].surface = {}
        /\ doing[t].at \in {"upgrade", "return"} => \E s \in Surfaces : doing[t].surface = {s}
        /\ doing[t].at \in {"create", "return", "end"} => \E p \in Pools : doing[t].list = {p}

\* A surface on its way back is known to one thread only.
Dropped ==
    \A t \in Threads : \A s \in doing[t].surface :
        /\ holders[s] = {}
        /\ s \in created \ gone
        /\ home[s] = doing[t].list
        /\ \A u \in Threads \ {t} : s \notin doing[u].surface

IInv ==
    /\ TypeOK
    /\ OnePool
    /\ Stages
    /\ Dropped
    /\ FreeUnheld
    /\ HeldNotGone

-----------------------------------------------------------------------------
(* The type invariant and the inductive invariant *)

\* The inductive invariant holds of a decoder that has no sequence yet.
LEMMA InitIInv == Init => IInv
  <1> SUFFICES ASSUME Init PROVE IInv
    OBVIOUS
  <1>1. TypeOK
    BY DEF Init, TypeOK, Doing, Idle
  <1>2. OnePool /\ Stages /\ Dropped
    BY DEF Init, OnePool, Stages, Dropped, Idle
  <1>3. FreeUnheld /\ HeldNotGone
    BY DEF Init, FreeUnheld, HeldNotGone
  <1> QED
    BY <1>1, <1>2, <1>3 DEF IInv

\* Replacing the pool (apply_sps) keeps the inductive invariant.
LEMMA ReplacePoolIInv ==
  ASSUME IInv, NEW new \in SUBSET Pools, \A p, q \in new : p = q, ReplacePool(new)
  PROVE  IInv'
  <1> DEFINE dead == {p \in pool : \A t \in Threads : ~HeldBy(p, t)}
  <1>1. /\ pool' = new /\ unused' = unused \ new
        /\ gone' = gone \cup UNION {free[p] : p \in dead}
        /\ free' = [p \in Pools |-> IF p \in dead THEN {} ELSE free[p]]
        /\ UNCHANGED <<home, holders, doing, created>>
    BY DEF ReplacePool
  <1>2. \A p \in dead : p \in Pools /\ free[p] \subseteq created
    BY DEF IInv, TypeOK, FreeUnheld
  <1> HIDE DEF dead
  <1>3. \A s \in gone' \ gone : \E p \in Pools : p \in dead /\ s \in free[p]
    BY <1>1, <1>2
  <1>4. TypeOK'
    BY <1>1, <1>2 DEF IInv, TypeOK
  <1>5. OnePool' /\ Stages'
    BY <1>1 DEF IInv, OnePool, Stages, TypeOK
  <1>6. Dropped'
    BY <1>1, <1>3 DEF IInv, Dropped, FreeUnheld
  <1>7. FreeUnheld'
    <2> SUFFICES ASSUME NEW p \in Pools, NEW s \in free[p], p \notin dead
                 PROVE  s \notin gone'
      BY <1>1 DEF IInv, FreeUnheld
    <2> QED
      BY <1>3 DEF IInv, FreeUnheld
  <1>8. HeldNotGone'
    BY <1>1, <1>3 DEF IInv, HeldNotGone, FreeUnheld
  <1> QED
    BY <1>4, <1>5, <1>6, <1>7, <1>8 DEF IInv

\* A recycled surface leaves the free list for its one holder.
LEMMA RecycleIInv ==
  ASSUME IInv, NEW s \in Surfaces, Recycle(s)
  PROVE  IInv'
  <1> PICK p \in pool : /\ s \in free[p]
                        /\ free' = [free EXCEPT ![p] = @ \ {s}]
    BY DEF Recycle
  <1>1. /\ p \in Pools
        /\ doing[Owner] = Idle
        /\ holders' = [holders EXCEPT ![s] = {Owner}]
        /\ UNCHANGED <<pool, unused, home, doing, created, gone>>
    BY DEF Recycle, IInv, TypeOK
  <1>2. /\ s \in created \ gone /\ home[s] = {p}
        /\ \A t \in Threads : s \notin doing[t].surface
        /\ \A q \in Pools : s \in free[q] => q = p
    BY <1>1 DEF IInv, FreeUnheld
  <1>3. TypeOK'
    BY <1>1, OwnerAssumption DEF IInv, TypeOK
  <1>4. OnePool' /\ Stages'
    BY <1>1 DEF IInv, OnePool, Stages
  <1>5. Dropped'
    BY <1>1, <1>2 DEF IInv, Dropped, TypeOK, Doing
  <1>6. FreeUnheld'
    BY <1>1, <1>2 DEF IInv, FreeUnheld, TypeOK
  <1>7. HeldNotGone'
    BY <1>1, <1>2 DEF IInv, HeldNotGone, TypeOK
  <1> QED
    BY <1>3, <1>4, <1>5, <1>6, <1>7 DEF IInv

\* A pop that finds nothing changes only where the decoder's thread is.
LEMMA MissIInv ==
  ASSUME IInv, Miss
  PROVE  IInv'
  <1> PICK p \in pool : doing' = [doing EXCEPT ![Owner] = At("create", {}, {p})]
    BY DEF Miss
  <1>1. /\ p \in Pools /\ doing[Owner] = Idle
        /\ UNCHANGED <<pool, unused, free, home, holders, created, gone>>
    BY DEF Miss, IInv, TypeOK
  <1>2. /\ doing' \in [Threads -> Doing]
        /\ \A t \in Threads : doing'[t] = IF t = Owner THEN At("create", {}, {p}) ELSE doing[t]
        /\ \A t \in Threads : doing'[t].surface = doing[t].surface
    <2>1. At("create", {}, {p}) \in Doing
      BY <1>1 DEF Doing, At
    <2>2. \A t \in Threads : doing'[t] = IF t = Owner THEN At("create", {}, {p}) ELSE doing[t]
      BY DEF IInv, TypeOK
    <2>3. \A t \in Threads : doing'[t].surface = doing[t].surface
      BY <1>1, <2>2 DEF At, Idle
    <2> QED
      BY <2>1, <2>2, <2>3 DEF IInv, TypeOK
  <1>3. Stages'
    BY <1>1, <1>2 DEF IInv, Stages, At
  <1>4. Dropped'
    BY <1>1, <1>2 DEF IInv, Dropped, At, Idle
  <1> QED
    BY ZenonT(60), <1>1, <1>2, <1>3, <1>4 DEF IInv, TypeOK, OnePool, FreeUnheld, HeldNotGone

\* A created surface is new: it is in no list and on no thread.
LEMMA CreateIInv ==
  ASSUME IInv, NEW s \in Surfaces, Create(s)
  PROVE  IInv'
  <1>1. /\ doing[Owner].at = "create" /\ s \notin created
        /\ created' = created \cup {s}
        /\ home' = [home EXCEPT ![s] = doing[Owner].list]
        /\ holders' = [holders EXCEPT ![s] = {Owner}]
        /\ doing' = [doing EXCEPT ![Owner] = Idle]
        /\ UNCHANGED <<pool, unused, free, gone>>
    BY DEF Create
  <1>2. /\ \A p \in Pools : s \notin free[p]
        /\ \A t \in Threads : s \notin doing[t].surface
        /\ s \notin gone
    BY <1>1 DEF IInv, FreeUnheld, Dropped, TypeOK
  <1>3. \A t \in Threads : /\ doing'[t] = IF t = Owner THEN Idle ELSE doing[t]
                           /\ doing'[t].surface = doing[t].surface
    BY <1>1, OwnerAssumption DEF IInv, TypeOK, Stages, Doing, Idle
  <1>4. TypeOK'
    BY <1>1, OwnerAssumption DEF IInv, TypeOK, Doing, Idle
  <1>5. OnePool' /\ Stages'
    <2>1. \A p, q \in doing[Owner].list : p = q
      BY <1>1, OwnerAssumption DEF IInv, Stages
    <2>2. \A x \in Surfaces : home'[x] = IF x = s THEN doing[Owner].list ELSE home[x]
      BY <1>1 DEF IInv, TypeOK
    <2>3. OnePool'
      BY <1>1, <2>1, <2>2 DEF IInv, OnePool
    <2>4. Stages'
      BY <1>1, <1>3 DEF IInv, Stages, Idle
    <2> QED
      BY <2>3, <2>4
  <1>6. Dropped'
    <2> SUFFICES ASSUME NEW t \in Threads, NEW x \in doing[t].surface
                 PROVE  /\ holders'[x] = {} /\ x \in created' \ gone'
                        /\ home'[x] = doing'[t].list
                        /\ \A u \in Threads \ {t} : x \notin doing'[u].surface
      BY <1>3 DEF Dropped
    <2>1. x # s /\ x \in Surfaces /\ t # Owner
      BY <1>1, <1>2 DEF IInv, TypeOK, Doing, Stages
    <2> QED
      BY <2>1, <1>1, <1>3 DEF IInv, Dropped, TypeOK
  <1>7. FreeUnheld'
    BY <1>1, <1>2, <1>3 DEF IInv, FreeUnheld, TypeOK
  <1>8. HeldNotGone'
    BY <1>1, <1>2 DEF IInv, HeldNotGone, TypeOK
  <1> QED
    BY <1>4, <1>5, <1>6, <1>7, <1>8 DEF IInv

\* A failed creation changes only where the decoder's thread is.
LEMMA CreateFailsIInv ==
  ASSUME IInv, CreateFails
  PROVE  IInv'
  <1>1. /\ doing[Owner].at = "create"
        /\ doing' = [doing EXCEPT ![Owner] = Idle]
        /\ UNCHANGED <<pool, unused, free, home, holders, created, gone>>
    BY DEF CreateFails
  <1>2. /\ doing' \in [Threads -> Doing]
        /\ \A t \in Threads : /\ doing'[t] = IF t = Owner THEN Idle ELSE doing[t]
                              /\ doing'[t].surface = doing[t].surface
    BY <1>1, OwnerAssumption DEF IInv, TypeOK, Stages, Doing, Idle
  <1>3. Stages'
    BY <1>1, <1>2 DEF IInv, Stages, Idle
  <1>4. Dropped'
    <2> SUFFICES ASSUME NEW t \in Threads, NEW x \in doing[t].surface
                 PROVE  /\ holders'[x] = {} /\ x \in created' \ gone'
                        /\ home'[x] = doing'[t].list
                        /\ \A u \in Threads \ {t} : x \notin doing'[u].surface
      BY <1>2 DEF Dropped
    <2>1. t # Owner
      BY <1>1 DEF IInv, Stages
    <2> QED
      BY <2>1, <1>1, <1>2 DEF IInv, Dropped
  <1> QED
    BY <1>1, <1>2, <1>3, <1>4 DEF IInv, TypeOK, OnePool, FreeUnheld, HeldNotGone

\* A surface that belongs to no pool is as new as a created one.
LEMMA WrapIInv ==
  ASSUME IInv, NEW t \in Threads, NEW s \in Surfaces, Wrap(t, s)
  PROVE  IInv'
  <1>1. /\ s \notin created
        /\ created' = created \cup {s}
        /\ holders' = [holders EXCEPT ![s] = {t}]
        /\ UNCHANGED <<pool, unused, free, home, doing, gone>>
    BY DEF Wrap
  <1>2. /\ \A p \in Pools : s \notin free[p]
        /\ \A u \in Threads : s \notin doing[u].surface
        /\ s \notin gone
    BY <1>1 DEF IInv, FreeUnheld, Dropped, TypeOK
  <1>3. TypeOK' /\ OnePool' /\ Stages'
    BY <1>1 DEF IInv, TypeOK, OnePool, Stages
  <1>4. Dropped'
    BY <1>1, <1>2 DEF IInv, Dropped, TypeOK, Doing
  <1>5. FreeUnheld' /\ HeldNotGone'
    BY <1>1, <1>2 DEF IInv, FreeUnheld, HeldNotGone, TypeOK
  <1> QED
    BY <1>3, <1>4, <1>5 DEF IInv

\* A clone is made of a surface somebody holds.
LEMMA ShareIInv ==
  ASSUME IInv, NEW t \in Threads, NEW u \in Threads, NEW s \in Surfaces, Share(t, u, s)
  PROVE  IInv'
  <1>1. /\ t \in holders[s]
        /\ holders' = [holders EXCEPT ![s] = @ \cup {u}]
        /\ UNCHANGED <<pool, unused, free, home, doing, created, gone>>
    BY DEF Share
  <1>2. /\ \A p \in Pools : s \notin free[p]
        /\ \A v \in Threads : s \notin doing[v].surface
        /\ s \in created \ gone
    BY <1>1 DEF IInv, FreeUnheld, Dropped, HeldNotGone
  <1>3. TypeOK' /\ OnePool' /\ Stages'
    BY <1>1 DEF IInv, TypeOK, OnePool, Stages
  <1>4. Dropped'
    BY <1>1, <1>2 DEF IInv, Dropped, TypeOK, Doing
  <1>5. FreeUnheld' /\ HeldNotGone'
    BY <1>1, <1>2 DEF IInv, FreeUnheld, HeldNotGone, TypeOK
  <1> QED
    BY <1>3, <1>4, <1>5 DEF IInv

\* The last clone gives the surface to the thread that drops it, and to it alone.
LEMMA ReleaseIInv ==
  ASSUME IInv, NEW t \in Threads, NEW s \in Surfaces, Release(t, s)
  PROVE  IInv'
  <1>1. /\ doing[t] = Idle /\ t \in holders[s]
        /\ holders' = [holders EXCEPT ![s] = @ \ {t}]
        /\ UNCHANGED <<pool, unused, free, home, created, gone>>
    BY DEF Release
  <1>2. /\ \A p \in Pools : s \notin free[p]
        /\ \A u \in Threads : s \notin doing[u].surface
        /\ s \in created \ gone
        /\ doing[t].surface = {}
    BY <1>1 DEF IInv, FreeUnheld, Dropped, HeldNotGone, Idle
  <1>3. CASE holders[s] = {t}
    <2>1. /\ doing' = [doing EXCEPT ![t] = At("upgrade", {s}, home[s])]
          /\ holders'[s] = {}
      BY <1>1, <1>3 DEF Release, IInv, TypeOK
    <2>2. \A u \in Threads : doing'[u] = IF u = t THEN At("upgrade", {s}, home[s]) ELSE doing[u]
      BY <2>1 DEF IInv, TypeOK
    <2>3. TypeOK' /\ OnePool'
      BY <1>1, <2>1 DEF IInv, TypeOK, OnePool, Doing, At
    <2>4. Stages'
      BY <2>2 DEF IInv, Stages, At
    <2>5. Dropped'
      BY <1>1, <1>2, <2>1, <2>2 DEF IInv, Dropped, TypeOK, Doing, At
    <2>6. FreeUnheld' /\ HeldNotGone'
      BY <1>1, <1>2, <2>2 DEF IInv, FreeUnheld, HeldNotGone, TypeOK, At
    <2> QED
      BY <2>3, <2>4, <2>5, <2>6 DEF IInv
  <1>4. CASE holders[s] # {t}
    <2>1. doing' = doing
      BY <1>4 DEF Release
    <2>2. TypeOK' /\ OnePool' /\ Stages'
      BY <1>1, <2>1 DEF IInv, TypeOK, OnePool, Stages
    <2>3. Dropped'
      BY <1>1, <1>2, <2>1 DEF IInv, Dropped, TypeOK, Doing
    <2>4. FreeUnheld' /\ HeldNotGone'
      BY <1>1, <1>2, <2>1 DEF IInv, FreeUnheld, HeldNotGone, TypeOK
    <2> QED
      BY <2>2, <2>3, <2>4 DEF IInv
  <1> QED
    BY <1>3, <1>4

\* A drop that upgrades keeps its surface; one that cannot destroys it.
LEMMA UpgradeIInv ==
  ASSUME IInv, NEW t \in Threads, Upgrade(t)
  PROVE  IInv'
  <1>1. /\ doing[t].at = "upgrade"
        /\ UNCHANGED <<pool, unused, free, home, holders, created>>
    BY DEF Upgrade
  <1>2. PICK s \in Surfaces : doing[t].surface = {s}
    BY <1>1 DEF IInv, Stages
  <1>3. /\ holders[s] = {} /\ s \in created \ gone
        /\ home[s] = doing[t].list
        /\ \A u \in Threads \ {t} : s \notin doing[u].surface
        /\ \A p \in Pools : s \notin free[p]
    BY <1>2 DEF IInv, Dropped, FreeUnheld
  <1>4. CASE \E p \in doing[t].list : Alive(p)
    <2>1. PICK p \in doing[t].list : Alive(p)
      BY <1>4
    <2>2. doing' = [doing EXCEPT ![t].at = "return"] /\ gone' = gone
      BY <1>1, <1>4 DEF Upgrade
    <2>3. \A u \in Threads : /\ doing'[u].surface = doing[u].surface
                             /\ doing'[u].list = doing[u].list
                             /\ doing'[u].at = IF u = t THEN "return" ELSE doing[u].at
      BY <2>2 DEF IInv, TypeOK, Doing
    <2>4. \E q \in Pools : doing[t].list = {q}
      BY <1>3, <2>1 DEF IInv, TypeOK, OnePool
    <2>5. doing' \in [Threads -> Doing]
      BY <2>2 DEF IInv, TypeOK, Doing
    <2>6. Stages'
      BY <1>1, <2>3, <2>4 DEF IInv, Stages
    <2>7. Dropped'
      BY <1>1, <2>2, <2>3 DEF IInv, Dropped
    <2> QED
      BY <1>1, <2>2, <2>3, <2>5, <2>6, <2>7 DEF IInv, TypeOK, OnePool, FreeUnheld, HeldNotGone
  <1>5. CASE ~\E p \in doing[t].list : Alive(p)
    <2>1. doing' = [doing EXCEPT ![t] = Idle] /\ gone' = gone \cup {s}
      BY <1>1, <1>2, <1>5 DEF Upgrade
    <2>2. \A u \in Threads : doing'[u] = IF u = t THEN Idle ELSE doing[u]
      BY <2>1 DEF IInv, TypeOK
    <2>3. TypeOK'
      BY <1>1, <1>3, <2>1 DEF IInv, TypeOK, Doing, Idle
    <2>4. Stages'
      BY <2>2 DEF IInv, Stages, Idle
    <2>5. Dropped'
      BY <1>1, <1>3, <2>1, <2>2 DEF IInv, Dropped, Idle
    <2>6. FreeUnheld' /\ HeldNotGone'
      BY <1>1, <1>3, <2>1, <2>2 DEF IInv, FreeUnheld, HeldNotGone, Idle
    <2> QED
      BY <1>1, <2>3, <2>4, <2>5, <2>6 DEF IInv, OnePool
  <1> QED
    BY <1>4, <1>5

\* The push moves the surface from its thread to the list it came from.
LEMMA ReturnIInv ==
  ASSUME IInv, NEW t \in Threads, Return(t)
  PROVE  IInv'
  <1>1. /\ doing[t].at = "return"
        /\ UNCHANGED <<pool, unused, home, holders, created, gone>>
    BY DEF Return
  <1>2. PICK s \in Surfaces : doing[t].surface = {s}
    BY <1>1 DEF IInv, Stages
  <1>3. PICK p \in Pools : doing[t].list = {p}
    BY <1>1 DEF IInv, Stages
  <1>4. /\ holders[s] = {} /\ s \in created \ gone
        /\ home[s] = {p}
        /\ \A u \in Threads \ {t} : s \notin doing[u].surface
    BY <1>2, <1>3 DEF IInv, Dropped
  <1>5. CASE Cardinality(free[p]) < Capacity
    <2>1. /\ free' = [free EXCEPT ![p] = @ \cup {s}]
          /\ doing' = [doing EXCEPT ![t] = At("end", {}, {p})]
      BY <1>1, <1>2, <1>3, <1>5 DEF Return
    <2>2. \A u \in Threads : doing'[u] = IF u = t THEN At("end", {}, {p}) ELSE doing[u]
      BY <2>1 DEF IInv, TypeOK
    <2>3. At("end", {}, {p}) \in Doing
      BY DEF Doing, At
    <2>4. TypeOK'
      BY <1>1, <2>1, <2>3 DEF IInv, TypeOK
    <2>5. Stages'
      BY <2>2 DEF IInv, Stages, At
    <2>6. Dropped'
      BY <1>1, <2>2 DEF IInv, Dropped, At
    <2>7. FreeUnheld' /\ HeldNotGone'
      BY <1>1, <1>4, <2>1, <2>2 DEF IInv, FreeUnheld, HeldNotGone, TypeOK, At
    <2> QED
      BY <1>1, <2>4, <2>5, <2>6, <2>7 DEF IInv, OnePool
  <1>6. CASE ~(Cardinality(free[p]) < Capacity)
    <2>1. free' = free /\ doing' = [doing EXCEPT ![t].at = "end"]
      BY <1>1, <1>3, <1>6 DEF Return
    <2>2. \A u \in Threads : /\ doing'[u].surface = doing[u].surface
                             /\ doing'[u].list = doing[u].list
                             /\ doing'[u].at = IF u = t THEN "end" ELSE doing[u].at
      BY <2>1 DEF IInv, TypeOK, Doing
    <2>3. TypeOK'
      BY ZenonT(60), <1>1, <2>1 DEF IInv, TypeOK, Doing
    <2>4. Stages'
      BY <1>1, <2>2 DEF IInv, Stages
    <2>5. Dropped'
      BY <1>1, <2>2 DEF IInv, Dropped
    <2>6. FreeUnheld' /\ HeldNotGone'
      BY <1>1, <2>1, <2>2 DEF IInv, FreeUnheld, HeldNotGone
    <2> QED
      BY <1>1, <2>3, <2>4, <2>5, <2>6 DEF IInv, OnePool
  <1> QED
    BY <1>5, <1>6

\* The end of a drop destroys what it holds, and nothing anybody else knows.
LEMMA EndIInv ==
  ASSUME IInv, NEW t \in Threads, End(t)
  PROVE  IInv'
  <1> DEFINE last == {p \in doing[t].list \ pool : \A u \in Threads \ {t} : ~HeldBy(p, u)}
  <1>1. /\ doing[t].at = "end"
        /\ doing' = [doing EXCEPT ![t] = Idle]
        /\ gone' = gone \cup doing[t].surface \cup UNION {free[p] : p \in last}
        /\ free' = [p \in Pools |-> IF p \in last THEN {} ELSE free[p]]
        /\ UNCHANGED <<pool, unused, home, holders, created>>
    BY DEF End
  <1>2. \A p \in last : p \in Pools
    BY DEF IInv, TypeOK, Doing
  <1> HIDE DEF last
  <1>3. \A s \in gone' : \/ s \in gone
                         \/ s \in doing[t].surface
                         \/ \E p \in Pools : p \in last /\ s \in free[p]
    BY <1>1, <1>2
  <1>4. \A u \in Threads : doing'[u] = IF u = t THEN Idle ELSE doing[u]
    BY <1>1 DEF IInv, TypeOK
  <1>5. TypeOK'
    <2>1. gone' \subseteq created
      BY <1>3 DEF IInv, TypeOK, FreeUnheld, Dropped
    <2>2. Idle \in Doing
      BY DEF Doing, Idle
    <2> QED
      BY <1>1, <2>1, <2>2 DEF IInv, TypeOK
  <1>6. OnePool' /\ Stages'
    BY <1>1, <1>4 DEF IInv, OnePool, Stages, Idle
  <1>7. Dropped'
    <2> SUFFICES ASSUME NEW u \in Threads \ {t}, NEW s \in doing[u].surface
                 PROVE  /\ holders[s] = {} /\ s \in created \ gone'
                        /\ home[s] = doing[u].list
                        /\ \A v \in Threads \ {u} : s \notin doing'[v].surface
      BY <1>1, <1>4 DEF Dropped, Idle
    <2>1. s \notin doing[t].surface /\ \A p \in Pools : s \notin free[p]
      BY DEF IInv, Dropped, FreeUnheld
    <2> QED
      BY <2>1, <1>3, <1>4 DEF IInv, Dropped, Idle
  <1>8. FreeUnheld'
    <2> SUFFICES ASSUME NEW p \in Pools, NEW s \in free[p], p \notin last
                 PROVE  s \notin gone'
      BY <1>1, <1>4 DEF IInv, FreeUnheld, Idle
    <2> QED
      BY <1>3 DEF IInv, FreeUnheld
  <1>9. HeldNotGone'
    BY <1>1, <1>3 DEF IInv, HeldNotGone, FreeUnheld, Dropped
  <1> QED
    BY <1>1, <1>5, <1>6, <1>7, <1>8, <1>9 DEF IInv

\* Every step keeps the inductive invariant.
LEMMA NextIInv == IInv /\ [Next]_vars => IInv'
  <1> SUFFICES ASSUME IInv, [Next]_vars PROVE IInv'
    OBVIOUS
  <1>1. ASSUME NEW p \in Pools, ReplacePool({p}) PROVE IInv'
    BY <1>1, ReplacePoolIInv
  <1>2. CASE ReplacePool({})
    BY <1>2, ReplacePoolIInv
  <1>3. ASSUME NEW s \in Surfaces, Recycle(s) \/ Create(s) PROVE IInv'
    BY <1>3, RecycleIInv, CreateIInv
  <1>4. CASE Miss \/ CreateFails
    BY <1>4, MissIInv, CreateFailsIInv
  <1>5. ASSUME NEW t \in Threads, NEW s \in Surfaces, Wrap(t, s) \/ Release(t, s)
        PROVE  IInv'
    BY <1>5, WrapIInv, ReleaseIInv
  <1>6. ASSUME NEW t \in Threads, NEW u \in Threads, NEW s \in Surfaces, Share(t, u, s)
        PROVE  IInv'
    BY <1>6, ShareIInv
  <1>7. ASSUME NEW t \in Threads, Drop(t) PROVE IInv'
    BY <1>7, UpgradeIInv, ReturnIInv, EndIInv DEF Drop
  <1>8. CASE UNCHANGED vars
    BY <1>8 DEF vars, IInv, TypeOK, OnePool, Stages, Dropped, FreeUnheld, HeldNotGone
  <1> QED
    BY <1>1, <1>2, <1>3, <1>4, <1>5, <1>6, <1>7, <1>8 DEF Next

\* The inductive invariant holds in every behaviour.
THEOREM Inductive == Spec => []IInv
  <1> QED
    BY InitIInv, NextIInv, PTL DEF Spec

\* Type correctness; a destroyed surface is one that was created.
THEOREM TypeCorrect == Spec => []TypeOK
  <1>1. IInv => TypeOK
    BY DEF IInv
  <1> QED
    BY <1>1, Inductive, PTL

\* A surface that alloc can hand out again is in nobody's hands: no consumer's
\* picture is ever decoded over.
THEOREM RecycledUnheld == Spec => []FreeUnheld
  <1>1. IInv => FreeUnheld
    BY DEF IInv
  <1> QED
    BY <1>1, Inductive, PTL

\* PooledSurface::drop never destroys a surface that somebody still holds,
\* also when its pool went first.
THEOREM HeldLive == Spec => []HeldNotGone
  <1>1. IInv => HeldNotGone
    BY DEF IInv
  <1> QED
    BY <1>1, Inductive, PTL

-----------------------------------------------------------------------------
(* The free lists: their size, and their end *)

\* How a step can change the free list of a pool: only a push makes it longer,
\* and a push is made where there is room.
LEMMA FreeListSteps ==
  ASSUME IInv, Next, NEW p \in Pools
  PROVE  \/ free'[p] \subseteq free[p]
         \/ \E s \in Surfaces : /\ Cardinality(free[p]) < Capacity
                               /\ free'[p] = free[p] \cup {s}
  <1>1. ASSUME NEW new \in SUBSET Pools, ReplacePool(new) PROVE free'[p] \subseteq free[p]
    BY <1>1 DEF ReplacePool
  <1>2. ASSUME NEW s \in Surfaces, Recycle(s) PROVE free'[p] \subseteq free[p]
    BY <1>2 DEF Recycle, IInv, TypeOK
  <1>3. ASSUME NEW t \in Threads, Return(t)
        PROVE  \/ free'[p] \subseteq free[p]
               \/ \E s \in Surfaces : /\ Cardinality(free[p]) < Capacity
                                     /\ free'[p] = free[p] \cup {s}
    <2>1. PICK s \in Surfaces : doing[t].surface = {s}
      BY <1>3 DEF Return, IInv, Stages
    <2>2. PICK q \in doing[t].list :
              \/ /\ Cardinality(free[q]) < Capacity
                 /\ free' = [free EXCEPT ![q] = @ \cup {s}]
              \/ free' = free
      BY <1>3, <2>1 DEF Return
    <2> QED
      BY <2>2 DEF IInv, TypeOK
  <1>4. ASSUME NEW t \in Threads, End(t) PROVE free'[p] \subseteq free[p]
    BY <1>4 DEF End
  <1>5. ASSUME NEW t \in Threads, Upgrade(t) PROVE free'[p] \subseteq free[p]
    BY <1>5 DEF Upgrade
  <1>6. ASSUME NEW t \in Threads, NEW s \in Surfaces,
               Wrap(t, s) \/ Release(t, s) \/ \E u \in Threads : Share(t, u, s)
        PROVE  free'[p] \subseteq free[p]
    BY <1>6 DEF Wrap, Release, Share
  <1>7. ASSUME NEW s \in Surfaces, Create(s) PROVE free'[p] \subseteq free[p]
    BY <1>7 DEF Create
  <1>8. ASSUME Miss \/ CreateFails PROVE free'[p] \subseteq free[p]
    BY <1>8 DEF Miss, CreateFails
  <1> QED
    BY <1>1, <1>2, <1>3, <1>4, <1>5, <1>6, <1>7, <1>8 DEF Next, Drop

\* FreeList::capacity bounds the free list, however many surfaces come back
\* at the same time.
THEOREM CapacityKept == Spec => []FreeWithinCapacity
  <1>1. Init => FreeWithinCapacity
    BY FS_EmptySet, CapacityAssumption DEF Init, FreeWithinCapacity
  <1>2. IInv /\ FreeWithinCapacity /\ [Next]_vars => FreeWithinCapacity'
    <2> SUFFICES ASSUME IInv, FreeWithinCapacity, [Next]_vars, NEW p \in Pools
                 PROVE  Cardinality(free'[p]) <= Capacity
      BY DEF FreeWithinCapacity
    <2>1. /\ IsFiniteSet(free[p])
          /\ Cardinality(free[p]) \in Nat
          /\ Cardinality(free[p]) <= Capacity
      BY FS_Subset, FS_CardinalityType, SurfacesAssumption DEF IInv, TypeOK, FreeWithinCapacity
    <2>2. CASE free'[p] \subseteq free[p]
      <3>1. Cardinality(free'[p]) \in Nat /\ Cardinality(free'[p]) <= Cardinality(free[p])
        BY <2>1, <2>2, FS_Subset, FS_CardinalityType
      <3> QED
        BY <2>1, <3>1, CapacityAssumption
    <2>3. ASSUME NEW s \in Surfaces, Cardinality(free[p]) < Capacity,
                 free'[p] = free[p] \cup {s}
          PROVE  Cardinality(free'[p]) <= Capacity
      <3>1. \/ Cardinality(free'[p]) = Cardinality(free[p])
            \/ Cardinality(free'[p]) = Cardinality(free[p]) + 1
        BY <2>1, <2>3, FS_AddElement
      <3> QED
        BY <2>1, <2>3, <3>1, CapacityAssumption
    <2>4. CASE UNCHANGED vars
      BY <2>1, <2>4 DEF vars
    <2> QED
      BY <2>2, <2>3, <2>4, FreeListSteps
  <1> QED
    BY <1>1, <1>2, Inductive, PTL DEF Spec

\* The free list of a pool nobody can reach is empty: the last to hold the
\* FreeList, be it the sequence or a drop, destroyed what was in it.
THEOREM NothingLeftBehind == Spec => []NoFreeLeftBehind
  <1>1. Init => NoFreeLeftBehind
    BY DEF Init, NoFreeLeftBehind
  <1>2. IInv /\ NoFreeLeftBehind /\ [Next]_vars => NoFreeLeftBehind'
    <2> SUFFICES ASSUME IInv, NoFreeLeftBehind, [Next]_vars,
                        NEW p \in Pools, ~Alive(p)'
                 PROVE  free'[p] = {}
      BY DEF NoFreeLeftBehind
    <2>1. p \notin pool' /\ \A t \in Threads : ~HeldBy(p, t)'
      BY DEF Alive
    <2>2. ASSUME NEW new \in SUBSET Pools, ReplacePool(new) PROVE free'[p] = {}
      <3>1. \A t \in Threads : ~HeldBy(p, t)
        BY <2>1, <2>2 DEF ReplacePool, HeldBy
      <3> QED
        BY <2>2, <3>1 DEF ReplacePool, NoFreeLeftBehind, Alive
    <2>3. ASSUME NEW t \in Threads, End(t) PROVE free'[p] = {}
      <3>1. \A u \in Threads \ {t} : ~HeldBy(p, u)
        BY <2>1, <2>3 DEF End, HeldBy
      <3>2. p \notin pool
        BY <2>1, <2>3 DEF End
      <3> QED
        BY <2>3, <3>1, <3>2 DEF End, NoFreeLeftBehind, Alive, HeldBy
    <2>4. ASSUME NEW t \in Threads, Return(t) PROVE free'[p] = {}
      <3>1. PICK q \in Pools : doing[t].list = {q}
        BY <2>4 DEF Return, IInv, Stages
      <3>2. doing'[t].at = "end" /\ doing'[t].list = {q}
        BY <2>4, <3>1 DEF Return, IInv, TypeOK, Doing, At
      <3>3. \A u \in Threads \ {t} : doing'[u] = doing[u]
        BY <2>4 DEF Return, IInv, TypeOK
      <3>4. p # q /\ p \notin pool
        BY <2>1, <2>4, <3>2 DEF Return, HeldBy
      <3>5. \A u \in Threads : ~HeldBy(p, u)
        BY <2>1, <3>1, <3>3, <3>4 DEF HeldBy
      <3>6. free'[p] = free[p]
        BY <2>4, <3>1, <3>4 DEF Return, IInv, TypeOK
      <3> QED
        BY <3>4, <3>5, <3>6 DEF NoFreeLeftBehind, Alive
    <2>5. ASSUME NEW t \in Threads, Upgrade(t) PROVE free'[p] = {}
      <3>1. \A u \in Threads \ {t} : doing'[u] = doing[u]
        BY <2>5 DEF Upgrade, IInv, TypeOK
      <3>2. \A u \in Threads : ~HeldBy(p, u)
        BY <2>1, <2>5, <3>1 DEF HeldBy, Upgrade
      <3> QED
        BY <2>1, <2>5, <3>2 DEF Upgrade, NoFreeLeftBehind, Alive
    <2>6. ASSUME NEW s \in Surfaces, Recycle(s) PROVE free'[p] = {}
      BY <2>1, <2>6 DEF Recycle, HeldBy, NoFreeLeftBehind, Alive, IInv, TypeOK
    <2>7. ASSUME NEW t \in Threads, doing[t].at \notin {"return", "end"},
                 \A u \in Threads \ {t} : doing'[u] = doing[u],
                 free' = free, pool' = pool
          PROVE  free'[p] = {}
      BY <2>1, <2>7 DEF HeldBy, NoFreeLeftBehind, Alive
    <2>8. ASSUME NEW t \in Threads, NEW s \in Surfaces,
                 Wrap(t, s) \/ Release(t, s) \/ \E u \in Threads : Share(t, u, s)
          PROVE  free'[p] = {}
      BY <2>7, <2>8 DEF Wrap, Release, Share, IInv, TypeOK, Idle
    <2>9. ASSUME NEW s \in Surfaces, Create(s) PROVE free'[p] = {}
      BY <2>7, <2>9, OwnerAssumption DEF Create, IInv, TypeOK
    <2>10. CASE Miss \/ CreateFails
      <3>1. /\ doing[Owner].at \notin {"return", "end"}
            /\ free' = free /\ pool' = pool
        BY <2>10 DEF Miss, CreateFails, Idle
      <3>2. \A u \in Threads \ {Owner} : doing'[u] = doing[u]
        BY <2>10 DEF Miss, CreateFails, IInv, TypeOK
      <3> QED
        BY <2>7, <3>1, <3>2, OwnerAssumption
    <2>11. CASE UNCHANGED vars
      BY <2>1, <2>11 DEF vars, HeldBy, NoFreeLeftBehind, Alive
    <2> QED
      BY <2>2, <2>3, <2>4, <2>5, <2>6, <2>8, <2>9, <2>10, <2>11 DEF Next, Drop
  <1> QED
    BY <1>1, <1>2, Inductive, PTL DEF Spec

-----------------------------------------------------------------------------
(* How many surfaces a pool has                                            *)

\* A surface of a pool is held, on its way back, or free.
Accounted ==
    \A p \in Pools : \A s \in Live(p) :
        holders[s] # {} \/ s \in free[p] \/ \E t \in Threads : s \in doing[t].surface

\* A drop is of one surface.
OneAtATime == \A t \in Threads : \A r, s \in doing[t].surface : r = s

\* A surface has no home before it was created.
Homeless == \A s \in Surfaces \ created : home[s] = {}

\* A pool has no more surfaces than were in use at once, and fewer while the
\* decoder's thread creates one, which is in use as well.
Enough ==
    \A p \in Pools :
        /\ Cardinality(Live(p)) <= peak[p]
        /\ doing[Owner].at = "create" /\ doing[Owner].list = {p}
              => Cardinality(Live(p)) < peak[p]

EnoughInv ==
    /\ peak \in [Pools -> Nat]
    /\ Accounted
    /\ OneAtATime
    /\ Homeless
    /\ Enough

\* What is counted is finite.
LEMMA CountsFinite ==
  ASSUME IInv, NEW p
  PROVE  /\ IsFiniteSet(Live(p)) /\ Cardinality(Live(p)) \in Nat
         /\ IsFiniteSet(Held(p)) /\ Cardinality(Held(p)) \in Nat
         /\ IsFiniteSet(Busy(p)) /\ Cardinality(Busy(p)) \in Nat
         /\ InUse(p) \in Nat
  <1>1. Live(p) \subseteq Surfaces /\ Held(p) \subseteq Surfaces /\ Busy(p) \subseteq Threads
    BY DEF IInv, TypeOK, Live, Held, Busy
  <1>2. /\ IsFiniteSet(Live(p)) /\ Cardinality(Live(p)) \in Nat
        /\ IsFiniteSet(Held(p)) /\ Cardinality(Held(p)) \in Nat
        /\ IsFiniteSet(Busy(p)) /\ Cardinality(Busy(p)) \in Nat
    BY <1>1, FS_Subset, FS_CardinalityType, SurfacesAssumption, ThreadsAssumption
  <1> QED
    BY <1>2 DEF InUse

\* When none is free, each surface of the pool is in use: it is held, or the
\* only one on some thread's way back.
LEMMA AllInUse ==
  ASSUME IInv, Accounted, OneAtATime, NEW p \in Pools, free[p] = {}
  PROVE  Cardinality(Live(p)) <= InUse(p)
  <1> DEFINE back == {s \in Live(p) : \E t \in Threads : s \in doing[t].surface}
             thread == [s \in back |-> CHOOSE t \in Threads : s \in doing[t].surface]
  <1>1. Live(p) \subseteq Held(p) \cup back
    BY DEF IInv, TypeOK, Accounted, Live, Held
  <1>2. \A s \in back : thread[s] \in Threads /\ s \in doing[thread[s]].surface
    OBVIOUS
  <1>3. \A s \in back : thread[s] \in Busy(p)
    <2> TAKE s \in back
    <2>1. home[s] = {p}
      BY DEF Live
    <2> HIDE DEF back, thread
    <2>2. /\ doing[thread[s]].list = {p} /\ doing[thread[s]].surface # {}
          /\ doing[thread[s]].at # "idle"
      BY <1>2, <2>1 DEF IInv, Dropped, Stages
    <2> QED
      BY <1>2, <2>2 DEF Busy
  <1>4. \A t \in Threads : \A r, s \in doing[t].surface : r = s
    BY DEF OneAtATime
  <1>5. thread \in [back -> Busy(p)]
    BY <1>3
  <1>6. \A r, s \in back : thread[r] = thread[s] => r = s
    BY <1>2, <1>4
  <1> HIDE DEF thread, back
  <1>7. thread \in Injection(back, Busy(p))
    BY <1>5, <1>6 DEF Injection, IsInjective
  <1>8. /\ IsFiniteSet(back) /\ Cardinality(back) <= Cardinality(Busy(p))
        /\ Cardinality(back) \in Nat
    BY <1>7, CountsFinite, FS_Injection, FS_CardinalityType
  <1>9. /\ IsFiniteSet(Held(p) \cup back)
        /\ Cardinality(Held(p) \cup back) =
              Cardinality(Held(p)) + Cardinality(back) - Cardinality(Held(p) \cap back)
        /\ Cardinality(Held(p) \cap back) \in Nat
    <2>1. IsFiniteSet(Held(p) \cap back)
      BY <1>8, FS_Subset
    <2> QED
      BY <1>8, <2>1, CountsFinite, FS_Union, FS_CardinalityType
  <1>10. Cardinality(Live(p)) <= Cardinality(Held(p) \cup back)
    BY <1>1, <1>9, FS_Subset
  <1> QED
    BY <1>8, <1>9, <1>10, CountsFinite DEF InUse

\* A step of a drop on thread t leaves everything else as it is, but for what is
\* destroyed: its surface stays with it, goes to the list, or is destroyed.
PassedOn(t) ==
    /\ UNCHANGED <<home, holders, created>>
    /\ gone \subseteq gone'
    /\ \A u \in Threads \ {t} : doing'[u] = doing[u]
    /\ doing'[t].surface \in {doing[t].surface, {}}
    /\ \A p \in Pools : \A s \in free[p] : s \in free'[p] \/ s \in gone'
    /\ \A s \in doing[t].surface :
          \/ s \in doing'[t].surface
          \/ s \in gone'
          \/ \E p \in doing[t].list : s \in free'[p]

\* The three steps of PooledSurface::drop.
LEMMA DropPassesOn ==
  ASSUME IInv, NEW t \in Threads, Drop(t)
  PROVE  PassedOn(t)
  <1>1. doing \in [Threads -> Doing] /\ free \in [Pools -> SUBSET Surfaces]
    BY DEF IInv, TypeOK
  <1>2. CASE Upgrade(t)
    <2>1. /\ UNCHANGED <<free, home, holders, created>>
          /\ \/ doing' = [doing EXCEPT ![t].at = "return"] /\ gone' = gone
             \/ doing' = [doing EXCEPT ![t] = Idle] /\ gone' = gone \cup doing[t].surface
      BY <1>2 DEF Upgrade
    <2>2. \A u \in Threads \ {t} : doing'[u] = doing[u]
      BY <1>1, <2>1
    <2>3. \/ doing'[t].surface = doing[t].surface
          \/ doing'[t].surface = {} /\ doing[t].surface \subseteq gone'
      BY <1>1, <2>1 DEF Idle, Doing
    <2> QED
      BY <2>1, <2>2, <2>3 DEF PassedOn
  <1>3. CASE Return(t)
    <2>1. PICK p \in doing[t].list :
             \/ /\ free' = [free EXCEPT ![p] = @ \cup doing[t].surface]
                /\ doing' = [doing EXCEPT ![t] = At("end", {}, @.list)]
             \/ free' = free /\ doing' = [doing EXCEPT ![t].at = "end"]
      BY <1>3 DEF Return
    <2>2. p \in Pools /\ UNCHANGED <<home, holders, created, gone>>
      BY <1>1, <1>3 DEF Return, Doing
    <2>3. \A u \in Threads \ {t} : doing'[u] = doing[u]
      BY <1>1, <2>1
    <2>4. \A q \in Pools : free[q] \subseteq free'[q]
      BY <1>1, <2>1, <2>2
    <2>5. \/ doing'[t].surface = doing[t].surface
          \/ doing'[t].surface = {} /\ doing[t].surface \subseteq free'[p]
      BY <1>1, <2>1, <2>2 DEF At, Doing
    <2> QED
      BY <2>2, <2>3, <2>4, <2>5 DEF PassedOn
  <1>4. CASE End(t)
    <2> DEFINE last == {p \in doing[t].list \ pool : \A u \in Threads \ {t} : ~HeldBy(p, u)}
    <2>1. /\ doing' = [doing EXCEPT ![t] = Idle]
          /\ gone' = gone \cup doing[t].surface \cup UNION {free[p] : p \in last}
          /\ free' = [p \in Pools |-> IF p \in last THEN {} ELSE free[p]]
          /\ UNCHANGED <<home, holders, created>>
      BY <1>4 DEF End
    <2> HIDE DEF last
    <2>2. /\ \A u \in Threads \ {t} : doing'[u] = doing[u]
          /\ doing'[t].surface = {}
      BY <1>1, <2>1 DEF Idle
    <2>3. /\ gone \subseteq gone' /\ doing[t].surface \subseteq gone'
          /\ \A p \in Pools : \A s \in free[p] : s \in free'[p] \/ s \in gone'
      BY <2>1
    <2> QED
      BY <2>1, <2>2, <2>3 DEF PassedOn
  <1> QED
    BY <1>2, <1>3, <1>4 DEF Drop

\* Every surface stays accounted for: who lets go of it passes it on.
LEMMA AccountedKept ==
  ASSUME IInv, EnoughInv, [Next]_vars
  PROVE  Accounted' /\ OneAtATime' /\ Homeless'
  <1> DEFINE Known == Accounted' /\ OneAtATime' /\ Homeless'
  <1>1. ASSUME NEW new \in SUBSET Pools, ReplacePool(new) PROVE Known
    <2>1. /\ gone \subseteq gone'
          /\ UNCHANGED <<home, holders, doing, created>>
          /\ \A p \in Pools : \A s \in free[p] : s \in free'[p] \/ s \in gone'
      BY <1>1 DEF ReplacePool
    <2> QED
      BY <2>1 DEF EnoughInv, Accounted, OneAtATime, Homeless, Live
  <1>2. ASSUME NEW s \in Surfaces, Recycle(s) PROVE Known
    <2>1. /\ holders'[s] # {}
          /\ \A r \in Surfaces \ {s} : holders'[r] = holders[r]
          /\ UNCHANGED <<home, doing, created, gone>>
          /\ \A p \in Pools : \A r \in free[p] : r \in free'[p] \/ r = s
      BY <1>2, OwnerAssumption DEF Recycle, IInv, TypeOK
    <2>2. created \subseteq Surfaces
      BY DEF IInv, TypeOK
    <2> QED
      BY <2>1, <2>2 DEF EnoughInv, Accounted, OneAtATime, Homeless, Live
  <1>3. CASE Miss \/ CreateFails
    <2>1. /\ UNCHANGED <<free, home, holders, created, gone>>
          /\ doing[Owner].surface = {}
          /\ \A t \in Threads : doing'[t].surface = doing[t].surface
      <3>1. doing[Owner].surface = {}
        <4>1. doing[Owner] = Idle \/ doing[Owner].at = "create"
          BY <1>3 DEF Miss, CreateFails
        <4>2. CASE doing[Owner] = Idle
          BY <4>2 DEF Idle
        <4>3. CASE doing[Owner].at = "create"
          BY <4>3, OwnerAssumption DEF IInv, Stages
        <4> QED
          BY <4>1, <4>2, <4>3
      <3>2. PICK new \in {Idle} \cup {At("create", {}, {p}) : p \in pool} :
               doing' = [doing EXCEPT ![Owner] = new]
        BY <1>3 DEF Miss, CreateFails
      <3>3. new.surface = {}
        BY DEF At, Idle
      <3>4. \A t \in Threads : doing'[t] = IF t = Owner THEN new ELSE doing[t]
        BY <3>2 DEF IInv, TypeOK
      <3>5. UNCHANGED <<free, home, holders, created, gone>>
        BY <1>3 DEF Miss, CreateFails
      <3> QED
        BY <3>1, <3>3, <3>4, <3>5
    <2> QED
      BY <2>1 DEF EnoughInv, Accounted, OneAtATime, Homeless, Live
  <1>4. ASSUME NEW s \in Surfaces, Create(s) PROVE Known
    <2>1. doing[Owner].surface = {}
      BY <1>4, OwnerAssumption DEF Create, IInv, Stages
    <2>2. /\ holders'[s] # {} /\ created' = created \cup {s}
          /\ \A r \in Surfaces \ {s} : holders'[r] = holders[r] /\ home'[r] = home[r]
          /\ \A t \in Threads : doing'[t].surface = doing[t].surface
          /\ UNCHANGED <<free, gone>>
      BY <1>4, <2>1 DEF Create, Idle, IInv, TypeOK
    <2>3. created \subseteq Surfaces
      BY DEF IInv, TypeOK
    <2> QED
      BY <2>2, <2>3 DEF EnoughInv, Accounted, OneAtATime, Homeless, Live
  <1>5. ASSUME NEW t \in Threads, NEW s \in Surfaces,
               Wrap(t, s) \/ \E u \in Threads : Share(t, u, s)
        PROVE  Known
    <2>1. /\ created' \in {created, created \cup {s}}
          /\ holders'[s] # {}
          /\ \A r \in Surfaces \ {s} : holders'[r] = holders[r]
          /\ UNCHANGED <<free, home, doing, gone>>
      BY <1>5 DEF Wrap, Share, IInv, TypeOK
    <2>2. created \subseteq Surfaces
      BY DEF IInv, TypeOK
    <2> QED
      BY <2>1, <2>2 DEF EnoughInv, Accounted, OneAtATime, Homeless, Live
  <1>6. ASSUME NEW t \in Threads, NEW s \in Surfaces, Release(t, s) PROVE Known
    <2>1. /\ doing[t].surface = {}
          /\ \A r \in Surfaces \ {s} : holders'[r] = holders[r]
          /\ holders'[s] # {} \/ doing'[t].surface = {s}
          /\ \A u \in Threads : \/ doing'[u].surface = doing[u].surface
                                \/ u = t /\ doing'[u].surface = {s}
          /\ UNCHANGED <<free, home, created, gone>>
      <3>1. doing[t].surface = {}
        BY <1>6 DEF Release, Idle
      <3>2. /\ holders' = [holders EXCEPT ![s] = @ \ {t}]
            /\ UNCHANGED <<free, home, created, gone>>
            /\ \/ holders[s] # {t} /\ doing' = doing
               \/ doing' = [doing EXCEPT ![t] = At("upgrade", {s}, home[s])]
            /\ t \in holders[s]
        BY <1>6 DEF Release
      <3>3. holders'[s] = holders[s] \ {t} /\ \A r \in Surfaces \ {s} : holders'[r] = holders[r]
        BY <3>2 DEF IInv, TypeOK
      <3>4. CASE holders[s] # {t} /\ doing' = doing
        BY <3>1, <3>2, <3>3, <3>4
      <3>5. CASE doing' = [doing EXCEPT ![t] = At("upgrade", {s}, home[s])]
        <4>1. \A u \in Threads :
                 doing'[u] = IF u = t THEN At("upgrade", {s}, home[s]) ELSE doing[u]
          BY <3>5 DEF IInv, TypeOK
        <4>2. /\ doing'[t].surface = {s}
              /\ \A u \in Threads \ {t} : doing'[u].surface = doing[u].surface
          BY <4>1 DEF At
        <4> QED
          BY <3>1, <3>2, <3>3, <4>2
      <3> QED
        BY <3>2, <3>4, <3>5
    <2>2. created \subseteq Surfaces
      BY DEF IInv, TypeOK
    <2> QED
      BY <2>1, <2>2 DEF EnoughInv, Accounted, OneAtATime, Homeless, Live
  <1>7. ASSUME NEW t \in Threads, Drop(t) PROVE Known
    <2>1. PassedOn(t)
      BY <1>7, DropPassesOn
    <2>2. \A s \in doing[t].surface : home[s] = doing[t].list
      BY DEF IInv, Dropped
    <2>3. ASSUME NEW p \in Pools, NEW s \in Live(p)'
          PROVE  holders'[s] # {} \/ s \in free'[p] \/ \E u \in Threads : s \in doing'[u].surface
      <3>1. s \in Live(p) /\ s \notin gone' /\ home[s] = {p}
        BY <2>1, <2>3 DEF PassedOn, Live
      <3>2. holders[s] # {} \/ s \in free[p] \/ \E u \in Threads : s \in doing[u].surface
        BY <3>1 DEF EnoughInv, Accounted
      <3> QED
        BY <2>1, <2>2, <3>1, <3>2 DEF PassedOn
    <2>4. OneAtATime' /\ Homeless'
      BY <2>1 DEF PassedOn, EnoughInv, OneAtATime, Homeless
    <2> QED
      BY <2>3, <2>4 DEF Accounted
  <1>8. CASE UNCHANGED vars
    BY <1>8 DEF vars, EnoughInv, Accounted, OneAtATime, Homeless, Live
  <1> QED
    BY <1>1, <1>2, <1>3, <1>4, <1>5, <1>6, <1>7, <1>8 DEF Next

\* The decoder's thread is in alloc(), creating a surface for p.
Creating(p) == doing[Owner].at = "create" /\ doing[Owner].list = {p}

\* A pool gets a surface only from the thread that was creating one for it,
\* and that thread begins to create one only when none is free.
LEMMA LiveSteps ==
  ASSUME IInv, Homeless, [Next]_vars, NEW p \in Pools
  PROVE  \/ Live(p)' \subseteq Live(p) /\ (Creating(p)' => Creating(p))
         \/ Creating(p) /\ ~Creating(p)' /\ \E s \in Surfaces : Live(p)' = Live(p) \cup {s}
         \/ Miss /\ Creating(p)' /\ Live(p)' = Live(p) /\ free[p] = {}
  <1>1. doing \in [Threads -> Doing] /\ created \subseteq Surfaces
    BY DEF IInv, TypeOK
  <1>2. ASSUME UNCHANGED <<home, created, doing>>, gone \subseteq gone'
        PROVE  Live(p)' \subseteq Live(p) /\ (Creating(p)' => Creating(p))
    BY <1>2 DEF Live, Creating
  <1>3. ASSUME NEW new \in SUBSET Pools, ReplacePool(new)
        PROVE  Live(p)' \subseteq Live(p) /\ (Creating(p)' => Creating(p))
    BY <1>2, <1>3 DEF ReplacePool
  <1>4. ASSUME NEW s \in Surfaces, Recycle(s)
        PROVE  Live(p)' \subseteq Live(p) /\ (Creating(p)' => Creating(p))
    BY <1>2, <1>4 DEF Recycle
  <1>5. ASSUME NEW s \in Surfaces, Create(s)
        PROVE  \/ Live(p)' \subseteq Live(p) /\ (Creating(p)' => Creating(p))
               \/ /\ Creating(p) /\ ~Creating(p)'
                  /\ \E r \in Surfaces : Live(p)' = Live(p) \cup {r}
    <2>1. /\ doing[Owner].at = "create" /\ doing'[Owner] = Idle
          /\ s \notin created /\ s \notin gone
          /\ created' = created \cup {s} /\ gone' = gone
          /\ home'[s] = doing[Owner].list
          /\ \A r \in Surfaces \ {s} : home'[r] = home[r]
      BY <1>5, OwnerAssumption DEF Create, IInv, TypeOK
    <2>2. ~Creating(p)'
      BY <2>1 DEF Creating, Idle
    <2>3. CASE doing[Owner].list = {p}
      <3>1. Live(p)' = Live(p) \cup {s}
        BY <1>1, <2>1, <2>3 DEF Live
      <3> QED
        BY <2>1, <2>2, <2>3, <3>1 DEF Creating
    <2>4. CASE doing[Owner].list # {p}
      BY <1>1, <2>1, <2>2, <2>4 DEF Live
    <2> QED
      BY <2>3, <2>4
  <1>6. CASE Miss
    <2>1. PICK q \in pool : free[q] = {} /\ doing' = [doing EXCEPT ![Owner] = At("create", {}, {q})]
      BY <1>6 DEF Miss
    <2>2. Live(p)' = Live(p)
      BY <1>6 DEF Miss, Live
    <2>3. doing'[Owner] = At("create", {}, {q})
      BY <1>1, <2>1, OwnerAssumption
    <2>4. Creating(p)' => q = p
      BY <2>3 DEF Creating, At
    <2> QED
      BY <1>6, <2>1, <2>2, <2>4
  <1>7. CASE CreateFails
    <2>1. ~Creating(p)'
      BY <1>1, <1>7, OwnerAssumption DEF CreateFails, Creating, Idle
    <2> QED
      BY <1>7, <2>1 DEF CreateFails, Live
  <1>8. ASSUME NEW t \in Threads, NEW s \in Surfaces, Wrap(t, s)
        PROVE  Live(p)' \subseteq Live(p) /\ (Creating(p)' => Creating(p))
    <2>1. home[s] = {} /\ created' = created \cup {s} /\ UNCHANGED <<home, doing, gone>>
      BY <1>8 DEF Wrap, Homeless
    <2> QED
      BY <2>1 DEF Live, Creating
  <1>9. ASSUME NEW t \in Threads, NEW u \in Threads, NEW s \in Surfaces, Share(t, u, s)
        PROVE  Live(p)' \subseteq Live(p) /\ (Creating(p)' => Creating(p))
    BY <1>2, <1>9 DEF Share
  <1>10. ASSUME NEW t \in Threads, NEW s \in Surfaces, Release(t, s)
         PROVE  Live(p)' \subseteq Live(p) /\ (Creating(p)' => Creating(p))
    <2>1. /\ UNCHANGED <<home, created, gone>>
          /\ doing' = doing \/ doing' = [doing EXCEPT ![t] = At("upgrade", {s}, home[s])]
      BY <1>10 DEF Release
    <2>2. doing'[Owner] = doing[Owner] \/ doing'[Owner].at = "upgrade"
      BY <1>1, <2>1, OwnerAssumption DEF At
    <2> QED
      BY <2>1, <2>2 DEF Live, Creating
  <1>11. ASSUME NEW t \in Threads, Drop(t)
         PROVE  Live(p)' \subseteq Live(p) /\ (Creating(p)' => Creating(p))
    <2>1. PassedOn(t)
      BY <1>11, DropPassesOn
    <2>2. Live(p)' \subseteq Live(p)
      BY <2>1 DEF PassedOn, Live
    <2>3. doing'[t].at # "create"
      BY <1>1, <1>11 DEF Drop, Upgrade, Return, End, At, Idle, Doing
    <2> QED
      BY <2>1, <2>2, <2>3, OwnerAssumption DEF PassedOn, Creating
  <1>12. CASE UNCHANGED vars
    BY <1>2, <1>12 DEF vars
  <1> QED
    BY <1>3, <1>4, <1>5, <1>6, <1>7, <1>8, <1>9, <1>10, <1>11, <1>12 DEF Next

\* The surface that is to be created is in use as well.
LEMMA MissInUse ==
  ASSUME IInv, Accounted, OneAtATime, IInv', NEW p \in Pools, Miss, Creating(p)', free[p] = {}
  PROVE  Cardinality(Live(p)) < InUse(p)'
  <1>1. PICK q \in pool : doing' = [doing EXCEPT ![Owner] = At("create", {}, {q})]
    BY DEF Miss
  <1>2. doing[Owner] = Idle /\ UNCHANGED <<home, holders>>
    BY DEF Miss
  <1>3. \A t \in Threads : doing'[t] = IF t = Owner THEN At("create", {}, {q}) ELSE doing[t]
    BY <1>1 DEF IInv, TypeOK
  <1>4. Held(p)' = Held(p)
    BY <1>2 DEF Held
  <1>5. Owner \notin Busy(p) /\ Owner \in Busy(p)'
    BY <1>2, OwnerAssumption DEF Busy, Idle, Creating
  <1>6. Busy(p)' = Busy(p) \cup {Owner}
    BY <1>3, <1>5, OwnerAssumption DEF Busy
  <1>7. Cardinality(Busy(p)') = Cardinality(Busy(p)) + 1
    BY <1>5, <1>6, CountsFinite, FS_AddElement
  <1>8. InUse(p)' = InUse(p) + 1
    BY <1>4, <1>7, CountsFinite DEF InUse
  <1> QED
    BY <1>8, AllInUse, CountsFinite

\* Every step of the pools and of the history of their use keeps the invariant.
LEMMA NextEnough ==
  ASSUME IInv, IInv', EnoughInv, [MCNext]_mcvars
  PROVE  EnoughInv'
  <1>1. [Next]_vars
    BY DEF MCNext, mcvars
  <1>2. Accounted' /\ OneAtATime' /\ Homeless'
    BY <1>1, AccountedKept
  <1>3. \A p \in Pools : InUse(p)' \in Nat
    <2> TAKE p \in Pools
    <2>1. /\ IsFiniteSet(Held(p)') /\ IsFiniteSet(Busy(p)')
      <3>1. Held(p)' \subseteq Surfaces /\ Busy(p)' \subseteq Threads
        BY DEF Held, Busy
      <3> QED
        BY <3>1, FS_Subset, SurfacesAssumption, ThreadsAssumption
    <2>2. Cardinality(Held(p)') \in Nat /\ Cardinality(Busy(p)') \in Nat
      BY <2>1, FS_CardinalityType
    <2> QED
      BY <2>2 DEF InUse
  <1>4. peak \in [Pools -> Nat]
    BY DEF EnoughInv
  <1>5. \A p \in Pools : peak'[p] \in Nat /\ peak'[p] >= peak[p]
    BY <1>3, <1>4 DEF MCNext, mcvars
  <1>6. peak' \in [Pools -> Nat]
    BY <1>3, <1>4 DEF MCNext, mcvars
  <1>7. \A p \in Pools : Miss => UNCHANGED mcvars \/ peak'[p] >= InUse(p)'
    BY <1>3, <1>4 DEF MCNext
  <1>8. ASSUME NEW p \in Pools
        PROVE  /\ Cardinality(Live(p)') <= peak'[p]
               /\ Creating(p)' => Cardinality(Live(p)') < peak'[p]
    <2>1. /\ IsFiniteSet(Live(p)) /\ Cardinality(Live(p)) \in Nat
          /\ Cardinality(Live(p)) <= peak[p] /\ peak[p] \in Nat
          /\ Creating(p) => Cardinality(Live(p)) < peak[p]
      BY <1>4, CountsFinite DEF EnoughInv, Enough, Creating
    <2>2. CASE Live(p)' \subseteq Live(p) /\ (Creating(p)' => Creating(p))
      <3>1. Cardinality(Live(p)') \in Nat /\ Cardinality(Live(p)') <= Cardinality(Live(p))
        BY <2>1, <2>2, FS_Subset, FS_CardinalityType
      <3> QED
        BY <1>5, <2>1, <2>2, <3>1
    <2>3. ASSUME Creating(p), ~Creating(p)', NEW s \in Surfaces, Live(p)' = Live(p) \cup {s}
          PROVE  /\ Cardinality(Live(p)') <= peak'[p]
                 /\ Creating(p)' => Cardinality(Live(p)') < peak'[p]
      <3>1. \/ Cardinality(Live(p)') = Cardinality(Live(p))
            \/ Cardinality(Live(p)') = Cardinality(Live(p)) + 1
        BY <2>1, <2>3, FS_AddElement
      <3> QED
        BY <1>5, <2>1, <2>3, <3>1
    <2>4. CASE Miss /\ Creating(p)' /\ Live(p)' = Live(p) /\ free[p] = {}
      <3>1. Cardinality(Live(p)) < InUse(p)'
        BY <2>4, MissInUse DEF EnoughInv
      <3>2. CASE UNCHANGED mcvars
        BY <2>1, <2>4, <3>2 DEF Creating, mcvars, vars
      <3>3. CASE peak'[p] >= InUse(p)'
        BY <1>3, <1>5, <2>1, <2>4, <3>1, <3>3
      <3> QED
        BY <1>7, <2>4, <3>2, <3>3
    <2> QED
      BY <1>1, <2>2, <2>3, <2>4, LiveSteps DEF EnoughInv
  <1> QED
    BY <1>2, <1>6, <1>8 DEF EnoughInv, Enough, Creating

\* A pool has at most as many surfaces as were in use at the same time,
\* although the lock is let go of between the pop that found none and the
\* creation of one (alloc), while surfaces come back.
THEOREM NoneInVain == MCSpec => []NoMoreThanNeeded
  <1>1. MCInit => Init /\ EnoughInv
    <2> SUFFICES ASSUME MCInit PROVE Init /\ EnoughInv
      OBVIOUS
    <2>1. Init /\ peak = [p \in Pools |-> 0]
      BY DEF MCInit
    <2>2. \A p \in Pools : Live(p) = {}
      BY <2>1 DEF Init, Live
    <2>3. \A p \in Pools : Cardinality(Live(p)) = 0
      BY <2>2, FS_EmptySet
    <2>4. Accounted /\ OneAtATime /\ Homeless
      BY <2>1, <2>2 DEF Init, Accounted, OneAtATime, Homeless, Idle
    <2>5. Enough
      BY <2>1, <2>3, OwnerAssumption DEF Init, Enough, Idle
    <2> QED
      BY <2>1, <2>4, <2>5 DEF EnoughInv
  <1>2. [MCNext]_mcvars => [Next]_vars
    BY DEF MCNext, mcvars
  <1>3. MCSpec => []IInv
    BY <1>1, <1>2, InitIInv, NextIInv, PTL DEF MCSpec
  <1>4. EnoughInv => NoMoreThanNeeded
    BY DEF EnoughInv, Enough, NoMoreThanNeeded
  <1> QED
    BY <1>1, <1>3, <1>4, NextEnough, PTL DEF MCSpec
=============================================================================
