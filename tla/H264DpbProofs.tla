--------------------------- MODULE H264DpbProofs ---------------------------
(***************************************************************************)
(* What the operators of H264Dpb do to any decoded picture buffer: the     *)
(* pictures they leave, the order in which pictures leave it, and the      *)
(* frame numbers of the references that stay.                              *)
(***************************************************************************)
EXTENDS H264Dpb, FiniteSetTheorems, WellFoundedInduction, TLAPS

\* The entries a DPB of pictures numbered up to n can have.
EntriesUpTo(n) == UNION {[D -> Entry] : D \in SUBSET (1 .. n)}

\* The buffers those make, whatever the limits.
DpbUpTo(n) == [entries : EntriesUpTo(n), maxNumPics : Nat, maxReorder : Nat]

-----------------------------------------------------------------------------
(* The operators of H264Dpb *)

\* e has pictures of d only, each with the surface it had.
From(e, d) ==
    /\ DOMAIN e \subseteq DOMAIN d
    /\ \A i \in DOMAIN e : /\ e[i].gen = d[i].gen
                           /\ e[i].nonexisting = d[i].nonexisting

\* Entries are numbered up to n, and each is a record of the DPB.
LEMMA EntriesElim ==
  ASSUME NEW n \in Nat, NEW d \in EntriesUpTo(n)
  PROVE  /\ DOMAIN d \subseteq 1 .. n
         /\ d = [i \in DOMAIN d |-> d[i]]
         /\ \A i \in DOMAIN d : d[i] \in Entry
  <1> PICK D \in SUBSET (1 .. n) : d \in [D -> Entry]
    BY DEF EntriesUpTo
  <1> QED
    OBVIOUS

\* A function on picture numbers up to n, to entries, is a DPB's.
LEMMA EntriesIntro ==
  ASSUME NEW n \in Nat, NEW d, DOMAIN d \subseteq 1 .. n,
         d = [i \in DOMAIN d |-> d[i]], \A i \in DOMAIN d : d[i] \in Entry
  PROVE  d \in EntriesUpTo(n)
  BY DEF EntriesUpTo

\* One change of the DPB after another is a change of it.
LEMMA FromTransitive ==
  ASSUME NEW d, NEW e, NEW f, From(f, e), From(e, d)
  PROVE  From(f, d)
  BY DEF From

\* Unmark changes no picture's surface (set_reference).
LEMMA UnmarkFrom ==
  ASSUME NEW n \in Nat, NEW d \in EntriesUpTo(n), NEW S
  PROVE  Unmark(d, S) \in EntriesUpTo(n) /\ From(Unmark(d, S), d)
  <1> DEFINE u == Unmark(d, S)
  <1>1. /\ DOMAIN d \subseteq 1 .. n
        /\ \A i \in DOMAIN d : d[i] \in Entry
    BY EntriesElim
  <1>2. /\ DOMAIN u = DOMAIN d
        /\ u = [i \in DOMAIN d |-> u[i]]
        /\ \A i \in DOMAIN d : u[i] = IF i \in S THEN [d[i] EXCEPT !.ref = "None"] ELSE d[i]
    BY DEF Unmark
  <1> HIDE DEF u
  <1>3. \A i \in DOMAIN d : /\ u[i] \in Entry
                            /\ u[i].gen = d[i].gen
                            /\ u[i].nonexisting = d[i].nonexisting
    BY <1>1, <1>2 DEF Entry, Marks
  <1>4. u \in EntriesUpTo(n)
    BY <1>1, <1>2, <1>3, EntriesIntro
  <1> QED
    BY <1>2, <1>3, <1>4 DEF u, From

\* remove_unused drops pictures and changes none.
LEMMA RemoveUnusedFrom ==
  ASSUME NEW n \in Nat, NEW d \in EntriesUpTo(n)
  PROVE  RemoveUnused(d) \in EntriesUpTo(n) /\ From(RemoveUnused(d), d)
  <1> DEFINE u == RemoveUnused(d)
  <1>1. /\ DOMAIN d \subseteq 1 .. n
        /\ \A i \in DOMAIN d : d[i] \in Entry
    BY EntriesElim
  <1>2. /\ DOMAIN u \subseteq DOMAIN d
        /\ u = [i \in DOMAIN u |-> u[i]]
        /\ \A i \in DOMAIN u : u[i] = d[i]
    BY DEF RemoveUnused, Restrict
  <1> HIDE DEF u
  <1>3. u \in EntriesUpTo(n)
    BY <1>1, <1>2, EntriesIntro
  <1> QED
    BY <1>2, <1>3 DEF u, From

\* update_pic_nums changes numbers only; they may become negative.
LEMMA UpdatePicNumsFrom ==
  ASSUME NEW n \in Nat, NEW d \in EntriesUpTo(n), NEW frameNum \in Nat, NEW maxFrameNum \in Nat
  PROVE  /\ UpdatePicNums(d, frameNum, maxFrameNum) \in EntriesUpTo(n)
         /\ From(UpdatePicNums(d, frameNum, maxFrameNum), d)
  <1> DEFINE u == UpdatePicNums(d, frameNum, maxFrameNum)
  <1>1. /\ DOMAIN d \subseteq 1 .. n
        /\ \A i \in DOMAIN d : d[i] \in Entry
    BY EntriesElim
  <1>2. /\ DOMAIN u = DOMAIN d
        /\ u = [i \in DOMAIN d |-> u[i]]
        /\ \A i \in DOMAIN d :
              \/ u[i] = d[i]
              \/ u[i] = [d[i] EXCEPT !.longTermPicNum = d[i].longTermFrameIdx]
              \/ u[i] = [d[i] EXCEPT !.picNum = d[i].frameNum - maxFrameNum]
              \/ u[i] = [d[i] EXCEPT !.picNum = d[i].frameNum]
    BY DEF UpdatePicNums
  <1> HIDE DEF u
  <1>3. \A i \in DOMAIN d : /\ u[i] \in Entry
                            /\ u[i].gen = d[i].gen
                            /\ u[i].nonexisting = d[i].nonexisting
    BY <1>1, <1>2 DEF Entry
  <1>4. u \in EntriesUpTo(n)
    BY <1>1, <1>2, <1>3, EntriesIntro
  <1> QED
    BY <1>2, <1>3, <1>4 DEF u, From

\* Bumping clears flags, then drops pictures.
LEMMA BumpFrom ==
  ASSUME NEW n \in Nat, NEW d \in EntriesUpTo(n), NEW S
  PROVE  Bump(d, S) \in EntriesUpTo(n) /\ From(Bump(d, S), d)
  <1> DEFINE u == [i \in DOMAIN d |-> [d[i] EXCEPT !.needed = @ /\ i \notin S]]
  <1>1. /\ DOMAIN d \subseteq 1 .. n
        /\ \A i \in DOMAIN d : d[i] \in Entry
    BY EntriesElim
  <1>2. \A i \in DOMAIN d : \A b \in BOOLEAN :
           /\ [d[i] EXCEPT !.needed = b] \in Entry
           /\ [d[i] EXCEPT !.needed = b].gen = d[i].gen
           /\ [d[i] EXCEPT !.needed = b].nonexisting = d[i].nonexisting
    BY <1>1 DEF Entry
  <1>3. \A i \in DOMAIN d : (d[i].needed /\ i \notin S) \in BOOLEAN
    OBVIOUS
  <1>4. u \in EntriesUpTo(n) /\ From(u, d)
    BY <1>1, <1>2, <1>3, EntriesIntro DEF From
  <1>5. RemoveUnused(u) \in EntriesUpTo(n) /\ From(RemoveUnused(u), d)
    BY <1>4, RemoveUnusedFrom, FromTransitive
  <1>6. CASE S = {}
    BY <1>6 DEF Bump, From
  <1>7. CASE S # {}
    BY <1>5, <1>7 DEF Bump
  <1> QED
    BY <1>6, <1>7

\* The sliding window unmarks pictures and drops some.
LEMMA SlidingWindowFrom ==
  ASSUME NEW n \in Nat, NEW d \in EntriesUpTo(n), NEW limit
  PROVE  /\ SlidingWindowMarking(d, limit) \in EntriesUpTo(n)
         /\ From(SlidingWindowMarking(d, limit), d)
  <1>1. PICK S : SlidingWindowMarking(d, limit) \in {d, RemoveUnused(Unmark(d, S))}
    BY DEF SlidingWindowMarking
  <1>2. From(d, d)
    BY DEF From
  <1> QED
    BY <1>1, <1>2, UnmarkFrom, RemoveUnusedFrom, FromTransitive

\* mmco_op_3 gives pictures a long-term index.
LEMMA AssignLongTermFrom ==
  ASSUME NEW n \in Nat, NEW d \in EntriesUpTo(n), NEW S, NEW idx \in Nat
  PROVE  AssignLongTerm(d, S, idx) \in EntriesUpTo(n) /\ From(AssignLongTerm(d, S, idx), d)
  <1> DEFINE u == AssignLongTerm(d, S, idx)
  <1>1. /\ DOMAIN d \subseteq 1 .. n
        /\ \A i \in DOMAIN d : d[i] \in Entry
    BY EntriesElim
  <1>2. /\ DOMAIN u = DOMAIN d
        /\ u = [i \in DOMAIN d |-> u[i]]
        /\ \A i \in DOMAIN d :
              \/ u[i] = d[i]
              \/ u[i] = [d[i] EXCEPT !.ref = "LongTerm", !.longTermFrameIdx = idx]
    BY DEF AssignLongTerm
  <1> HIDE DEF u
  <1>3. \A i \in DOMAIN d : /\ u[i] \in Entry
                            /\ u[i].gen = d[i].gen
                            /\ u[i].nonexisting = d[i].nonexisting
    <2> SUFFICES ASSUME NEW i \in DOMAIN d
                 PROVE  /\ u[i] \in Entry
                        /\ u[i].gen = d[i].gen
                        /\ u[i].nonexisting = d[i].nonexisting
      OBVIOUS
    <2> DEFINE l == [d[i] EXCEPT !.ref = "LongTerm", !.longTermFrameIdx = idx]
    <2>1. d[i] \in Entry
      BY <1>1
    <2>2. l \in Entry /\ l.gen = d[i].gen /\ l.nonexisting = d[i].nonexisting
      BY <2>1 DEF Entry, Marks
    <2>3. u[i] = d[i] \/ u[i] = l
      BY <1>2
    <2> HIDE DEF l
    <2> QED
      BY <2>1, <2>2, <2>3
  <1>4. u \in EntriesUpTo(n)
    BY <1>1, <1>2, <1>3, EntriesIntro
  <1> QED
    BY <1>2, <1>3, <1>4 DEF u, From

\* What joins the ready queue are numbers of pictures (bump, drain).
LEMMA OutputOrdersType ==
  ASSUME NEW n \in Nat, NEW d \in EntriesUpTo(n), NEW S \in SUBSET DOMAIN d,
         NEW s \in OutputOrders(d, S)
  PROVE  s \in Seq(1 .. n)
  <1> DEFINE real == {i \in S : ~d[i].nonexisting}
  <1>1. real \subseteq 1 .. n
    BY EntriesElim
  <1>2. s \in [1 .. Cardinality(real) -> real]
    BY DEF OutputOrders
  <1> HIDE DEF real
  <1>3. IsFiniteSet(1 .. n)
    BY FS_Interval
  <1>4. Cardinality(real) \in Nat
    BY <1>1, <1>3, FS_Subset, FS_CardinalityType
  <1>5. s \in [1 .. Cardinality(real) -> 1 .. n]
    BY <1>1, <1>2
  <1> QED
    BY <1>4, <1>5

\* The number of pictures is that of the numbers in use, and finite.
LEMMA EntriesFinite ==
  ASSUME NEW n \in Nat, NEW d \in EntriesUpTo(n)
  PROVE  IsFiniteSet(DOMAIN d) /\ Cardinality(DOMAIN d) \in Nat
  BY EntriesElim, FS_Interval, FS_Subset, FS_CardinalityType

-----------------------------------------------------------------------------
(* The order of output *)

\* Of any pictures of the DPB one comes first: the one with the fewest before it.
LEMMA FirstInOrder ==
  ASSUME NEW n \in Nat, NEW d \in EntriesUpTo(n), NEW T \in SUBSET DOMAIN d, T # {}
  PROVE  \E m \in T : \A j \in T : ~OutputBefore(d, j, m)
  <1> DEFINE Before(i) == {j \in T : OutputBefore(d, j, i)}
             R == StrictSubsetOrdering(T)
  <1>1. IsFiniteSet(T)
    BY EntriesFinite, FS_Subset
  <1>2. IsWellFoundedOn(R, SUBSET T)
    BY <1>1, FS_StrictSubsetOrderingWellFounded, FS_FiniteSubsetsOfFinite
  <1>3. {Before(i) : i \in T} \subseteq SUBSET T /\ {Before(i) : i \in T} # {}
    OBVIOUS
  <1>4. PICK x \in {Before(i) : i \in T} : \A y \in {Before(i) : i \in T} : ~(<<y, x>> \in R)
    <2> HIDE DEF Before, R
    <2> QED
      BY <1>2, <1>3, WFMin
  <1>5. PICK m \in T : x = Before(m)
    OBVIOUS
  <1>6. \A i \in T : i \in Int /\ d[i].poc \in Int
    BY EntriesElim DEF Entry
  <1>7. ASSUME NEW j \in T, OutputBefore(d, j, m) PROVE FALSE
    <2>1. Before(j) \subseteq Before(m)
      BY <1>6, <1>7 DEF OutputBefore
    <2>2. j \in Before(m) /\ j \notin Before(j)
      BY <1>6, <1>7 DEF OutputBefore
    <2>3. <<Before(j), Before(m)>> \in R
      BY <2>1, <2>2 DEF StrictSubsetOrdering
    <2> QED
      BY <1>4, <1>5, <2>3
  <1> QED
    BY <1>7

\* min_by_key orders the pictures: of two different ones either comes first.
LEMMA OutputBeforeTotal ==
  ASSUME NEW n \in Nat, NEW d \in EntriesUpTo(n), NEW i \in DOMAIN d, NEW j \in DOMAIN d
  PROVE  /\ i = j \/ OutputBefore(d, i, j) \/ OutputBefore(d, j, i)
         /\ ~(OutputBefore(d, i, j) /\ OutputBefore(d, j, i))
         /\ \A k \in DOMAIN d : OutputBefore(d, i, j) /\ OutputBefore(d, j, k) => OutputBefore(d, i, k)
  <1>1. \A k \in DOMAIN d : k \in Int /\ d[k].poc \in Int
    BY EntriesElim DEF Entry
  <1> QED
    BY <1>1 DEF OutputBefore

-----------------------------------------------------------------------------
(* Bumping *)

\* Bumping takes out those it bumps; of the others it drops the ones that are
\* no references either.
KeptByBump(d, S) ==
    {i \in DOMAIN d : S = {} \/ IsRef(d[i]) \/ i \in Waiting(d) \ S}

LEMMA BumpWaiting ==
  ASSUME NEW n \in Nat, NEW d \in EntriesUpTo(n), NEW S \in SUBSET Waiting(d)
  PROVE  /\ Waiting(Bump(d, S)) = Waiting(d) \ S
         /\ DOMAIN Bump(d, S) = KeptByBump(d, S)
         /\ \A i \in DOMAIN Bump(d, S) : Bump(d, S)[i].poc = d[i].poc
  <1> DEFINE u == [i \in DOMAIN d |-> [d[i] EXCEPT !.needed = @ /\ i \notin S]]
             e == RemoveUnused(u)
  <1>1. CASE S = {}
    BY <1>1 DEF Bump, KeptByBump
  <1>2. CASE S # {}
    <2>1. \A i \in DOMAIN d : d[i] \in Entry
      BY EntriesElim
    <2>2. \A i \in DOMAIN d : \A b \in BOOLEAN :
             LET f == [d[i] EXCEPT !.needed = b]
             IN  f.needed = b /\ f.ref = d[i].ref /\ f.poc = d[i].poc
      BY <2>1 DEF Entry
    <2>3. \A i \in DOMAIN d : (d[i].needed /\ i \notin S) \in BOOLEAN
      OBVIOUS
    <2>4. /\ DOMAIN u = DOMAIN d
          /\ \A i \in DOMAIN d : /\ u[i].needed = (d[i].needed /\ i \notin S)
                                 /\ u[i].ref = d[i].ref
                                 /\ u[i].poc = d[i].poc
      BY <2>2, <2>3
    <2> HIDE DEF u
    <2>5. /\ DOMAIN e = {i \in DOMAIN d : IsRef(d[i]) \/ (d[i].needed /\ i \notin S)}
          /\ \A i \in DOMAIN e : e[i] = u[i]
      BY <2>4 DEF RemoveUnused, Restrict, IsRef
    <2> HIDE DEF e
    <2>6. /\ Waiting(e) = Waiting(d) \ S
          /\ DOMAIN e = {i \in DOMAIN d : IsRef(d[i]) \/ i \in Waiting(d) \ S}
          /\ \A i \in DOMAIN e : e[i].poc = d[i].poc
      BY <2>4, <2>5 DEF Waiting
    <2>7. Bump(d, S) = e
      BY <1>2 DEF Bump, e, u
    <2> QED
      BY <1>2, <2>6, <2>7 DEF KeptByBump
  <1> QED
    BY <1>1, <1>2

\* The more is bumped, the less is left.
LEMMA BumpMonotone ==
  ASSUME NEW n \in Nat, NEW d \in EntriesUpTo(n),
         NEW S \in SUBSET Waiting(d), NEW T \in SUBSET S
  PROVE  /\ DOMAIN Bump(d, S) \subseteq DOMAIN Bump(d, T)
         /\ Waiting(Bump(d, S)) \subseteq Waiting(Bump(d, T))
  <1>1. T \in SUBSET Waiting(d)
    OBVIOUS
  <1>2. DOMAIN Bump(d, S) = KeptByBump(d, S) /\ Waiting(Bump(d, S)) = Waiting(d) \ S
    BY BumpWaiting
  <1>3. DOMAIN Bump(d, T) = KeptByBump(d, T) /\ Waiting(Bump(d, T)) = Waiting(d) \ T
    BY <1>1, BumpWaiting
  <1>4. KeptByBump(d, S) \subseteq KeptByBump(d, T)
    BY DEF KeptByBump
  <1> QED
    BY <1>2, <1>3, <1>4

-----------------------------------------------------------------------------
(* What bump_as_needed lets out *)

\* What is left of b's entries when i's turn to be bumped comes.
LeftAt(b, i) ==
    Bump(b.entries, {j \in Waiting(b.entries) : OutputBefore(b.entries, j, i)})

\* The loop's condition, over what is left.
GoesOn(b, e, p) ==
    /\ ~(Cardinality(DOMAIN e) < b.maxNumPics)
    /\ Cardinality(DOMAIN e) >= b.maxReorder
    /\ \/ p.nonexisting
       \/ IsRef(p) /\ ~p.idr
       \/ \E i \in Waiting(e) : p.poc > e[i].poc

LEMMA BumpedWhileItGoesOn ==
  ASSUME NEW n \in Nat, NEW b \in DpbUpTo(n), NEW p
  PROVE  BumpedAsNeeded(b, p) = {i \in Waiting(b.entries) : GoesOn(b, LeftAt(b, i), p)}
  <1>1. ASSUME NEW e
        PROVE  /\ [b EXCEPT !.entries = e].entries = e
               /\ [b EXCEPT !.entries = e].maxNumPics = b.maxNumPics
    BY DEF DpbUpTo
  <1>2. ASSUME NEW i \in Waiting(b.entries)
        PROVE  LET left == [b EXCEPT !.entries = LeftAt(b, i)]
               IN  NeedsBumping(left, p) /\ Cardinality(DOMAIN left.entries) >= b.maxReorder
                   <=> GoesOn(b, LeftAt(b, i), p)
    <2> DEFINE e == LeftAt(b, i)
    <2> HIDE DEF e
    <2>1. LET left == [b EXCEPT !.entries = e]
          IN  NeedsBumping(left, p) /\ Cardinality(DOMAIN left.entries) >= b.maxReorder
              <=> GoesOn(b, e, p)
      BY <1>1 DEF NeedsBumping, HasEmptyFrameBuffer, GoesOn
    <2> QED
      BY <2>1 DEF e
  <1> QED
    BY <1>2 DEF BumpedAsNeeded, LeftAt

\* The pictures bumped come before those that stay: what holds when a picture's
\* turn comes held when the turn of any before it came.
LEMMA BumpedFirst ==
  ASSUME NEW n \in Nat, NEW b \in DpbUpTo(n), NEW p
  PROVE  /\ BumpedAsNeeded(b, p) \subseteq Waiting(b.entries)
         /\ \A i \in BumpedAsNeeded(b, p), j \in Waiting(b.entries) \ BumpedAsNeeded(b, p) :
               OutputBefore(b.entries, i, j)
  <1> DEFINE d == b.entries
             W == Waiting(d)
             Before(i) == {k \in W : OutputBefore(d, k, i)}
  <1>1. d \in EntriesUpTo(n) /\ b.maxNumPics \in Nat /\ b.maxReorder \in Nat
    BY DEF DpbUpTo
  <1>2. W \subseteq DOMAIN d
    BY DEF Waiting
  <1>3. BumpedAsNeeded(b, p) = {i \in W : GoesOn(b, LeftAt(b, i), p)}
    BY BumpedWhileItGoesOn
  <1>4. \A i \in W : LeftAt(b, i) = Bump(d, Before(i)) /\ Before(i) \in SUBSET W
    BY DEF LeftAt
  <1> HIDE DEF d, W
  <1>5. ASSUME NEW i \in W, NEW j \in W, GoesOn(b, LeftAt(b, i), p),
               OutputBefore(d, j, i)
        PROVE  GoesOn(b, LeftAt(b, j), p)
    <2> DEFINE di == LeftAt(b, i)
               dj == LeftAt(b, j)
    <2>1. Before(j) \subseteq Before(i)
      BY <1>1, <1>2, <1>5, OutputBeforeTotal
    <2>2. DOMAIN di \subseteq DOMAIN dj /\ Waiting(di) \subseteq Waiting(dj)
      BY <1>1, <1>4, <2>1, BumpMonotone DEF W
    <2>3. \A k \in Waiting(di) : di[k].poc = d[k].poc /\ dj[k].poc = d[k].poc
      <3>1. \A k \in DOMAIN di : di[k].poc = d[k].poc
        <4>1. Before(i) \in SUBSET Waiting(d)
          BY <1>4 DEF W
        <4> HIDE DEF Before
        <4> QED
          BY <1>1, <1>4, <4>1, BumpWaiting
      <3>2. \A k \in DOMAIN dj : dj[k].poc = d[k].poc
        <4>1. Before(j) \in SUBSET Waiting(d)
          BY <1>4 DEF W
        <4> HIDE DEF Before
        <4> QED
          BY <1>1, <1>4, <4>1, BumpWaiting
      <3>3. Waiting(di) \subseteq DOMAIN di
        BY DEF Waiting
      <3> QED
        BY <2>2, <3>1, <3>2, <3>3
    <2>4. /\ Cardinality(DOMAIN di) \in Nat /\ Cardinality(DOMAIN dj) \in Nat
          /\ Cardinality(DOMAIN di) <= Cardinality(DOMAIN dj)
      <3>1. dj \in EntriesUpTo(n)
        BY <1>1, <1>4, BumpFrom
      <3> QED
        BY <2>2, <3>1, EntriesFinite, FS_Subset, FS_CardinalityType
    <2> HIDE DEF di, dj
    <2>5. GoesOn(b, di, p)
      BY <1>5 DEF di
    <2>6. GoesOn(b, dj, p)
      BY <1>1, <2>2, <2>3, <2>4, <2>5 DEF GoesOn
    <2> QED
      BY <2>6 DEF dj
  <1>6. ASSUME NEW i \in W, NEW j \in W, GoesOn(b, LeftAt(b, i), p), ~GoesOn(b, LeftAt(b, j), p)
        PROVE  OutputBefore(d, i, j)
    BY <1>1, <1>2, <1>5, <1>6, OutputBeforeTotal
  <1> QED
    BY <1>3, <1>6 DEF W, d

\* Where the DPB stays full after bumping, no picture that stays comes before
\* the new one, which may then be handed out itself: it would have been bumped.
LEMMA PassesNone ==
  ASSUME NEW n \in Nat, NEW b \in DpbUpTo(n), NEW p, p.poc \in Int,
         b.maxReorder <= b.maxNumPics,
         ~HasEmptyFrameBuffer([b EXCEPT !.entries = Bump(@, BumpedAsNeeded(b, p))])
  PROVE  \A j \in Waiting(b.entries) \ BumpedAsNeeded(b, p) : p.poc <= b.entries[j].poc
  <1> DEFINE d == b.entries
             S == BumpedAsNeeded(b, p)
             W == Waiting(d) \ S
             e == Bump(d, S)
  <1>1. d \in EntriesUpTo(n) /\ b.maxNumPics \in Nat /\ b.maxReorder \in Nat
    BY DEF DpbUpTo
  <1>2. S \subseteq Waiting(d) /\ \A i \in S, j \in W : OutputBefore(d, i, j)
    BY BumpedFirst
  <1>3. S = {i \in Waiting(d) : GoesOn(b, LeftAt(b, i), p)}
    BY BumpedWhileItGoesOn
  <1>4. Waiting(d) \subseteq DOMAIN d
    BY DEF Waiting
  <1>5. ~(Cardinality(DOMAIN e) < b.maxNumPics)
    <2>1. /\ [b EXCEPT !.entries = Bump(@, S)] = [b EXCEPT !.entries = e]
          /\ [b EXCEPT !.entries = e].entries = e
          /\ [b EXCEPT !.entries = e].maxNumPics = b.maxNumPics
      BY DEF DpbUpTo
    <2> QED
      BY <2>1 DEF HasEmptyFrameBuffer
  <1>6. Cardinality(DOMAIN e) \in Nat
    BY <1>1, BumpFrom, EntriesFinite
  <1>7. Waiting(e) = W /\ \A i \in W : e[i].poc = d[i].poc
    <2>1. Waiting(e) = W /\ \A i \in DOMAIN e : e[i].poc = d[i].poc
      BY <1>1, <1>2, BumpWaiting
    <2>2. Waiting(e) \subseteq DOMAIN e
      BY DEF Waiting
    <2> QED
      BY <2>1, <2>2
  <1>8. ASSUME W # {}
        PROVE  \A j \in W : ~(p.poc > d[j].poc)
    <2>1. PICK m \in W : \A j \in W : ~OutputBefore(d, j, m)
      <3>1. W \in SUBSET DOMAIN d
        BY <1>4
      <3> HIDE DEF W, d
      <3> QED
        BY <1>1, <1>8, <3>1, FirstInOrder
    <2>2. {j \in Waiting(d) : OutputBefore(d, j, m)} = S
      BY <1>2, <2>1
    <2>3. LeftAt(b, m) = e
      BY <2>2 DEF LeftAt
    <2> HIDE DEF e
    <2>4. ~GoesOn(b, e, p)
      BY <1>3, <2>1, <2>3
    <2> QED
      BY <1>1, <1>5, <1>6, <1>7, <2>4 DEF GoesOn
  <1>9. \A j \in W : d[j].poc \in Int
    BY <1>1, <1>4, EntriesElim DEF Entry
  <1> QED
    BY <1>8, <1>9

-----------------------------------------------------------------------------
(* Short-term references only *)

\* What is left without long-term references: each picture is a short-term
\* reference or waits.
AllUsed(d) == \A i \in DOMAIN d : d[i].ref = "ShortTerm" \/ (d[i].ref = "None" /\ d[i].needed)

\* How many references are to be left when one more is to come.
WindowLimit(maxNumRefFrames) == IF maxNumRefFrames > 1 THEN maxNumRefFrames ELSE 1

\* The pictures of such a buffer are the references and those that wait.
LEMMA UsedPictures ==
  ASSUME NEW d, AllUsed(d)
  PROVE  /\ DOMAIN d = Refs(d) \cup Waiting(d)
         /\ Refs(d) = ShortTerm(d)
  BY DEF AllUsed, Refs, ShortTerm, Waiting, IsRef

\* Removing what is unused leaves such a buffer, if nothing is long-term.
LEMMA RemoveUnusedUsed ==
  ASSUME NEW d, \A i \in DOMAIN d : d[i].ref \in {"None", "ShortTerm"}
  PROVE  /\ AllUsed(RemoveUnused(d))
         /\ Refs(RemoveUnused(d)) = Refs(d)
  <1> DEFINE u == RemoveUnused(d)
  <1>1. /\ DOMAIN u = {i \in DOMAIN d : IsRef(d[i]) \/ d[i].needed}
        /\ \A i \in DOMAIN u : u[i] = d[i]
    BY DEF RemoveUnused, Restrict
  <1> HIDE DEF u
  <1> QED
    BY <1>1 DEF AllUsed, Refs, IsRef, u

\* Numbering changes no mark.
LEMMA UpdatePicNumsUsed ==
  ASSUME NEW n \in Nat, NEW d \in EntriesUpTo(n), AllUsed(d), NEW frameNum, NEW max
  PROVE  AllUsed(UpdatePicNums(d, frameNum, max))
  <1> DEFINE u == UpdatePicNums(d, frameNum, max)
  <1>1. \A i \in DOMAIN d : d[i] \in Entry
    BY EntriesElim
  <1>2. DOMAIN u = DOMAIN d
    BY DEF UpdatePicNums
  <1>3. \A i \in DOMAIN d : u[i].ref = d[i].ref /\ u[i].needed = d[i].needed
    <2> TAKE i \in DOMAIN d
    <2>1. \/ u[i] = d[i]
          \/ u[i] = [d[i] EXCEPT !.longTermPicNum = d[i].longTermFrameIdx]
          \/ \E k : u[i] = [d[i] EXCEPT !.picNum = k]
      BY DEF UpdatePicNums
    <2> HIDE DEF u
    <2> QED
      BY <1>1, <2>1 DEF Entry
  <1> HIDE DEF u
  <1> QED
    BY <1>2, <1>3 DEF AllUsed, u

\* Bumping takes pictures out, and no references.
LEMMA BumpUsed ==
  ASSUME NEW n \in Nat, NEW d \in EntriesUpTo(n), AllUsed(d), NEW S
  PROVE  AllUsed(Bump(d, S)) /\ Refs(Bump(d, S)) = Refs(d)
  <1> DEFINE b == [i \in DOMAIN d |-> [d[i] EXCEPT !.needed = @ /\ i \notin S]]
  <1>1. \A i \in DOMAIN d : d[i] \in Entry
    BY EntriesElim
  <1>2. DOMAIN b = DOMAIN d /\ \A i \in DOMAIN d : b[i].ref = d[i].ref
    BY <1>1 DEF Entry
  <1> HIDE DEF b
  <1>3. (\A i \in DOMAIN b : b[i].ref \in {"None", "ShortTerm"}) /\ Refs(b) = Refs(d)
    BY <1>2 DEF AllUsed, Refs, IsRef
  <1>4. AllUsed(RemoveUnused(b)) /\ Refs(RemoveUnused(b)) = Refs(d)
    BY <1>3, RemoveUnusedUsed
  <1> QED
    BY <1>4 DEF Bump, b

\* Of k pictures in a row, at most k - m have m or more before them.
LEMMA RankedApart ==
  ASSUME NEW low \in Nat, NEW high \in Nat, low <= high, NEW S,
         NEW rank \in [S -> low .. high - 1],
         \A i, j \in S : rank[i] = rank[j] => i = j
  PROVE  IsFiniteSet(S) /\ Cardinality(S) <= high - low
  <1> DEFINE T == low .. high - 1
  <1>1. rank \in Injection(S, T)
    BY DEF Injection, IsInjective
  <1>2. high - 1 \in Int /\ low \in Int
    OBVIOUS
  <1>3. IsFiniteSet(T) /\ Cardinality(T) = IF low > high - 1 THEN 0 ELSE high - 1 - low + 1
    BY <1>2, FS_Interval
  <1>4. Cardinality(T) = high - low
    BY <1>3
  <1>5. IsFiniteSet(S) /\ Cardinality(S) <= Cardinality(T)
    BY <1>1, <1>3, FS_Injection
  <1> QED
    BY <1>4, <1>5

\* The sliding window makes room for one more reference when all of them are
\* short-term: those it leaves have at least `excess` before them.
LEMMA WindowMakesRoom ==
  ASSUME NEW n \in Nat, NEW d \in EntriesUpTo(n), AllUsed(d), NEW max \in Nat
  PROVE  /\ AllUsed(SlidingWindowMarking(d, max))
         /\ Cardinality(Refs(SlidingWindowMarking(d, max))) < WindowLimit(max)
  <1> DEFINE S == ShortTerm(d)
             limit == WindowLimit(max)
             excess == Cardinality(Refs(d)) - limit + 1
             Older(i) == {j \in S : WrapBefore(d, j, i)}
             oldest == {i \in S : Cardinality(Older(i)) < excess}
             u == Unmark(d, oldest)
  <1>1. Refs(d) = S /\ S \subseteq DOMAIN d
    BY UsedPictures DEF ShortTerm
  <1>2. IsFiniteSet(S) /\ Cardinality(S) \in Nat
    BY <1>1, EntriesFinite, FS_Subset, FS_CardinalityType
  <1>3. limit \in Nat /\ limit >= 1
    BY DEF WindowLimit
  <1>4. SlidingWindowMarking(d, max) = IF excess <= 0 THEN d ELSE RemoveUnused(u)
    BY DEF SlidingWindowMarking, WindowLimit
  <1>5. CASE excess <= 0
    BY <1>1, <1>2, <1>3, <1>4, <1>5
  <1>6. CASE ~(excess <= 0)
    <2>1. /\ DOMAIN u = DOMAIN d
          /\ \A i \in DOMAIN d : u[i].ref \in {"None", "ShortTerm"}
          /\ Refs(u) = S \ oldest
      <3>1. \A i \in DOMAIN d : d[i] \in Entry
        BY EntriesElim
      <3>2. DOMAIN u = DOMAIN d /\ \A i \in DOMAIN d : u[i].ref = IF i \in oldest THEN "None" ELSE d[i].ref
        BY <3>1 DEF Unmark, Entry
      <3> HIDE DEF u
      <3> QED
        BY <1>1, <3>2 DEF AllUsed, Refs, IsRef
    <2> HIDE DEF u
    <2>2. AllUsed(RemoveUnused(u)) /\ Refs(RemoveUnused(u)) = S \ oldest
      BY <2>1, RemoveUnusedUsed
    <2>3. \A i \in S : /\ Older(i) \subseteq S \ {i} /\ IsFiniteSet(Older(i))
                       /\ Cardinality(Older(i)) \in 0 .. Cardinality(S) - 1
      <3> SUFFICES ASSUME NEW i \in S
                   PROVE  /\ Older(i) \subseteq S \ {i} /\ IsFiniteSet(Older(i))
                          /\ Cardinality(Older(i)) \in 0 .. Cardinality(S) - 1
        OBVIOUS
      <3>1. i \in Int /\ d[i].picNum \in Int
        BY <1>1, EntriesElim DEF Entry
      <3>2. Older(i) \subseteq S \ {i}
        BY <3>1 DEF WrapBefore
      <3> HIDE DEF Older
      <3>3. Cardinality(S \ {i}) = Cardinality(S) - 1 /\ IsFiniteSet(S \ {i})
        BY <1>2, FS_RemoveElement
      <3>4. /\ IsFiniteSet(Older(i)) /\ Cardinality(Older(i)) <= Cardinality(S \ {i})
            /\ Cardinality(Older(i)) \in Nat
        BY <3>2, <3>3, FS_Subset, FS_CardinalityType
      <3> QED
        BY <1>2, <3>2, <3>3, <3>4
    <2>4. ASSUME NEW i \in S, NEW j \in S, WrapBefore(d, i, j)
          PROVE  Cardinality(Older(i)) < Cardinality(Older(j))
      <3>1. \A k \in S : k \in Int /\ d[k].picNum \in Int
        BY <1>1, EntriesElim DEF Entry
      <3>2. Older(i) \subseteq Older(j) /\ i \in Older(j) /\ i \notin Older(i)
        BY <2>4, <3>1 DEF WrapBefore
      <3> HIDE DEF Older
      <3>3. Older(i) # Older(j)
        BY <3>2
      <3>4. /\ Cardinality(Older(i)) \in Nat /\ Cardinality(Older(j)) \in Nat
            /\ Cardinality(Older(i)) <= Cardinality(Older(j))
            /\ Cardinality(Older(i)) = Cardinality(Older(j)) => Older(i) = Older(j)
        BY <2>3, <3>2, FS_Subset, FS_CardinalityType
      <3> QED
        BY <3>3, <3>4
    <2>5. \A i, j \in S : Cardinality(Older(i)) = Cardinality(Older(j)) => i = j
      <3>1. \A i, j \in S : i = j \/ WrapBefore(d, i, j) \/ WrapBefore(d, j, i)
        <4>1. \A k \in S : k \in Int /\ d[k].picNum \in Int
          BY <1>1, EntriesElim DEF Entry
        <4> QED
          BY <4>1 DEF WrapBefore
      <3> HIDE DEF Older
      <3>2. \A i \in S : Cardinality(Older(i)) \in Int
        BY <1>2, <2>3
      <3> QED
        BY <2>4, <3>1, <3>2
    <2> DEFINE left == S \ oldest
               rank == [i \in left |-> Cardinality(Older(i))]
    <2>6. excess \in Nat /\ excess <= Cardinality(S)
      BY <1>1, <1>2, <1>3, <1>6
    <2>7. rank \in [left -> excess .. Cardinality(S) - 1]
      <3>1. \A i \in left : Cardinality(Older(i)) \in excess .. Cardinality(S) - 1
        <4> HIDE DEF Older, excess
        <4> QED
          BY <1>2, <2>3, <2>6
      <3> HIDE DEF left
      <3> QED
        BY <3>1
    <2>8. \A i, j \in left : rank[i] = rank[j] => i = j
      <3> HIDE DEF Older
      <3> QED
        BY <2>5
    <2> HIDE DEF left, rank, excess
    <2>9. IsFiniteSet(left) /\ Cardinality(left) <= Cardinality(S) - excess
      BY <1>2, <2>6, <2>7, <2>8, RankedApart
    <2>10. Cardinality(left) \in Nat
      BY <2>9, FS_CardinalityType
    <2>11. Cardinality(left) < limit
      BY <1>1, <1>2, <1>3, <2>6, <2>9, <2>10 DEF excess
    <2> QED
      BY <1>4, <1>6, <2>2, <2>11 DEF left
  <1> QED
    BY <1>5, <1>6

\* Bumping makes room for a picture that is to be kept, if there are fewer
\* references than frame buffers: in a buffer that stayed full nothing waits.
LEMMA BumpingMakesRoom ==
  ASSUME NEW n \in Nat, NEW b \in DpbUpTo(n), NEW p,
         p.nonexisting \/ (IsRef(p) /\ ~p.idr),
         b.maxReorder <= b.maxNumPics, AllUsed(b.entries),
         Cardinality(Refs(b.entries)) < b.maxNumPics
  PROVE  Cardinality(DOMAIN Bump(b.entries, BumpedAsNeeded(b, p))) < b.maxNumPics
  <1> DEFINE d == b.entries
             S == BumpedAsNeeded(b, p)
             W == Waiting(d) \ S
             e == Bump(d, S)
  <1>1. d \in EntriesUpTo(n) /\ b.maxNumPics \in Nat /\ b.maxReorder \in Nat
    BY DEF DpbUpTo
  <1>2. S \subseteq Waiting(d) /\ \A i \in S, j \in W : OutputBefore(d, i, j)
    BY BumpedFirst
  <1>3. S = {i \in Waiting(d) : GoesOn(b, LeftAt(b, i), p)}
    BY BumpedWhileItGoesOn
  <1>4. Waiting(d) \subseteq DOMAIN d
    BY DEF Waiting
  <1>5. Cardinality(DOMAIN e) \in Nat
    BY <1>1, BumpFrom, EntriesFinite
  <1>6. DOMAIN e = KeptByBump(d, S)
    BY <1>1, <1>2, BumpWaiting
  <1> SUFFICES ASSUME ~(Cardinality(DOMAIN e) < b.maxNumPics)
               PROVE  FALSE
    OBVIOUS
  <1>7. W = {}
    <2>1. SUFFICES ASSUME W # {}
                   PROVE  FALSE
      OBVIOUS
    <2>2. PICK m \in W : \A j \in W : ~OutputBefore(d, j, m)
      <3>1. W \in SUBSET DOMAIN d
        BY <1>4
      <3> HIDE DEF W, d
      <3> QED
        BY <1>1, <2>1, <3>1, FirstInOrder
    <2>3. {j \in Waiting(d) : OutputBefore(d, j, m)} = S
      BY <1>2, <2>2
    <2>4. LeftAt(b, m) = e
      BY <2>3 DEF LeftAt
    <2> HIDE DEF e
    <2>5. GoesOn(b, e, p)
      BY <1>1, <1>5 DEF GoesOn
    <2> QED
      BY <1>3, <2>2, <2>4, <2>5
  <1>8. DOMAIN e = Refs(d)
    <2>1. DOMAIN d = Refs(d) \cup Waiting(d)
      BY UsedPictures
    <2>2. CASE S = {}
      <3>1. KeptByBump(d, S) = DOMAIN d /\ Waiting(d) = {}
        BY <1>7, <2>2 DEF KeptByBump
      <3> QED
        BY <1>6, <2>1, <3>1
    <2>3. CASE S # {}
      BY <1>6, <1>7, <2>3 DEF KeptByBump, Refs
    <2> QED
      BY <2>2, <2>3
  <1> QED
    BY <1>8

-----------------------------------------------------------------------------
(* The frame numbers of a window *)

\* The frame number after e, and the one before it, modulo M.
NumberAfter(e, M) == IF e + 1 = M THEN 0 ELSE e + 1
NumberBefore(e, M) == IF e = 0 THEN M - 1 ELSE e - 1

\* How long before frame number e frame number f was.
Age(e, f, M) == IF f <= e THEN e - f ELSE e - f + M

\* The references of d have frame numbers that go back from e without a hole.
Lined(d, e, M) ==
    /\ \A i \in Refs(d) : d[i].frameNum \in 0 .. M - 1
    /\ \A i, j \in Refs(d) : d[i].frameNum = d[j].frameNum => i = j
    /\ \A i \in Refs(d) : \A a \in 0 .. Age(e, d[i].frameNum, M) :
          \E j \in Refs(d) : Age(e, d[j].frameNum, M) = a

\* update_pic_nums was run for a picture of frame number f.
Renumbered(d, f, M) ==
    \A i \in Refs(d) :
        d[i].picNum = IF d[i].frameNum > f THEN d[i].frameNum - M ELSE d[i].frameNum

\* e has references of d only, each with its numbers.
RefsFrom(e, d) ==
    /\ Refs(e) \subseteq Refs(d)
    /\ \A i \in Refs(e) : e[i].frameNum = d[i].frameNum

\* Numbers before and after go round; ages tell numbers apart and grow by one.
LEMMA Ages ==
  ASSUME NEW M \in Nat, M > 1, NEW e \in 0 .. M - 1
  PROVE  /\ NumberAfter(e, M) \in 0 .. M - 1 /\ NumberBefore(e, M) \in 0 .. M - 1
         /\ NumberAfter(NumberBefore(e, M), M) = e /\ NumberBefore(NumberAfter(e, M), M) = e
         /\ NumberAfter(e, M) # e
         /\ \A f \in 0 .. M - 1 :
               /\ Age(e, f, M) \in 0 .. M - 1
               /\ Age(e, f, M) = M - 1 <=> f = NumberAfter(e, M)
               /\ Age(NumberAfter(e, M), f, M)
                     = IF f = NumberAfter(e, M) THEN 0 ELSE Age(e, f, M) + 1
               /\ \A g \in 0 .. M - 1 : Age(e, f, M) = Age(e, g, M) => f = g
  BY DEF NumberAfter, NumberBefore, Age

\* frame_num counts modulo MaxFrameNum.
LEMMA NextIsAfter ==
  ASSUME NEW M \in Nat, M > 1, NEW e \in 0 .. M - 1
  PROVE  (e + 1) % M = NumberAfter(e, M)
  <1>1. CASE e + 1 = M
    <2>1. M % M = 0
      OBVIOUS
    <2> QED
      BY <1>1, <2>1 DEF NumberAfter
  <1>2. CASE e + 1 # M
    <2>1. e + 1 \in 0 .. M - 1
      BY <1>2
    <2>2. \A x \in 0 .. M - 1 : x % M = x
      OBVIOUS
    <2> QED
      BY <1>2, <2>1, <2>2 DEF NumberAfter
  <1> QED
    BY <1>1, <1>2

\* Fewer references, with no hole, are still in line; all the more the same ones.
LEMMA LinedSame ==
  ASSUME NEW d, NEW e, NEW r, NEW M, Lined(d, r, M), RefsFrom(e, d), Refs(e) = Refs(d)
  PROVE  Lined(e, r, M)
  BY DEF Lined, RefsFrom

\* Without a hole there are more references than the oldest is old.
LEMMA AgesWithin ==
  ASSUME NEW n \in Nat, NEW d \in EntriesUpTo(n), NEW M \in Nat, M > 1, NEW r \in 0 .. M - 1,
         Lined(d, r, M), NEW i \in Refs(d)
  PROVE  Age(r, d[i].frameNum, M) < Cardinality(Refs(d))
  <1> DEFINE top == Age(r, d[i].frameNum, M)
             S == 0 .. top
             at == [a \in S |-> CHOOSE j \in Refs(d) : Age(r, d[j].frameNum, M) = a]
  <1>1. top \in Nat
    BY Ages DEF Lined
  <1>2. \A a \in S : \E j \in Refs(d) : Age(r, d[j].frameNum, M) = a
    BY DEF Lined
  <1> HIDE DEF top
  <1>3. \A a \in S : at[a] \in Refs(d) /\ Age(r, d[at[a]].frameNum, M) = a
    BY <1>2
  <1>4. at \in [S -> Refs(d)]
    BY <1>3
  <1>5. \A a, b \in S : at[a] = at[b] => a = b
    BY <1>3
  <1>6. at \in Injection(S, Refs(d))
    <2> HIDE DEF at
    <2> QED
      BY <1>4, <1>5 DEF Injection, IsInjective
  <1>7. IsFiniteSet(Refs(d)) /\ Cardinality(Refs(d)) \in Nat
    BY EntriesFinite, FS_Subset, FS_CardinalityType DEF Refs
  <1>8. IsFiniteSet(S) /\ Cardinality(S) = top + 1
    <2>1. PICK t \in Nat : t = top
      BY <1>1
    <2>2. PICK z \in Int : z = 0
      OBVIOUS
    <2>t. t \in Int
      OBVIOUS
    <2>3. IsFiniteSet(z .. t) /\ Cardinality(z .. t) = IF z > t THEN 0 ELSE t - z + 1
      BY <2>2, <2>t, FS_Interval, Zenon
    <2> QED
      BY <2>1, <2>2, <2>3
  <1>9. Cardinality(S) <= Cardinality(Refs(d))
    BY <1>6, <1>7, FS_Injection
  <1> QED
    BY <1>1, <1>7, <1>8, <1>9 DEF top
\* The sliding window takes the oldest: what it leaves is still in line.
LEMMA WindowLined ==
  ASSUME NEW n \in Nat, NEW d \in EntriesUpTo(n), AllUsed(d), NEW max \in Nat,
         NEW M \in Nat, M > 1, NEW r \in 0 .. M - 1, Lined(d, r, M),
         Renumbered(d, NumberAfter(r, M), M), Cardinality(Refs(d)) < M
  PROVE  /\ RefsFrom(SlidingWindowMarking(d, max), d)
         /\ Lined(SlidingWindowMarking(d, max), r, M)
  <1> DEFINE S == ShortTerm(d)
             excess == Cardinality(Refs(d)) - WindowLimit(max) + 1
             Older(i) == {j \in S : WrapBefore(d, j, i)}
             oldest == {i \in S : Cardinality(Older(i)) < excess}
             u == Unmark(d, oldest)
             w == RemoveUnused(u)
             Years(i) == Age(r, d[i].frameNum, M)
  <1>1. Refs(d) = S /\ S \subseteq DOMAIN d
    BY UsedPictures DEF ShortTerm
  <1>2. IsFiniteSet(S) /\ Cardinality(S) \in Nat
    BY <1>1, EntriesFinite, FS_Subset, FS_CardinalityType
  <1>3. SlidingWindowMarking(d, max) = IF excess <= 0 THEN d ELSE w
    BY DEF SlidingWindowMarking, WindowLimit
  <1>4. CASE excess <= 0
    BY <1>3, <1>4 DEF RefsFrom
  <1>5. CASE ~(excess <= 0)
    <2>1. \A i \in DOMAIN d : d[i] \in Entry
      BY EntriesElim
    <2>2. /\ DOMAIN u = DOMAIN d
          /\ \A i \in DOMAIN d : /\ u[i].ref = IF i \in oldest THEN "None" ELSE d[i].ref
                                /\ u[i].frameNum = d[i].frameNum
      BY <2>1 DEF Unmark, Entry
    <2>3. Refs(u) = S \ oldest /\ \A i \in DOMAIN u : u[i].ref \in {"None", "ShortTerm"}
      <3> HIDE DEF u
      <3> QED
        BY <1>1, <2>2 DEF AllUsed, Refs, IsRef
    <2> HIDE DEF u
    <2>4. Refs(w) = S \ oldest
      BY <2>3, RemoveUnusedUsed
    <2>5. RefsFrom(w, d)
      <3>1. \A i \in Refs(w) : w[i] = u[i]
        BY DEF Refs, RemoveUnused, Restrict
      <3> HIDE DEF w
      <3> QED
        BY <1>1, <2>2, <2>4, <3>1 DEF RefsFrom
    <2>6. \A i \in S : /\ d[i].frameNum \in 0 .. M - 1
                       /\ Years(i) \in 0 .. M - 2
                       /\ d[i].picNum = NumberAfter(r, M) - 1 - Years(i)
      <3> SUFFICES ASSUME NEW i \in S
                   PROVE  /\ d[i].frameNum \in 0 .. M - 1
                          /\ Years(i) \in 0 .. M - 2
                          /\ d[i].picNum = NumberAfter(r, M) - 1 - Years(i)
        OBVIOUS
      <3>1. d[i].frameNum \in 0 .. M - 1
            /\ d[i].picNum = IF d[i].frameNum > NumberAfter(r, M) THEN d[i].frameNum - M ELSE d[i].frameNum
        BY <1>1 DEF Lined, Renumbered
      <3>2. Years(i) < M - 1 /\ Years(i) \in Nat
        <4>1. Years(i) < Cardinality(Refs(d))
          BY <1>1, AgesWithin
        <4>2. Years(i) \in Nat
          BY <3>1, Ages
        <4> HIDE DEF Years
        <4> QED
          BY <1>1, <1>2, <4>1, <4>2
      <3>3. d[i].frameNum # NumberAfter(r, M)
        BY <3>1, <3>2, Ages
      <3> QED
        BY <3>1, <3>2, <3>3 DEF NumberAfter, Age
    <2>7. \A i, j \in S : Years(j) < Years(i) => WrapBefore(d, i, j)
      <3>1. NumberAfter(r, M) \in Int
        BY Ages
      <3> HIDE DEF Years
      <3> QED
        BY <2>6, <3>1 DEF WrapBefore
    <2>8. \A i, j, k \in S : WrapBefore(d, k, i) /\ WrapBefore(d, i, j) => WrapBefore(d, k, j)
      <3>1. \A i \in S : i \in Int /\ d[i].picNum \in Int
        BY <1>1, <2>1, EntriesElim DEF Entry
      <3> QED
        BY <3>1 DEF WrapBefore
    <2>9. \A i \in S \ oldest : \A j \in S : Years(j) < Years(i) => j \in S \ oldest
      <3> SUFFICES ASSUME NEW i \in S \ oldest, NEW j \in S, Years(j) < Years(i)
                   PROVE  j \in S \ oldest
        OBVIOUS
      <3>1. Older(i) \subseteq Older(j) /\ IsFiniteSet(Older(j))
        BY <1>2, <2>7, <2>8, FS_Subset
      <3> HIDE DEF Older
      <3>2. /\ Cardinality(Older(i)) <= Cardinality(Older(j))
            /\ Cardinality(Older(i)) \in Nat /\ Cardinality(Older(j)) \in Nat
        BY <3>1, FS_Subset, FS_CardinalityType
      <3>3. excess \in Int
        BY <1>1, <1>2 DEF WindowLimit
      <3> HIDE DEF excess
      <3> QED
        BY <3>2, <3>3
    <2> DEFINE left == S \ oldest
    <2>10. \A i \in left : \A a \in 0 .. Years(i) : \E j \in left : Years(j) = a
      <3> SUFFICES ASSUME NEW i \in left, NEW a \in 0 .. Years(i)
                   PROVE  \E j \in left : Years(j) = a
        OBVIOUS
      <3>1. PICK j \in S : Years(j) = a
        BY <1>1 DEF Lined
      <3>2. i \in S
        OBVIOUS
      <3> HIDE DEF left
      <3>3. j = i \/ Years(j) < Years(i) \/ Years(j) = Years(i)
        <4> HIDE DEF Years
        <4> QED
          BY <2>6, <3>1, <3>2
      <3>4. Years(j) = Years(i) => j = i
        <4>1. d[i].frameNum \in 0 .. M - 1 /\ d[j].frameNum \in 0 .. M - 1
          BY <2>6, <3>2
        <4>2. Years(j) = Years(i) => d[j].frameNum = d[i].frameNum
          BY <4>1, Ages
        <4> HIDE DEF Years
        <4> QED
          BY <1>1, <3>2, <4>2 DEF Lined
      <3>5. j \in left
        BY <2>9, <3>3, <3>4 DEF left
      <3> QED
        BY <3>1, <3>5
    <2>11. Lined(w, r, M)
      <3>1. Refs(w) = left /\ left \subseteq Refs(d) /\ \A i \in left : w[i].frameNum = d[i].frameNum
        BY <1>1, <2>4, <2>5 DEF RefsFrom
      <3> HIDE DEF left, w
      <3> QED
        BY <2>10, <3>1 DEF Lined
    <2> QED
      BY <1>3, <1>5, <2>5, <2>11
  <1> QED
    BY <1>4, <1>5

\* Of references in line, the window takes an older one before a younger one.
LEMMA WindowYears ==
  ASSUME NEW n \in Nat, NEW d \in EntriesUpTo(n), NEW M \in Nat, M > 1, NEW r \in 0 .. M - 1,
         Lined(d, r, M), Renumbered(d, NumberAfter(r, M), M), Cardinality(Refs(d)) < M
  PROVE  /\ \A i \in Refs(d) : Age(r, d[i].frameNum, M) \in 0 .. M - 2
         /\ \A i, j \in Refs(d) :
               Age(r, d[j].frameNum, M) < Age(r, d[i].frameNum, M) => WrapBefore(d, i, j)
  <1> DEFINE Years(i) == Age(r, d[i].frameNum, M)
  <1>1. \A i \in Refs(d) : /\ Years(i) \in 0 .. M - 2
                           /\ d[i].picNum = NumberAfter(r, M) - 1 - Years(i)
    <2> SUFFICES ASSUME NEW i \in Refs(d)
                 PROVE  /\ Years(i) \in 0 .. M - 2
                        /\ d[i].picNum = NumberAfter(r, M) - 1 - Years(i)
      OBVIOUS
    <2>1. d[i].frameNum \in 0 .. M - 1
          /\ d[i].picNum = IF d[i].frameNum > NumberAfter(r, M) THEN d[i].frameNum - M ELSE d[i].frameNum
      BY DEF Lined, Renumbered
    <2>2. Years(i) < M - 1 /\ Years(i) \in Nat
      <3>1. Years(i) < Cardinality(Refs(d))
        BY AgesWithin
      <3>2. Years(i) \in Nat
        BY <2>1 DEF Age
      <3>3. Cardinality(Refs(d)) \in Nat
        BY EntriesFinite, FS_Subset, FS_CardinalityType DEF Refs
      <3> HIDE DEF Years
      <3> QED
        BY <3>1, <3>2, <3>3
    <2>3. d[i].frameNum # NumberAfter(r, M)
      BY <2>1, <2>2, Ages
    <2> QED
      BY <2>1, <2>2, <2>3 DEF NumberAfter, Age
  <1>2. NumberAfter(r, M) \in Int
    BY Ages
  <1> HIDE DEF Years
  <1>3. \A i, j \in Refs(d) : Years(j) < Years(i) => WrapBefore(d, i, j)
    BY <1>1, <1>2 DEF WrapBefore
  <1> QED
    BY <1>1, <1>3 DEF Years

\* The window leaves the references younger than it is to hold.
LEMMA WindowKeeps ==
  ASSUME NEW n \in Nat, NEW d \in EntriesUpTo(n), AllUsed(d), NEW max \in Nat,
         NEW M \in Nat, M > 1, NEW r \in 0 .. M - 1, Lined(d, r, M),
         Renumbered(d, NumberAfter(r, M), M), Cardinality(Refs(d)) < M,
         NEW i \in Refs(d), Age(r, d[i].frameNum, M) < WindowLimit(max) - 1
  PROVE  i \in Refs(SlidingWindowMarking(d, max))
  <1> DEFINE S == ShortTerm(d)
             limit == WindowLimit(max)
             excess == Cardinality(Refs(d)) - limit + 1
             Older(j) == {k \in S : WrapBefore(d, k, j)}
             oldest == {j \in S : Cardinality(Older(j)) < excess}
             u == Unmark(d, oldest)
             w == RemoveUnused(u)
             Years(j) == Age(r, d[j].frameNum, M)
             younger == {j \in S : Years(j) <= Years(i)}
  <1>1. Refs(d) = S /\ S \subseteq DOMAIN d
    BY UsedPictures DEF ShortTerm
  <1>2. IsFiniteSet(S) /\ Cardinality(S) \in Nat /\ limit \in Nat
    BY <1>1, EntriesFinite, FS_Subset, FS_CardinalityType DEF WindowLimit
  <1>3. SlidingWindowMarking(d, max) = IF excess <= 0 THEN d ELSE w
    BY DEF SlidingWindowMarking, WindowLimit
  <1>4. CASE excess <= 0
    BY <1>3, <1>4
  <1>5. CASE ~(excess <= 0)
    <2>1. Refs(w) = S \ oldest
      <3>1. \A j \in DOMAIN d : d[j] \in Entry
        BY EntriesElim
      <3>2. DOMAIN u = DOMAIN d
            /\ \A j \in DOMAIN d : u[j].ref = IF j \in oldest THEN "None" ELSE d[j].ref
        BY <3>1 DEF Unmark, Entry
      <3> HIDE DEF u
      <3>3. Refs(u) = S \ oldest /\ \A j \in DOMAIN u : u[j].ref \in {"None", "ShortTerm"}
        BY <1>1, <3>2 DEF AllUsed, Refs, IsRef
      <3> QED
        BY <3>3, RemoveUnusedUsed
    <2>2. \A j \in S : Years(j) > Years(i) => j \in Older(i)
      BY <1>1, WindowYears
    <2>3. \A j \in S : Years(j) \in Nat /\ d[j].frameNum \in 0 .. M - 1
      BY <1>1, Ages DEF Lined
    <2>4. S = Older(i) \cup younger
      <3> HIDE DEF Years
      <3>1. \A j \in S : Years(j) <= Years(i) \/ Years(j) > Years(i)
        BY <1>1, <2>3
      <3>2. Older(i) \subseteq S /\ younger \subseteq S
        OBVIOUS
      <3>3. \A j \in S : j \in Older(i) \/ j \in younger
        BY <2>2, <3>1 DEF younger
      <3> HIDE DEF Older, younger
      <3> QED
        BY <3>2, <3>3
    <2>5. IsFiniteSet(younger) /\ Cardinality(younger) <= Years(i) + 1
      <3> DEFINE age == [j \in younger |-> Years(j)]
                 top == Years(i) + 1
      <3>1. top \in Nat /\ 0 <= top /\ 0 \in Nat
        BY <1>1, <2>3
      <3>2. \A j \in younger : Years(j) \in 0 .. top - 1
        <4> HIDE DEF Years
        <4> QED
          BY <1>1, <2>3
      <3>3. \A j, k \in younger : Years(j) = Years(k) => j = k
        <4>1. \A j, k \in S : Years(j) = Years(k) => d[j].frameNum = d[k].frameNum
          BY <2>3, Ages
        <4>2. \A j, k \in S : d[j].frameNum = d[k].frameNum => j = k
          BY <1>1 DEF Lined
        <4> HIDE DEF Years
        <4> QED
          BY <4>1, <4>2
      <3> HIDE DEF top, younger, Years
      <3>4. age \in [younger -> 0 .. top - 1] /\ \A j, k \in younger : age[j] = age[k] => j = k
        BY <3>2, <3>3
      <3> HIDE DEF age
      <3>5. IsFiniteSet(younger) /\ Cardinality(younger) <= top - 0
        BY <3>1, <3>4, RankedApart
      <3> QED
        BY <3>1, <3>5 DEF top
    <2>6. i \in S /\ Years(i) \in Nat /\ Years(i) + 1 <= limit - 1
      <3>1. i \in S
        BY <1>1
      <3>2. Years(i) \in Nat /\ Years(i) < limit - 1
        BY <2>3, <3>1
      <3> HIDE DEF Years, limit
      <3> QED
        BY <1>2, <3>1, <3>2
    <2>7. IsFiniteSet(Older(i))
      BY <1>2, FS_Subset
    <2> HIDE DEF Older, younger, Years
    <2>8. Cardinality(S) <= Cardinality(Older(i)) + Cardinality(younger)
          /\ Cardinality(Older(i)) \in Nat /\ Cardinality(younger) \in Nat
      <3>1. /\ Cardinality(Older(i) \cup younger)
               = Cardinality(Older(i)) + Cardinality(younger) - Cardinality(Older(i) \cap younger)
            /\ IsFiniteSet(Older(i) \cap younger)
        BY <2>5, <2>7, FS_Union, FS_Subset
      <3>2. Cardinality(Older(i) \cap younger) \in Nat
        BY <3>1, FS_CardinalityType
      <3>3. Cardinality(Older(i)) \in Nat /\ Cardinality(younger) \in Nat
        BY <2>5, <2>7, FS_CardinalityType
      <3> QED
        BY <2>4, <3>1, <3>2, <3>3
    <2>9. ~(Cardinality(Older(i)) < excess)
      <3> HIDE DEF limit
      <3> QED
        BY <1>1, <1>2, <2>5, <2>6, <2>8
    <2>10. i \in S \ oldest
      BY <2>6, <2>9
    <2> QED
      BY <1>3, <1>5, <2>1, <2>10
  <1> QED
    BY <1>4, <1>5

\* Numbering and bumping leave the references and their frame numbers.
LEMMA UpdatePicNumsLined ==
  ASSUME NEW n \in Nat, NEW d \in EntriesUpTo(n), AllUsed(d), NEW f \in Nat, NEW M \in Nat
  PROVE  /\ Refs(UpdatePicNums(d, f, M)) = Refs(d)
         /\ RefsFrom(UpdatePicNums(d, f, M), d)
         /\ Renumbered(UpdatePicNums(d, f, M), f, M)
  <1> DEFINE u == UpdatePicNums(d, f, M)
  <1>1. \A i \in DOMAIN d : d[i] \in Entry
    BY EntriesElim
  <1>2. DOMAIN u = DOMAIN d
    BY DEF UpdatePicNums
  <1>3. \A i \in DOMAIN d :
           u[i] = IF d[i].ref = "ShortTerm"
                  THEN [d[i] EXCEPT !.picNum = IF d[i].frameNum > f THEN d[i].frameNum - M
                                               ELSE d[i].frameNum]
                  ELSE d[i]
    BY DEF UpdatePicNums, AllUsed
  <1> HIDE DEF u
  <1>4. \A i \in DOMAIN d :
           /\ u[i].ref = d[i].ref /\ u[i].frameNum = d[i].frameNum
           /\ IsRef(d[i]) => u[i].picNum = IF d[i].frameNum > f THEN d[i].frameNum - M
                                           ELSE d[i].frameNum
    BY <1>1, <1>3 DEF Entry, AllUsed, IsRef
  <1> QED
    BY <1>2, <1>4 DEF Refs, RefsFrom, Renumbered, IsRef, u

\* Bumping leaves the references, and their numbers, alone.
LEMMA BumpLined ==
  ASSUME NEW n \in Nat, NEW d \in EntriesUpTo(n), AllUsed(d), NEW S
  PROVE  RefsFrom(Bump(d, S), d) /\ Refs(Bump(d, S)) = Refs(d)
  <1> DEFINE b == [i \in DOMAIN d |-> [d[i] EXCEPT !.needed = @ /\ i \notin S]]
  <1>1. Refs(Bump(d, S)) = Refs(d)
    BY BumpUsed
  <1>2. \A i \in DOMAIN d : d[i] \in Entry
    BY EntriesElim
  <1>3. \A i \in DOMAIN d : b[i].frameNum = d[i].frameNum
    BY <1>2 DEF Entry
  <1>4. \A i \in Refs(Bump(d, S)) : Bump(d, S)[i] \in {b[i], d[i]}
    BY DEF Bump, RemoveUnused, Restrict, Refs
  <1> HIDE DEF b
  <1>5. Refs(d) \subseteq DOMAIN d
    BY DEF Refs
  <1> QED
    BY <1>1, <1>3, <1>4, <1>5 DEF RefsFrom
=============================================================================
