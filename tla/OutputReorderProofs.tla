------------------------ MODULE OutputReorderProofs ------------------------
(***************************************************************************)
(* What follows from the abstract specification of the output, for any     *)
(* decoder that implements it: picture numbers and order counts need only  *)
(* be integers.                                                            *)
(***************************************************************************)
EXTENDS OutputReorder, FiniteSetTheorems, TLAPS

\* Finitely many pictures wait, so a step hands over a sequence of them.
IInv == TypeOK /\ IsFiniteSet(DOMAIN waiting) /\ EachPictureOnce

\* The pictures a step hands over are different ones, of those that wait:
\* Before is irreflexive.
LEMMA OrdersDistinct ==
  ASSUME IInv,
         NEW S \in SUBSET DOMAIN waiting, NEW s \in Orders(S)
  PROVE  /\ s \in Seq(Nat)
         /\ \A m \in DOMAIN s : s[m] \in S
         /\ \A m, n \in DOMAIN s : m # n => s[m] # s[n]
  <1> DEFINE k == Cardinality(S)
  <1>1. k \in Nat
    BY FS_Subset, FS_CardinalityType DEF IInv
  <1>2. s \in [1 .. k -> S] /\ \A m, n \in 1 .. k : m < n => Before(s[m], s[n])
    BY DEF Orders
  <1> HIDE DEF k
  <1>3. \A i \in S : i \in Nat /\ i \in Int /\ waiting[i] \in Int
    BY DEF IInv, TypeOK
  <1>4. s \in [1 .. k -> Nat] /\ DOMAIN s = 1 .. k
    BY <1>2, <1>3
  <1>5. \A i \in S : ~Before(i, i)
    BY <1>3 DEF Before
  <1>6. ASSUME NEW m \in 1 .. k, NEW n \in 1 .. k, m # n PROVE s[m] # s[n]
    <2>1. m < n \/ n < m
      BY <1>1, <1>6
    <2> QED
      BY <1>2, <1>5, <2>1
  <1> QED
    BY <1>1, <1>2, <1>4, <1>6

\* What is out after the pictures of s left, when none of them was out before.
LEMMA AppendDistinct ==
  ASSUME NEW T, NEW o \in Seq(T), NEW s \in Seq(T),
         \A m, n \in DOMAIN o : m # n => o[m] # o[n],
         \A m, n \in DOMAIN s : m # n => s[m] # s[n],
         \A m \in DOMAIN o, n \in DOMAIN s : o[m] # s[n]
  PROVE  /\ o \o s \in Seq(T)
         /\ \A m, n \in DOMAIN (o \o s) : m # n => (o \o s)[m] # (o \o s)[n]
         /\ \A m \in DOMAIN (o \o s) : \/ \E l \in DOMAIN o : (o \o s)[m] = o[l]
                                       \/ \E l \in DOMAIN s : (o \o s)[m] = s[l]
  <1> DEFINE a == o \o s
  <1>1. /\ a \in Seq(T) /\ DOMAIN a = 1 .. Len(o) + Len(s)
        /\ DOMAIN o = 1 .. Len(o) /\ DOMAIN s = 1 .. Len(s)
        /\ Len(o) \in Nat /\ Len(s) \in Nat
    OBVIOUS
  <1>2. ASSUME NEW m \in DOMAIN a
        PROVE  \/ m \in DOMAIN o /\ a[m] = o[m]
               \/ m - Len(o) \in DOMAIN s /\ m > Len(o) /\ a[m] = s[m - Len(o)]
    BY <1>1, <1>2
  <1> HIDE DEF a
  <1>3. ASSUME NEW m \in DOMAIN a, NEW n \in DOMAIN a, m # n PROVE a[m] # a[n]
    <2>1. m \in Int /\ n \in Int
      BY <1>1
    <2>2. CASE m - Len(o) \in DOMAIN s /\ n - Len(o) \in DOMAIN s
               /\ a[m] = s[m - Len(o)] /\ a[n] = s[n - Len(o)]
      <3>1. m - Len(o) # n - Len(o)
        BY <1>1, <1>3, <2>1
      <3> QED
        BY <2>2, <3>1
    <2> QED
      BY <1>2, <1>3, <2>2
  <1>4. \A m \in DOMAIN a : (\E l \in DOMAIN o : a[m] = o[l]) \/ (\E l \in DOMAIN s : a[m] = s[l])
    BY <1>2
  <1> QED
    BY <1>1, <1>3, <1>4 DEF a

\* Pictures leave: those that do are out, and no longer wait.
LEMMA LeaveIInv ==
  ASSUME IInv,
         NEW S \in SUBSET DOMAIN waiting, NEW s \in Orders(S)
  PROVE  /\ out \o s \in Seq(Nat)
         /\ \A m, n \in DOMAIN (out \o s) : m # n => (out \o s)[m] # (out \o s)[n]
         /\ \A m \in DOMAIN (out \o s) : (out \o s)[m] \in Released \cup S
         /\ Stay(S) \in [DOMAIN waiting \ S -> Int]
         /\ IsFiniteSet(DOMAIN waiting \ S)
  <1>1. /\ s \in Seq(Nat)
        /\ \A m \in DOMAIN s : s[m] \in S
        /\ \A m, n \in DOMAIN s : m # n => s[m] # s[n]
    BY OrdersDistinct
  <1>2. /\ out \in Seq(Nat)
        /\ \A m, n \in DOMAIN out : m # n => out[m] # out[n]
        /\ \A m \in DOMAIN out : out[m] \in Released /\ out[m] \notin DOMAIN waiting
    BY DEF IInv, TypeOK, EachPictureOnce, Released
  <1>3. /\ out \o s \in Seq(Nat)
        /\ \A m, n \in DOMAIN (out \o s) : m # n => (out \o s)[m] # (out \o s)[n]
        /\ \A m \in DOMAIN (out \o s) : \/ \E l \in DOMAIN out : (out \o s)[m] = out[l]
                                        \/ \E l \in DOMAIN s : (out \o s)[m] = s[l]
    <2>1. \A m \in DOMAIN out, n \in DOMAIN s : out[m] # s[n]
      BY <1>1, <1>2
    <2> DEFINE T == Nat
               o == out
    <2>2. /\ o \in Seq(T) /\ s \in Seq(T)
          /\ \A m, n \in DOMAIN o : m # n => o[m] # o[n]
          /\ \A m, n \in DOMAIN s : m # n => s[m] # s[n]
          /\ \A m \in DOMAIN o, n \in DOMAIN s : o[m] # s[n]
      BY <1>1, <1>2, <2>1
    <2> HIDE DEF T, o
    <2>3. /\ o \o s \in Seq(T)
          /\ \A m, n \in DOMAIN (o \o s) : m # n => (o \o s)[m] # (o \o s)[n]
          /\ \A m \in DOMAIN (o \o s) : \/ \E l \in DOMAIN o : (o \o s)[m] = o[l]
                                        \/ \E l \in DOMAIN s : (o \o s)[m] = s[l]
      BY <2>2, AppendDistinct
    <2> QED
      BY <2>3 DEF T, o
  <1>4. \A m \in DOMAIN (out \o s) : (out \o s)[m] \in Released \cup S
    BY <1>1, <1>2, <1>3
  <1>5. Stay(S) \in [DOMAIN waiting \ S -> Int]
    BY DEF Stay, IInv, TypeOK
  <1>6. IsFiniteSet(DOMAIN waiting \ S)
    BY FS_Subset DEF IInv
  <1> QED
    BY <1>3, <1>4, <1>5, <1>6

\* The invariant after a step, from what the step does to each variable: the
\* pictures of the new output O are in P, those of W wait.
LEMMA StepIInv ==
  ASSUME IInv, NEW O \in Seq(Nat), NEW P, NEW W,
         \A m, n \in DOMAIN O : m # n => O[m] # O[n],
         \A m \in DOMAIN O : O[m] \in P,
         out' = O, discarded' = discarded,
         W \subseteq Nat, IsFiniteSet(W), waiting' \in [W -> Int],
         P \cap W = {}, P \cap discarded = {}, W \cap discarded = {}
  PROVE  IInv'
  <1>1. TypeOK' /\ IsFiniteSet(DOMAIN waiting')
    BY DEF IInv, TypeOK
  <1>2. Released' \subseteq P /\ DOMAIN waiting' = W
    BY DEF Released
  <1>3. EachPictureOnce'
    <2>1. \A m, n \in DOMAIN out' : m # n => out'[m] # out'[n]
      OBVIOUS
    <2>2. /\ Released' \cap DOMAIN waiting' = {}
          /\ Released' \cap discarded' = {}
          /\ discarded' \cap DOMAIN waiting' = {}
      BY <1>2
    <2> QED
      BY <2>1, <2>2 DEF EachPictureOnce
  <1> QED
    BY <1>1, <1>3 DEF IInv

\* Pictures leave.
LEMMA ReleaseIInv ==
  ASSUME IInv,
         NEW S \in Due, NEW s \in Orders(S), Release(S, s)
  PROVE  IInv'
  <1> DEFINE O == out \o s
             P == Released \cup S
             W == DOMAIN waiting \ S
  <1>1. S \in SUBSET DOMAIN waiting
    BY DEF Due
  <1>2. /\ O \in Seq(Nat)
        /\ \A m, n \in DOMAIN O : m # n => O[m] # O[n]
        /\ \A m \in DOMAIN O : O[m] \in P
        /\ Stay(S) \in [W -> Int]
        /\ IsFiniteSet(W)
    BY <1>1, LeaveIInv
  <1>3. out' = O /\ discarded' = discarded /\ waiting' = Stay(S)
    BY DEF Release
  <1>4. W \subseteq Nat
    BY DEF IInv, TypeOK
  <1>5. /\ P \cap W = {}
        /\ P \cap discarded = {}
        /\ W \cap discarded = {}
    BY <1>1 DEF IInv, EachPictureOnce
  <1> HIDE DEF O, P, W
  <1>6. waiting' \in [W -> Int]
    BY <1>2, <1>3
  <1> QED
    BY <1>2, <1>3, <1>4, <1>5, <1>6, StepIInv

\* Pictures leave, and a new one waits.
LEMMA AcceptIInv ==
  ASSUME IInv,
         NEW S \in Due, NEW s \in Orders(S), Accept(S, s)
  PROVE  IInv'
  <1> DEFINE O == out \o s
             P == Released \cup S
             W == (DOMAIN waiting \ S) \cup {number}
  <1>1. S \in SUBSET DOMAIN waiting
    BY DEF Due
  <1>2. /\ O \in Seq(Nat)
        /\ \A m, n \in DOMAIN O : m # n => O[m] # O[n]
        /\ \A m \in DOMAIN O : O[m] \in P
        /\ IsFiniteSet(DOMAIN waiting \ S)
    BY <1>1, LeaveIInv
  <1>3. /\ out' = O /\ discarded' = discarded
        /\ number \in Nat /\ number \notin DOMAIN waiting \cup Released \cup discarded
        /\ waiting' \in [W -> Int]
    BY <1>1 DEF Accept, IsNew, Stay, IInv, TypeOK
  <1>4. W \subseteq Nat
    BY <1>3 DEF IInv, TypeOK
  <1>5. IsFiniteSet(W)
    BY <1>2, FS_AddElement
  <1>6. /\ P \cap W = {}
        /\ P \cap discarded = {}
        /\ W \cap discarded = {}
    BY <1>1, <1>3 DEF IInv, EachPictureOnce
  <1> HIDE DEF O, P, W
  <1> QED
    BY <1>2, <1>3, <1>4, <1>5, <1>6, StepIInv

\* Pictures leave, and a new one with them.
LEMMA PassIInv ==
  ASSUME IInv,
         NEW S \in Due, NEW s \in Orders(S), Pass(S, s)
  PROVE  IInv'
  <1> DEFINE o == out \o s
             O == o \o <<number>>
             P == Released \cup S \cup {number}
             W == DOMAIN waiting \ S
  <1>1. S \in SUBSET DOMAIN waiting
    BY DEF Due
  <1>2. /\ o \in Seq(Nat)
        /\ \A m, n \in DOMAIN o : m # n => o[m] # o[n]
        /\ \A m \in DOMAIN o : o[m] \in Released \cup S
        /\ Stay(S) \in [W -> Int]
        /\ IsFiniteSet(W)
    BY <1>1, LeaveIInv
  <1>3. /\ out' = O /\ discarded' = discarded /\ waiting' = Stay(S)
        /\ number \in Nat /\ number \notin DOMAIN waiting \cup Released \cup discarded
    BY DEF Pass, IsNew
  <1>4. W \subseteq Nat
    BY DEF IInv, TypeOK
  <1>5. /\ P \cap W = {}
        /\ P \cap discarded = {}
        /\ W \cap discarded = {}
    BY <1>1, <1>3 DEF IInv, EachPictureOnce
  <1> HIDE DEF o, W
  <1> DEFINE t == <<number>>
  <1>7. t \in Seq(Nat) /\ DOMAIN t = {1} /\ t[1] = number
    BY <1>2, <1>3
  <1> HIDE DEF t
  <1>8. /\ O \in Seq(Nat)
        /\ \A m, n \in DOMAIN O : m # n => O[m] # O[n]
        /\ \A m \in DOMAIN O : (\E l \in DOMAIN o : O[m] = o[l]) \/ (\E l \in DOMAIN t : O[m] = t[l])
    <2>1. \A m, n \in DOMAIN t : m # n => t[m] # t[n]
      BY <1>7
    <2>2. \A m \in DOMAIN o, n \in DOMAIN t : o[m] # t[n]
      BY <1>1, <1>2, <1>3, <1>7
    <2> DEFINE U == Nat
    <2>3. /\ o \in Seq(U) /\ t \in Seq(U)
          /\ \A m, n \in DOMAIN o : m # n => o[m] # o[n]
      BY <1>2, <1>7
    <2> HIDE DEF U
    <2>4. /\ o \o t \in Seq(U)
          /\ \A m, n \in DOMAIN (o \o t) : m # n => (o \o t)[m] # (o \o t)[n]
          /\ \A m \in DOMAIN (o \o t) : \/ \E l \in DOMAIN o : (o \o t)[m] = o[l]
                                        \/ \E l \in DOMAIN t : (o \o t)[m] = t[l]
      BY <2>1, <2>2, <2>3, AppendDistinct
    <2>5. O = o \o t
      BY DEF t
    <2> HIDE DEF O
    <2> QED
      BY <2>4, <2>5 DEF U
  <1> HIDE DEF O
  <1>9. \A m \in DOMAIN O : O[m] \in P
    BY <1>2, <1>7, <1>8
  <1> HIDE DEF P
  <1>10. waiting' \in [W -> Int] /\ out' = O
    BY <1>2, <1>3
  <1> QED
    BY <1>2, <1>3, <1>4, <1>5, <1>8, <1>9, <1>10, StepIInv

\* Every step of the output keeps the invariant.
LEMMA NextIInv ==
  ASSUME IInv, [Next]_vars
  PROVE  IInv'
  <1>1. ASSUME NEW S \in Due, NEW s \in Orders(S), Release(S, s) PROVE IInv'
    BY <1>1, ReleaseIInv
  <1>2. ASSUME NEW S \in Due, NEW s \in Orders(S), Accept(S, s) \/ Pass(S, s)
        PROVE  IInv'
    BY <1>2, AcceptIInv, PassIInv
  <1>3. CASE Discard
    BY <1>3, FS_EmptySet DEF Discard, IInv, TypeOK, EachPictureOnce, Released
  <1>4. CASE UNCHANGED vars
    BY <1>4 DEF vars, IInv, TypeOK, EachPictureOnce, Released
  <1> QED
    BY <1>1, <1>2, <1>3, <1>4 DEF Next

\* Whatever implements OutputReorder hands each picture over at most once, and
\* none that it discarded: so do decode() and flush() of any codec.
THEOREM OutputOnce == Spec => []EachPictureOnce
  <1>1. Init => IInv
    BY FS_EmptySet DEF Init, IInv, TypeOK, EachPictureOnce, Released
  <1>2. IInv /\ [Next]_vars => IInv'
    BY NextIInv
  <1>3. IInv => EachPictureOnce
    BY DEF IInv
  <1> QED
    BY <1>1, <1>2, <1>3, PTL DEF Spec
=============================================================================
