------------------------------ MODULE H265Dpb ------------------------------
(***************************************************************************)
(* The H.265 decoded picture buffer: src/src/codec/h265/dpb.rs.            *)
(*                                                                         *)
(* A buffer maps a picture number to its entry.  Numbers are given in the  *)
(* order in which pictures are pushed, so the vector position of the code  *)
(* is the order of the numbers, and remove() and retain() are restrictions *)
(* of the domain.                                                          *)
(***************************************************************************)
EXTENDS Integers, FiniteSets, Sequences, Functions

NoEntries == [i \in {} |-> i]

IsRef(p) == p.ref # "None"

Refs(d) == {i \in DOMAIN d : IsRef(d[i])}
Waiting(d) == {i \in DOMAIN d : d[i].needed}

\* position(): the element of S that is first in the vector, as a set of at
\* most one.
First(S) == {i \in S : \A j \in S : i <= j}

\* The three lookups of derive_rps.  The mask is that of the low bits.
FindRefByPoc(d, poc) == First({i \in Refs(d) : d[i].poc = poc})
FindRefByPocMasked(d, lsb, maxLsb) == First({i \in Refs(d) : d[i].poc % maxLsb = lsb})
FindShortTermRefByPoc(d, poc) == First({i \in DOMAIN d : d[i].ref = "ShortTerm" /\ d[i].poc = poc})

\* set_reference on the pictures of S.
SetReference(d, S, ref) ==
    [i \in DOMAIN d |-> IF i \in S THEN [d[i] EXCEPT !.ref = ref] ELSE d[i]]

MarkAllAsUnusedForRef(d) == SetReference(d, DOMAIN d, "None")

\* Mutant: a picture nothing refers to is removed before its output.
RemoveUnreferenced(d) == Restrict(d, Refs(d))

RemoveUnused(d) == Restrict(d, Refs(d) \cup Waiting(d))

-----------------------------------------------------------------------------
(* Bumping (C.5.2).                                                        *)

\* Mutant: as many pictures as may be reordered are too many.
OutputOverdueAtLimit(d, sps) == Cardinality(Waiting(d)) >= sps.maxNumReorder

OutputOverdue(d, sps) ==
    \/ Cardinality(Waiting(d)) > sps.maxNumReorder
    \/ /\ sps.maxLatencyIncreasePlus1 # 0
       /\ \E i \in Waiting(d) :
             d[i].latency >= sps.maxNumReorder + sps.maxLatencyIncreasePlus1 - 1

NeedsBumping(d, sps) ==
    \/ OutputOverdue(d, sps)
    \/ Cardinality(DOMAIN d) >= sps.maxDecPicBuffering

\* The lowest order count of the pictures that wait, then the first entry of
\* that order count, which need not be one that waits.
LowestForBumping(d) ==
    First({i \in DOMAIN d :
              \E j \in Waiting(d) :
                 /\ d[i].poc = d[j].poc
                 /\ \A k \in Waiting(d) : d[j].poc <= d[k].poc})

\* What makes that one a picture that waits, and the only one to be found.
CountsApart(d) == \A i \in DOMAIN d, j \in Waiting(d) : d[i].poc = d[j].poc => i = j

\* Mutant: a bumped reference stays marked as needed for output.
BumpReferenceUnmarked(d, S, flush) ==
    Restrict(d, {i \in DOMAIN d : i \notin S \/ (IsRef(d[i]) /\ ~flush)})

\* bump(): the buffer once the pictures of S, which LowestForBumping found,
\* are out.
Bump(d, S, flush) ==
    LET output == [i \in DOMAIN d |-> [d[i] EXCEPT !.needed = @ /\ i \notin S]]
    IN  Restrict(output, {i \in DOMAIN d : i \notin S \/ (IsRef(d[i]) /\ ~flush)})

\* drain(): bump(true) until nothing waits takes, at each order count that
\* waits, every entry up to the last that does, in the order of the vector;
\* clear() follows every drain().  A set of one sequence, as for H.264.
DrainTakes(d) == {i \in DOMAIN d : \E j \in Waiting(d) : i <= j /\ d[i].poc = d[j].poc}

Drained(d) ==
    {s \in [1 .. Cardinality(DrainTakes(d)) -> DrainTakes(d)] :
        \A m, n \in DOMAIN s : m < n =>
            \/ d[s[m]].poc < d[s[n]].poc
            \/ d[s[m]].poc = d[s[n]].poc /\ s[m] < s[n]}

\* store_picture, once the caller has checked the limit: every picture before
\* this one has waited for one more.
Store(d, id, pic, gen) ==
    [i \in DOMAIN d \cup {id} |->
        IF i = id
        THEN [poc |-> pic.poc, ref |-> "ShortTerm", needed |-> pic.output, latency |-> 0, gen |-> gen]
        ELSE [d[i] EXCEPT !.latency = @ + 1]]
=============================================================================
