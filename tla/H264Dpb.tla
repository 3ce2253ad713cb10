------------------------------ MODULE H264Dpb ------------------------------
(***************************************************************************)
(* The H.264 decoded picture buffer: src/src/codec/h264/dpb.rs, as the     *)
(* decoder drives it, with progressive frames only (SequenceInfo::new      *)
(* refuses interlaced streams, so a picture never has another field).      *)
(*                                                                         *)
(* A dpb is a record [entries, maxNumPics, maxReorder].  `entries` maps a  *)
(* picture number to its entry; picture numbers are given in the order in  *)
(* which pictures are pushed, so the vector position of the code is the    *)
(* order of the numbers, "the first that matches" is the lowest number,    *)
(* and retain() is a restriction of the domain.                            *)
(***************************************************************************)
EXTENDS Integers, FiniteSets, Sequences, Functions

Marks == {"None", "ShortTerm", "LongTerm"}

Entry ==
    [poc : Int, frameNum : Nat, picNum : Int, ref : Marks, longTermFrameIdx : Nat,
     longTermPicNum : Nat, nonexisting : BOOLEAN, needed : BOOLEAN, gen : Nat]

NoEntries == [i \in {} |-> i]

\* Dpb::default()
EmptyDpb == [entries |-> NoEntries, maxNumPics |-> 0, maxReorder |-> 0]

IsRef(p) == p.ref # "None"

Refs(d) == {i \in DOMAIN d : IsRef(d[i])}
ShortTerm(d) == {i \in DOMAIN d : d[i].ref = "ShortTerm"}
LongTerm(d) == {i \in DOMAIN d : d[i].ref = "LongTerm"}
Waiting(d) == {i \in DOMAIN d : d[i].needed}

\* The element of S with the lowest vector position, as a set of at most one.
First(S) == {i \in S : \A j \in S : i <= j}

SetLimits(dpb, maxNumPics, maxReorder) ==
    [dpb EXCEPT !.maxNumPics = maxNumPics, !.maxReorder = maxReorder]

RemoveUnused(d) == Restrict(d, {i \in DOMAIN d : IsRef(d[i]) \/ d[i].needed})

Unmark(d, S) ==
    [i \in DOMAIN d |-> IF i \in S THEN [d[i] EXCEPT !.ref = "None"] ELSE d[i]]

MarkAllAsUnusedForRef(d) == Unmark(d, DOMAIN d)

\* Mutant: frame numbers above the current one are not wrapped.
UpdatePicNumsUnwrapped(d, frameNum, maxFrameNum) ==
    [i \in DOMAIN d |->
        CASE d[i].ref = "LongTerm"  -> [d[i] EXCEPT !.longTermPicNum = d[i].longTermFrameIdx]
          [] d[i].ref = "ShortTerm" -> [d[i] EXCEPT !.picNum = d[i].frameNum]
          [] OTHER -> d[i]]

UpdatePicNums(d, frameNum, maxFrameNum) ==
    [i \in DOMAIN d |->
        CASE d[i].ref = "LongTerm"  -> [d[i] EXCEPT !.longTermPicNum = d[i].longTermFrameIdx]
          [] d[i].ref = "ShortTerm" -> [d[i] EXCEPT !.picNum = IF d[i].frameNum > frameNum
                                                             THEN d[i].frameNum - maxFrameNum
                                                             ELSE d[i].frameNum]
          [] OTHER -> d[i]]

HasEmptyFrameBuffer(dpb) == Cardinality(DOMAIN dpb.entries) < dpb.maxNumPics

\* Store `pic` as number `id`, in the pool of sequence `gen`; the caller
\* checks the limit first (StorePictureError::DpbIsFull).
Store(dpb, id, pic, gen) ==
    [dpb EXCEPT !.entries =
        [i \in DOMAIN @ \cup {id} |->
            IF i = id THEN [poc |-> pic.poc, frameNum |-> pic.frameNum, picNum |-> pic.picNum,
                            ref |-> pic.ref, longTermFrameIdx |-> pic.longTermFrameIdx,
                            longTermPicNum |-> 0, nonexisting |-> pic.nonexisting,
                            needed |-> ~pic.nonexisting, gen |-> gen]
            ELSE @[i]]]

-----------------------------------------------------------------------------
(* Bumping (C.4.5.3).                                                      *)

\* Mutant: pictures are bumped in decoding order.
DecodedBefore(d, i, j) == i < j

\* min_by_key on the picture order count: the first of equal counts wins.
OutputBefore(d, i, j) ==
    \/ d[i].poc < d[j].poc
    \/ d[i].poc = d[j].poc /\ i < j

\* The pictures of S as they join the ready queue, as a set of one.  A picture
\* invented for a gap has no surface: extend(...flatten()) leaves it out.
OutputOrders(d, S) ==
    LET real == {i \in S : ~d[i].nonexisting}
    IN  {s \in [1 .. Cardinality(real) -> real] :
            \A m, n \in DOMAIN s : m < n => OutputBefore(d, s[m], s[n])}

NeedsBumping(dpb, pic) ==
    /\ ~HasEmptyFrameBuffer(dpb)
    /\ \/ pic.nonexisting
       \/ IsRef(pic) /\ ~pic.idr
       \/ \E i \in Waiting(dpb.entries) : pic.poc > dpb.entries[i].poc

\* Mutant: a bumped picture stays marked as needed for output.
BumpUnmarked(d, S) == IF S = {} THEN d ELSE RemoveUnused(d)

\* The entries after the pictures S were bumped, one after the other, each
\* followed by remove_unused().
Bump(d, S) ==
    IF S = {} THEN d
    ELSE RemoveUnused([i \in DOMAIN d |-> [d[i] EXCEPT !.needed = @ /\ i \notin S]])

\* The pictures the bump_as_needed loop lets out: a waiting picture is bumped
\* when the loop's condition still holds once all those before it are out.
BumpedAsNeeded(dpb, pic) ==
    {i \in Waiting(dpb.entries) :
        LET earlier == {j \in Waiting(dpb.entries) : OutputBefore(dpb.entries, j, i)}
            left    == [dpb EXCEPT !.entries = Bump(@, earlier)]
        IN  NeedsBumping(left, pic) /\ Cardinality(DOMAIN left.entries) >= dpb.maxReorder}

\* clear() keeps max_num_pics and resets max_num_reorder_frames.
Clear(dpb) == [dpb EXCEPT !.entries = NoEntries, !.maxReorder = 0]

\* What drain() can return before it clears the buffer.
Drained(dpb) == OutputOrders(dpb.entries, Waiting(dpb.entries))

-----------------------------------------------------------------------------
(* Reference marking (8.2.5).                                              *)

\* min_by_key on frame_num_wrap, which equals pic_num for frames.
WrapBefore(d, i, j) ==
    \/ d[i].picNum < d[j].picNum
    \/ d[i].picNum = d[j].picNum /\ i < j

\* Unmarks the oldest short-term references until there is room for one more.
SlidingWindowMarking(d, maxNumRefFrames) ==
    LET limit  == IF maxNumRefFrames > 1 THEN maxNumRefFrames ELSE 1
        excess == Cardinality(Refs(d)) - limit + 1
        oldest == {i \in ShortTerm(d) :
                      Cardinality({j \in ShortTerm(d) : WrapBefore(d, j, i)}) < excess}
    IN  IF excess <= 0 THEN d ELSE RemoveUnused(Unmark(d, oldest))

\* find_short_term_with_pic_num, find_long_term_with_long_term_pic_num
FindShortTerm(d, picNum) == First({i \in ShortTerm(d) : d[i].picNum = picNum})
FindLongTerm(d, longTermPicNum) ==
    First({i \in LongTerm(d) : d[i].longTermPicNum = longTermPicNum})
HolderOf(d, longTermFrameIdx) ==
    First({i \in LongTerm(d) : d[i].longTermFrameIdx = longTermFrameIdx})

\* Each operation is named by the picture it addresses; None is an error.
MmcoTarget(d, pic, op) ==
    CASE op.op \in {1, 3} -> FindShortTerm(d, pic.picNum - op.diff)
      [] op.op = 2        -> FindLongTerm(d, op.picNum)
      [] OTHER            -> {}

\* mmco_op_3 also refuses a picture that was invented for a gap.
MmcoFails(d, pic, op) ==
    /\ op.op \in {1, 2, 3}
    /\ \/ MmcoTarget(d, pic, op) = {}
       \/ op.op = 3 /\ \E i \in MmcoTarget(d, pic, op) : d[i].nonexisting

\* Marks the pictures of S as long-term references with index idx.
AssignLongTerm(d, S, idx) ==
    [i \in DOMAIN d |->
        IF i \in S THEN [d[i] EXCEPT !.ref = "LongTerm", !.longTermFrameIdx = idx] ELSE d[i]]

\* Mutant: the index's former holder keeps it.
MmcoEntriesSharingIndex(d, pic, op) ==
    CASE op.op \in {1, 2} -> Unmark(d, MmcoTarget(d, pic, op))
      [] op.op = 3 -> AssignLongTerm(d, MmcoTarget(d, pic, op), op.idx)
      [] op.op = 4 -> Unmark(d, {i \in LongTerm(d) : d[i].longTermFrameIdx >= op.maxIdxPlus1})
      [] op.op = 5 -> MarkAllAsUnusedForRef(d)
      [] op.op = 6 -> Unmark(d, HolderOf(d, op.idx))
      [] OTHER     -> d

\* The entries after one memory management control operation.
MmcoEntries(d, pic, op) ==
    CASE op.op \in {1, 2} -> Unmark(d, MmcoTarget(d, pic, op))
      [] op.op = 3 -> AssignLongTerm(Unmark(d, HolderOf(d, op.idx)),
                                     MmcoTarget(d, pic, op), op.idx)
      [] op.op = 4 -> Unmark(d, {i \in LongTerm(d) : d[i].longTermFrameIdx >= op.maxIdxPlus1})
      [] op.op = 5 -> MarkAllAsUnusedForRef(d)
      [] op.op = 6 -> Unmark(d, HolderOf(d, op.idx))
      [] OTHER     -> d

\* The current picture after one memory management control operation.
MmcoPicture(pic, op) ==
    CASE op.op = 5 -> [pic EXCEPT !.mmco5 = TRUE, !.frameNum = 0, !.poc = 0]
      [] op.op = 6 -> [pic EXCEPT !.ref = "LongTerm", !.longTermFrameIdx = op.idx]
      [] OTHER     -> pic
=============================================================================
