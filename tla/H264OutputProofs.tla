-------------------------- MODULE H264OutputProofs --------------------------
(***************************************************************************)
(* H264Decoder implements OutputReorder for any stream of coded pictures   *)
(* and any parameter sets: whatever is lost, refused or fails, pictures    *)
(* come due in output order, each at most once, and only an IDR picture    *)
(* that asks for it drops any.  The loop of submit calls the decoder as    *)
(* the decoder's own module has it, so what was proved of the decoder for  *)
(* any stream of pictures holds for any access units, whatever slices they *)
(* hold.  And a picture of the encoder of MCH264Decoder that keeps to the  *)
(* sliding window always finds room in the DPB, among references that      *)
(* their frame numbers tell apart.                                         *)
(***************************************************************************)
EXTENDS MCH264Decoder, H264DecoderProofs

\* What was proved of the output of any decoder that keeps the promise.
Promise == INSTANCE OutputReorderProofs WITH
    number  <- pictures,
    count   <- IF phase = "marking" THEN pic.poc ELSE 0,
    waiting <- WaitingCounts(dpb.entries),
    out     <- taken \o ready

-----------------------------------------------------------------------------
(* What the operators of H264Dpb do to the pictures that wait *)

\* Unmarking and the removal of unused pictures leave them waiting
\* (set_reference, remove_unused).
LEMMA UnmarkWaiting ==
  ASSUME NEW n \in Nat, NEW d \in EntriesUpTo(n), NEW S
  PROVE  WaitingCounts(Unmark(d, S)) = WaitingCounts(d)
  <1> DEFINE u == Unmark(d, S)
  <1>1. \A i \in DOMAIN d : d[i] \in Entry
    BY EntriesElim
  <1>2. /\ DOMAIN u = DOMAIN d
        /\ \A i \in DOMAIN d : u[i].needed = d[i].needed /\ u[i].poc = d[i].poc
    BY <1>1 DEF Unmark, Entry
  <1> HIDE DEF u
  <1>3. Waiting(u) = Waiting(d) /\ \A i \in Waiting(d) : u[i].poc = d[i].poc
    BY <1>2 DEF Waiting
  <1> QED
    BY <1>3 DEF WaitingCounts, u

LEMMA RemoveUnusedWaiting ==
  ASSUME NEW d
  PROVE  WaitingCounts(RemoveUnused(d)) = WaitingCounts(d)
  <1> DEFINE u == RemoveUnused(d)
  <1>1. /\ DOMAIN u = {i \in DOMAIN d : IsRef(d[i]) \/ d[i].needed}
        /\ \A i \in DOMAIN u : u[i] = d[i]
    BY DEF RemoveUnused, Restrict
  <1> HIDE DEF u
  <1>2. Waiting(u) = Waiting(d) /\ \A i \in Waiting(d) : u[i].poc = d[i].poc
    BY <1>1 DEF Waiting
  <1> QED
    BY <1>2 DEF WaitingCounts, u

\* So do the sliding window, the memory management operations and the numbering.
LEMMA SlidingWindowWaiting ==
  ASSUME NEW n \in Nat, NEW d \in EntriesUpTo(n), NEW limit
  PROVE  WaitingCounts(SlidingWindowMarking(d, limit)) = WaitingCounts(d)
  <1>1. PICK S : SlidingWindowMarking(d, limit) \in {d, RemoveUnused(Unmark(d, S))}
    BY DEF SlidingWindowMarking
  <1> QED
    BY <1>1, UnmarkWaiting, RemoveUnusedWaiting

LEMMA AssignLongTermWaiting ==
  ASSUME NEW n \in Nat, NEW d \in EntriesUpTo(n), NEW S, NEW idx
  PROVE  WaitingCounts(AssignLongTerm(d, S, idx)) = WaitingCounts(d)
  <1> DEFINE u == AssignLongTerm(d, S, idx)
  <1>1. \A i \in DOMAIN d : d[i] \in Entry
    BY EntriesElim
  <1>2. \A i \in DOMAIN d :
           LET l == [d[i] EXCEPT !.ref = "LongTerm", !.longTermFrameIdx = idx]
           IN  l.needed = d[i].needed /\ l.poc = d[i].poc
    BY <1>1 DEF Entry
  <1>3. /\ DOMAIN u = DOMAIN d
        /\ \A i \in DOMAIN d : u[i].needed = d[i].needed /\ u[i].poc = d[i].poc
    BY <1>2 DEF AssignLongTerm
  <1> HIDE DEF u
  <1>4. Waiting(u) = Waiting(d) /\ \A i \in Waiting(d) : u[i].poc = d[i].poc
    BY <1>3 DEF Waiting
  <1> QED
    BY <1>4 DEF WaitingCounts, u

LEMMA MmcoWaiting ==
  ASSUME NEW n \in Nat, NEW d \in EntriesUpTo(n), NEW cur, NEW op \in MmcoOp
  PROVE  WaitingCounts(MmcoEntries(d, cur, op)) = WaitingCounts(d)
  <1> DEFINE S == MmcoTarget(d, cur, op)
             H == HolderOf(d, op.idx)
             L == {i \in LongTerm(d) : d[i].longTermFrameIdx >= op.maxIdxPlus1}
  <1>1. MmcoEntries(d, cur, op) \in
           {Unmark(d, S), AssignLongTerm(Unmark(d, H), S, op.idx), Unmark(d, L),
            Unmark(d, DOMAIN d), Unmark(d, H), d}
    BY DEF MmcoEntries, MarkAllAsUnusedForRef
  <1> HIDE DEF S, H, L
  <1>2. WaitingCounts(AssignLongTerm(Unmark(d, H), S, op.idx)) = WaitingCounts(d)
    BY UnmarkFrom, UnmarkWaiting, AssignLongTermWaiting
  <1> QED
    BY <1>1, <1>2, UnmarkWaiting

LEMMA UpdatePicNumsWaiting ==
  ASSUME NEW n \in Nat, NEW d \in EntriesUpTo(n), NEW frameNum, NEW maxFrameNum
  PROVE  WaitingCounts(UpdatePicNums(d, frameNum, maxFrameNum)) = WaitingCounts(d)
  <1> DEFINE u == UpdatePicNums(d, frameNum, maxFrameNum)
  <1>1. \A i \in DOMAIN d : d[i] \in Entry
    BY EntriesElim
  <1>2. \A i \in DOMAIN d : \A v :
           /\ [d[i] EXCEPT !.longTermPicNum = v].needed = d[i].needed
           /\ [d[i] EXCEPT !.longTermPicNum = v].poc = d[i].poc
           /\ [d[i] EXCEPT !.picNum = v].needed = d[i].needed
           /\ [d[i] EXCEPT !.picNum = v].poc = d[i].poc
    BY <1>1 DEF Entry
  <1>3. /\ DOMAIN u = DOMAIN d
        /\ \A i \in DOMAIN d : \E v : u[i] \in {d[i], [d[i] EXCEPT !.longTermPicNum = v],
                                                [d[i] EXCEPT !.picNum = v]}
    BY DEF UpdatePicNums
  <1> HIDE DEF u
  <1>4. ASSUME NEW i \in DOMAIN d
        PROVE  u[i].needed = d[i].needed /\ u[i].poc = d[i].poc
    <2>1. PICK v : u[i] \in {d[i], [d[i] EXCEPT !.longTermPicNum = v], [d[i] EXCEPT !.picNum = v]}
      BY <1>3
    <2>2. /\ [d[i] EXCEPT !.longTermPicNum = v].needed = d[i].needed
          /\ [d[i] EXCEPT !.longTermPicNum = v].poc = d[i].poc
          /\ [d[i] EXCEPT !.picNum = v].needed = d[i].needed
          /\ [d[i] EXCEPT !.picNum = v].poc = d[i].poc
      BY <1>2
    <2> DEFINE l == [d[i] EXCEPT !.longTermPicNum = v]
               q == [d[i] EXCEPT !.picNum = v]
    <2> HIDE DEF l, q
    <2>3. u[i] = d[i] \/ u[i] = l \/ u[i] = q
      BY <2>1 DEF l, q
    <2> QED
      BY <2>2, <2>3 DEF l, q
  <1>5. Waiting(u) = Waiting(d) /\ \A i \in Waiting(d) : u[i].poc = d[i].poc
    BY <1>3, <1>4 DEF Waiting
  <1> QED
    BY <1>5 DEF WaitingCounts, u

-----------------------------------------------------------------------------
(* Steps of the abstract specification *)

\* No picture that waits was invented for a gap.
Real(d) == \A i \in Waiting(d) : ~d[i].nonexisting

\* The waiting pictures of S leave d as they join the ready queue.
LEMMA OrdersOfWaiting ==
  ASSUME NEW d, Real(d), NEW S \in SUBSET Waiting(d), NEW s \in OutputOrders(d, S)
  PROVE  /\ s \in [1 .. Cardinality(S) -> S]
         /\ \A m, k \in 1 .. Cardinality(S) : m < k => OutputBefore(d, s[m], s[k])
  <1>1. {i \in S : ~d[i].nonexisting} = S
    BY DEF Real
  <1> QED
    BY <1>1 DEF OutputOrders

\* Entries that agree on the counts agree on what waits, and on its order.
LEMMA SameCounts ==
  ASSUME NEW d, NEW e, WaitingCounts(e) = WaitingCounts(d)
  PROVE  /\ Waiting(e) = Waiting(d)
         /\ \A i \in Waiting(d) : e[i].poc = d[i].poc
  BY DEF WaitingCounts

\* Pictures that come before those that stay are due, in the order they leave in.
LEMMA DueInOrder ==
  ASSUME NEW d, WaitingCounts(d) = WaitingCounts(dpb.entries), Real(d),
         NEW S \in SUBSET Waiting(d), NEW s \in OutputOrders(d, S),
         \A i \in S, j \in Waiting(d) \ S : OutputBefore(d, i, j)
  PROVE  S \in Reorder!Due /\ s \in Reorder!Orders(S)
  <1> DEFINE w == WaitingCounts(dpb.entries)
  <1>1. DOMAIN w = Waiting(d) /\ \A i \in Waiting(d) : w[i] = d[i].poc
    BY SameCounts DEF WaitingCounts
  <1>2. /\ s \in [1 .. Cardinality(S) -> S]
        /\ \A m, k \in 1 .. Cardinality(S) : m < k => OutputBefore(d, s[m], s[k])
    BY OrdersOfWaiting
  <1> HIDE DEF w
  <1>3. \A i, j \in Waiting(d) :
           OutputBefore(d, i, j) <=> (w[i] < w[j] \/ (w[i] = w[j] /\ i < j))
    BY <1>1 DEF OutputBefore
  <1>card. Reorder!Cardinality(S) = Cardinality(S)
    BY DEF Cardinality, Reorder!Cardinality
  <1>4. S \in Reorder!Due
    BY <1>1, <1>3 DEF Reorder!Due, Reorder!Before, w
  <1>5. s \in Reorder!Orders(S)
    BY <1>1, <1>2, <1>3, <1>card DEF Reorder!Orders, Reorder!Before, w
  <1> QED
    BY <1>4, <1>5

\* The counts of the pictures that stay.
Staying(d, S) == [i \in Waiting(d) \ S |-> d[i].poc]

\* Pictures leave: a step of the abstract specification.
LEMMA ReleaseStep ==
  ASSUME NEW T, taken \in Seq(T), ready \in Seq(T),
         NEW S \in Reorder!Due, NEW s \in Reorder!Orders(S), s \in Seq(T),
         WaitingCounts(dpb'.entries) = Staying(dpb.entries, S),
         ready' = ready \o s, taken' = taken, discarded' = discarded
  PROVE  Reorder!Next
  <1>1. taken' \o ready' = (taken \o ready) \o s
    OBVIOUS
  <1>2. Reorder!Stay(S) = Staying(dpb.entries, S)
    BY DEF Reorder!Stay, WaitingCounts, Staying
  <1>3. Reorder!Release(S, s)
    BY <1>1, <1>2 DEF Reorder!Release, WaitingCounts
  <1> QED
    BY <1>3 DEF Reorder!Next

\* Everything that waits may leave (drain): nothing stays that could be overtaken.
LEMMA DrainDue ==
  ASSUME Real(dpb.entries), NEW out \in Drained(dpb)
  PROVE  Waiting(dpb.entries) \in Reorder!Due /\ out \in Reorder!Orders(Waiting(dpb.entries))
  <1> DEFINE d == dpb.entries
             S == Waiting(d)
  <1>1. out \in OutputOrders(d, S)
    BY DEF Drained
  <1>2. WaitingCounts(d) = WaitingCounts(dpb.entries) /\ Real(d) /\ S \in SUBSET Waiting(d)
    OBVIOUS
  <1>3. \A i \in S, j \in Waiting(d) \ S : OutputBefore(d, i, j)
    OBVIOUS
  <1> HIDE DEF d, S
  <1>4. S \in Reorder!Due /\ out \in Reorder!Orders(S)
    BY <1>1, <1>2, <1>3, DueInOrder
  <1> QED
    BY <1>4 DEF d, S

LEMMA DrainStep ==
  ASSUME IInv, Real(dpb.entries), NEW out \in Drained(dpb),
         Waiting(dpb'.entries) = {},
         ready' = ready \o out, taken' = taken, discarded' = discarded
  PROVE  Reorder!Next
  <1> DEFINE S == Waiting(dpb.entries)
  <1>1. S \in Reorder!Due /\ out \in Reorder!Orders(S)
    BY DrainDue
  <1>2. out \in Seq(1 .. pictures) /\ taken \in Seq(1 .. pictures) /\ ready \in Seq(1 .. pictures)
    BY Facts, OutputOrdersType DEF Drained, Waiting, IInv, TypeOK
  <1>3. WaitingCounts(dpb'.entries) = Staying(dpb.entries, S)
    BY DEF WaitingCounts, Staying
  <1> HIDE DEF S
  <1> QED
    BY <1>1, <1>2, <1>3, ReleaseStep

\* Nothing of the output changes.
LEMMA StutterStep ==
  ASSUME WaitingCounts(dpb'.entries) = WaitingCounts(dpb.entries),
         taken' \o ready' = taken \o ready, discarded' = discarded
  PROVE  UNCHANGED Reorder!vars
  BY DEF Reorder!vars, WaitingCounts

-----------------------------------------------------------------------------
(* The invariant *)

\* The number of the picture in the making is new: no picture that is in the
\* DPB, was handed out or dropped has it.
NewNumber ==
    phase \in {"picture", "marking"} =>
        /\ dpb.entries \in EntriesUpTo(pictures - 1)
        /\ ready \in Seq(1 .. pictures - 1)
        /\ taken \in Seq(1 .. pictures - 1)
        /\ discarded \subseteq 1 .. pictures - 1

\* A picture invented for a gap never waits; and a stream's limit on reordering
\* never exceeds the size of its DPB, so a full DPB may always bump.
OutputInv ==
    /\ Real(dpb.entries)
    /\ dpb.maxReorder <= dpb.maxNumPics
    /\ NewNumber

\* Outside of finish_picture no number is in the making.
LEMMA NoNumber ==
  ASSUME phase' \notin {"picture", "marking"}
  PROVE  NewNumber'
  BY DEF NewNumber

\* Pictures that keep their surface and their place in the queue are real if
\* they were.
LEMMA RealFrom ==
  ASSUME NEW d, NEW e, Real(d), From(e, d), Waiting(e) \subseteq Waiting(d)
  PROVE  Real(e)
  BY DEF Real, From, Waiting

\* The limits apply_sps sets agree.
LEMMA LimitsAgree ==
  ASSUME NEW n \in Nat, NEW b \in DpbUpTo(n), NEW sps \in SpsSet
  PROVE  LET l == SetLimits(b, sps.maxDpbFrames, ReorderLimit(sps))
         IN  /\ l \in DpbUpTo(n) /\ l.entries = b.entries
             /\ l.maxReorder <= l.maxNumPics
             /\ Clear(l).maxReorder <= Clear(l).maxNumPics
             /\ Clear(l).entries = NoEntries
  <1>1. sps \in SequenceInfo /\ ReorderLimit(sps) \in Nat /\ ReorderLimit(sps) <= sps.maxDpbFrames
    BY SpsAssumption DEF SequenceInfo, ReorderLimit
  <1>2. sps.maxDpbFrames \in Nat
    BY <1>1 DEF SequenceInfo
  <1> DEFINE l == SetLimits(b, sps.maxDpbFrames, ReorderLimit(sps))
  <1>3. /\ l \in DpbUpTo(n) /\ l.entries = b.entries
        /\ l.maxNumPics = sps.maxDpbFrames /\ l.maxReorder = ReorderLimit(sps)
    BY <1>1, <1>2 DEF SetLimits, DpbUpTo
  <1> HIDE DEF l
  <1>4. Clear(l).maxReorder = 0 /\ Clear(l).maxNumPics = l.maxNumPics /\ Clear(l).entries = NoEntries
    BY <1>3 DEF Clear, DpbUpTo
  <1> QED
    BY <1>1, <1>2, <1>3, <1>4 DEF l

\* clear() leaves no picture, and no limit on reordering.
LEMMA ClearLimits ==
  ASSUME NEW n \in Nat, NEW b \in DpbUpTo(n)
  PROVE  /\ Clear(b) \in DpbUpTo(n) /\ Clear(b).entries = NoEntries
         /\ Clear(b).maxReorder <= Clear(b).maxNumPics
  <1>1. NoEntries \in EntriesUpTo(n)
    <2>1. DOMAIN NoEntries = {} /\ NoEntries = [i \in DOMAIN NoEntries |-> NoEntries[i]]
      BY DEF NoEntries
    <2> QED
      BY <2>1, EntriesIntro
  <1>2. /\ Clear(b) \in DpbUpTo(n) /\ Clear(b).entries = NoEntries
        /\ Clear(b).maxReorder = 0 /\ Clear(b).maxNumPics = b.maxNumPics
    BY <1>1 DEF Clear, DpbUpTo
  <1>3. b.maxNumPics \in Nat
    BY DEF DpbUpTo
  <1> QED
    BY <1>2, <1>3

LEMMA NothingWaits == Waiting(NoEntries) = {} /\ Real(NoEntries)
  BY DEF Waiting, NoEntries, Real

-----------------------------------------------------------------------------
(* begin_picture *)

LEMMA RebuildSequenceOutput ==
  ASSUME IInv, OutputInv, NEW sps \in SpsSet, NEW built, RebuildSequence(sps, built),
         taken' = taken, discarded' = discarded
  PROVE  Reorder!Next /\ Real(dpb'.entries) /\ dpb'.maxReorder <= dpb'.maxNumPics
  <1>1. /\ dpb' = Clear(SetLimits(dpb, sps.maxDpbFrames, ReorderLimit(sps)))
        /\ \E out \in Drained(dpb) : ready' = ready \o out
    BY DEF RebuildSequence
  <1>2. dpb'.entries = NoEntries /\ dpb'.maxReorder <= dpb'.maxNumPics
    BY <1>1, Facts, LimitsAgree
  <1> QED
    BY <1>1, <1>2, NothingWaits, DrainStep DEF OutputInv

LEMMA SetLimitsOutput ==
  ASSUME IInv, OutputInv, NEW sps \in SpsSet,
         dpb' \in {dpb, SetLimits(dpb, sps.maxDpbFrames, ReorderLimit(sps))},
         ready' = ready, taken' = taken, discarded' = discarded
  PROVE  UNCHANGED Reorder!vars /\ Real(dpb'.entries) /\ dpb'.maxReorder <= dpb'.maxNumPics
  <1>1. dpb'.entries = dpb.entries /\ dpb'.maxReorder <= dpb'.maxNumPics
    BY Facts, LimitsAgree DEF OutputInv
  <1> QED
    BY <1>1, StutterStep DEF OutputInv

LEMMA BeginPictureOutput ==
  ASSUME IInv, OutputInv, NEW c \in CodedPicture, BeginPicture(c)
  PROVE  OutputInv' /\ [Reorder!Next]_(Reorder!vars)
  <1>1. /\ c.sps \in SpsSet /\ taken' = taken /\ discarded' = discarded
        /\ phase' \notin {"picture", "marking"}
    BY DEF BeginPicture, CodedPicture, RefuseSps, Fail
  <1>2. CASE RefuseSps(c.sps) \/ KeepSequence(c.sps)
    <2>1. /\ ready' = ready
          /\ dpb' \in {dpb, SetLimits(dpb, c.sps.maxDpbFrames, ReorderLimit(c.sps))}
      BY <1>2 DEF RefuseSps, KeepSequence
    <2> QED
      BY <1>1, <2>1, SetLimitsOutput, NoNumber DEF OutputInv
  <1>3. ASSUME NEW built \in BOOLEAN, RebuildSequence(c.sps, built)
        PROVE  OutputInv' /\ [Reorder!Next]_(Reorder!vars)
    BY <1>1, <1>3, RebuildSequenceOutput, NoNumber DEF OutputInv
  <1> QED
    BY <1>2, <1>3 DEF BeginPicture

\* An error that leaves the DPB alone changes nothing of the output.
LEMMA FailOutput ==
  ASSUME OutputInv, NEW why, Fail(why), UNCHANGED <<dpb, ready, taken, discarded>>
  PROVE  OutputInv' /\ [Reorder!Next]_(Reorder!vars)
  <1>1. phase' \notin {"picture", "marking"}
    BY DEF Fail
  <1> QED
    BY <1>1, StutterStep, NoNumber DEF OutputInv

\* What store_picture adds to the buffer, and the entries with it.
NewEntry(p, gen) ==
    [poc |-> p.poc, frameNum |-> p.frameNum, picNum |-> p.picNum,
     ref |-> p.ref, longTermFrameIdx |-> p.longTermFrameIdx,
     longTermPicNum |-> 0, nonexisting |-> p.nonexisting,
     needed |-> ~p.nonexisting, gen |-> gen]

Plus(d, id, new) == [i \in DOMAIN d \cup {id} |-> IF i = id THEN new ELSE d[i]]

LEMMA StorePlus ==
  ASSUME NEW n \in Nat, NEW b \in DpbUpTo(n), NEW id, NEW p, NEW gen
  PROVE  /\ Store(b, id, p, gen).entries = Plus(b.entries, id, NewEntry(p, gen))
         /\ Store(b, id, p, gen).maxNumPics = b.maxNumPics
         /\ Store(b, id, p, gen).maxReorder = b.maxReorder
  <1> DEFINE e == Plus(b.entries, id, NewEntry(p, gen))
  <1>1. Store(b, id, p, gen) = [b EXCEPT !.entries = e]
    BY DEF Store, Plus, NewEntry
  <1> HIDE DEF e
  <1>2. /\ [b EXCEPT !.entries = e].entries = e
        /\ [b EXCEPT !.entries = e].maxNumPics = b.maxNumPics
        /\ [b EXCEPT !.entries = e].maxReorder = b.maxReorder
    BY DEF DpbUpTo
  <1> QED
    BY <1>1, <1>2 DEF e

\* A picture without surface is stored beside those that wait; one with a
\* surface joins them.
LEMMA PlusWaiting ==
  ASSUME NEW d, Real(d), NEW id, id \notin DOMAIN d, NEW new
  PROVE  /\ ~new.needed => Waiting(Plus(d, id, new)) = Waiting(d) /\ Real(Plus(d, id, new))
         /\ new.needed /\ ~new.nonexisting =>
               Waiting(Plus(d, id, new)) = Waiting(d) \cup {id} /\ Real(Plus(d, id, new))
         /\ \A i \in Waiting(d) : Plus(d, id, new)[i].poc = d[i].poc
         /\ Plus(d, id, new)[id].poc = new.poc
  <1> DEFINE e == Plus(d, id, new)
  <1>1. /\ DOMAIN e = DOMAIN d \cup {id} /\ e[id] = new
        /\ \A i \in DOMAIN d : e[i] = d[i]
    BY DEF Plus
  <1> HIDE DEF e
  <1>2. \A i \in Waiting(d) : e[i].poc = d[i].poc
    BY <1>1 DEF Waiting
  <1>3. ~new.needed => Waiting(e) = Waiting(d) /\ Real(e)
    BY <1>1 DEF Waiting, Real
  <1>4. new.needed /\ ~new.nonexisting => Waiting(e) = Waiting(d) \cup {id} /\ Real(e)
    BY <1>1 DEF Waiting, Real
  <1> QED
    BY <1>1, <1>2, <1>3, <1>4 DEF e

\* What bumping lets out of buffer b is due, when b's pictures wait as the
\* decoder's do; and what it leaves is real and waits as before.
LEMMA BumpStep ==
  ASSUME NEW n \in Nat, NEW b \in DpbUpTo(n), NEW p,
         WaitingCounts(b.entries) = WaitingCounts(dpb.entries), Real(b.entries),
         NEW s \in OutputOrders(b.entries, BumpedAsNeeded(b, p))
  PROVE  LET S == BumpedAsNeeded(b, p)
             e == Bump(b.entries, S)
         IN  /\ S \in Reorder!Due /\ s \in Reorder!Orders(S) /\ s \in Seq(1 .. n)
             /\ e \in EntriesUpTo(n) /\ From(e, b.entries) /\ Real(e)
             /\ WaitingCounts(e) = Staying(dpb.entries, S)
  <1> DEFINE d == b.entries
             S == BumpedAsNeeded(b, p)
             e == Bump(d, S)
  <1>1. d \in EntriesUpTo(n)
    BY DEF DpbUpTo
  <1>2. S \in SUBSET Waiting(d) /\ \A i \in S, j \in Waiting(d) \ S : OutputBefore(d, i, j)
    BY BumpedFirst
  <1>3. s \in OutputOrders(d, S) /\ WaitingCounts(d) = WaitingCounts(dpb.entries) /\ Real(d)
    OBVIOUS
  <1> HIDE DEF d, S
  <1>4. S \in Reorder!Due /\ s \in Reorder!Orders(S)
    BY <1>2, <1>3, DueInOrder
  <1>5. s \in Seq(1 .. n)
    BY <1>1, <1>2, <1>3, OutputOrdersType DEF Waiting
  <1>6. e \in EntriesUpTo(n) /\ From(e, d)
    BY <1>1, BumpFrom
  <1>7. /\ Waiting(e) = Waiting(d) \ S
        /\ \A i \in DOMAIN e : e[i].poc = d[i].poc
    BY <1>1, <1>2, BumpWaiting
  <1> HIDE DEF e
  <1>8. Real(e)
    BY <1>3, <1>6, <1>7, RealFrom
  <1>9. WaitingCounts(e) = Staying(dpb.entries, S)
    <2>1. Waiting(d) = Waiting(dpb.entries) /\ \A i \in Waiting(d) : d[i].poc = dpb.entries[i].poc
      BY <1>3, SameCounts
    <2>2. Waiting(e) \subseteq DOMAIN e
      BY DEF Waiting
    <2> QED
      BY <1>7, <2>1, <2>2 DEF WaitingCounts, Staying
  <1> QED
    BY <1>4, <1>5, <1>6, <1>8, <1>9 DEF d, S, e

\* A round of handle_frame_num_gap: bumped pictures leave, the invented one
\* does not wait.
LEMMA FillGapOutput ==
  ASSUME IInv, OutputInv, FillGap
  PROVE  OutputInv' /\ [Reorder!Next]_(Reorder!vars)
  <1> DEFINE new      == NonExisting(unused)
             numbered == UpdatePicNums(dpb.entries, unused, slice.sps.maxFrameNum)
             window   == SlidingWindowMarking(numbered, slice.sps.maxNumRefFrames)
             marked   == [dpb EXCEPT !.entries = window]
             bumped   == BumpedAsNeeded(marked, new)
             room     == [marked EXCEPT !.entries = Bump(@, bumped)]
  <1>1. /\ phase = "gap" /\ slice \in CodedPicture /\ unused \in Nat
        /\ slice.sps \in SequenceInfo
    BY SpsAssumption DEF FillGap, IInv, TypeOK, CodedPicture
  <1>2. slice.sps.maxFrameNum \in Nat
    BY <1>1 DEF SequenceInfo
  <1>3. /\ taken' = taken /\ discarded' = discarded
        /\ phase' \notin {"picture", "marking"}
        /\ \E out \in OutputOrders(marked.entries, bumped) : ready' = ready \o out
        /\ dpb' = room \/ dpb' = Store(room, pictures + 1, new, 0)
    BY <1>1 DEF FillGap, Fail
  <1>4. new.nonexisting = TRUE
    BY DEF NonExisting
  <1>5. numbered \in EntriesUpTo(pictures) /\ From(numbered, dpb.entries)
    BY <1>1, <1>2, Facts, UpdatePicNumsFrom
  <1>6. WaitingCounts(numbered) = WaitingCounts(dpb.entries)
    BY Facts, UpdatePicNumsWaiting
  <1> HIDE DEF new, numbered
  <1>7. window \in EntriesUpTo(pictures) /\ From(window, dpb.entries)
    BY <1>5, Facts, SlidingWindowFrom, FromTransitive
  <1>8. WaitingCounts(window) = WaitingCounts(dpb.entries)
    BY <1>5, <1>6, Facts, SlidingWindowWaiting
  <1> HIDE DEF window
  <1>9. /\ marked \in DpbUpTo(pictures) /\ marked.entries = window
        /\ marked.maxNumPics = dpb.maxNumPics /\ marked.maxReorder = dpb.maxReorder
    BY <1>7, Facts DEF DpbUpTo
  <1>10. Real(window)
    BY <1>7, <1>8, SameCounts, RealFrom DEF OutputInv
  <1>11. PICK s \in OutputOrders(marked.entries, bumped) : ready' = ready \o s
    BY <1>3
  <1> HIDE DEF marked
  <1> DEFINE e == Bump(marked.entries, bumped)
  <1>12. /\ bumped \in Reorder!Due /\ s \in Reorder!Orders(bumped) /\ s \in Seq(1 .. pictures)
         /\ e \in EntriesUpTo(pictures) /\ Real(e)
         /\ WaitingCounts(e) = Staying(dpb.entries, bumped)
    BY <1>8, <1>9, <1>10, Facts, BumpStep
  <1> HIDE DEF e
  <1>13. /\ room \in DpbUpTo(pictures) /\ room.entries = e
         /\ room.maxNumPics = dpb.maxNumPics /\ room.maxReorder = dpb.maxReorder
    BY <1>9, <1>12 DEF DpbUpTo, e
  <1> HIDE DEF bumped, room
  <1>14. /\ WaitingCounts(dpb'.entries) = WaitingCounts(e) /\ Real(dpb'.entries)
         /\ dpb'.maxReorder <= dpb'.maxNumPics
    <2>1. CASE dpb' = room
      BY <1>12, <1>13, <2>1 DEF OutputInv
    <2>2. CASE dpb' = Store(room, pictures + 1, new, 0)
      <3>1. pictures + 1 \notin DOMAIN room.entries
        <4>1. DOMAIN e \subseteq 1 .. pictures /\ pictures \in Nat
          BY <1>12, Facts, EntriesElim
        <4> QED
          BY <1>13, <4>1
      <3>2. /\ Waiting(dpb'.entries) = Waiting(e)
            /\ \A i \in Waiting(e) : dpb'.entries[i].poc = e[i].poc
            /\ Real(dpb'.entries)
            /\ dpb'.maxNumPics = room.maxNumPics /\ dpb'.maxReorder = room.maxReorder
        <4>1. /\ dpb'.entries = Plus(e, pictures + 1, NewEntry(new, 0))
              /\ dpb'.maxNumPics = room.maxNumPics /\ dpb'.maxReorder = room.maxReorder
          BY <1>13, <2>2, Facts, StorePlus
        <4>2. ~NewEntry(new, 0).needed
          BY <1>4 DEF NewEntry
        <4> QED
          BY <1>12, <1>13, <3>1, <4>1, <4>2, PlusWaiting
      <3> QED
        BY <1>13, <3>2 DEF WaitingCounts, OutputInv
    <2> QED
      BY <1>3, <2>1, <2>2
  <1>15. Reorder!Next
    <2>1. taken \in Seq(1 .. pictures) /\ ready \in Seq(1 .. pictures)
      BY DEF IInv, TypeOK
    <2>2. WaitingCounts(dpb'.entries) = Staying(dpb.entries, bumped)
      BY <1>12, <1>14
    <2> QED
      BY <1>3, <1>11, <1>12, <2>1, <2>2, ReleaseStep
  <1> QED
    BY <1>3, <1>14, <1>15, NoNumber DEF OutputInv

\* init_current_pic drains the DPB before an IDR picture, or drops what waits
\* where no_output_of_prior_pics_flag asks for it.
LEMMA StartPictureOutput ==
  ASSUME IInv, OutputInv, NEW allocated \in BOOLEAN, StartPicture(allocated)
  PROVE  OutputInv' /\ [Reorder!Next]_(Reorder!vars)
  <1> DEFINE left == IF slice.idr THEN Clear(dpb) ELSE dpb
             e    == UpdatePicNums(left.entries, slice.frameNum, slice.sps.maxFrameNum)
  <1>1. /\ slice \in CodedPicture /\ slice.frameNum \in Nat /\ slice.sps \in SequenceInfo
    BY SpsAssumption DEF StartPicture, IInv, TypeOK, CodedPicture
  <1>2. slice.sps.maxFrameNum \in Nat
    BY <1>1 DEF SequenceInfo
  <1>3. /\ taken' = taken
        /\ dpb' = [left EXCEPT !.entries = e]
        /\ \/ slice.idr /\ discarded' = discarded \cup Waiting(dpb.entries) /\ ready' = ready
           \/ slice.idr /\ discarded' = discarded
                /\ \E out \in Drained(dpb) : ready' = ready \o out
           \/ ~slice.idr /\ discarded' = discarded /\ ready' = ready
    BY DEF StartPicture
  <1>4. /\ left \in DpbUpTo(pictures)
        /\ left.maxReorder <= left.maxNumPics
        /\ left.entries = IF slice.idr THEN NoEntries ELSE dpb.entries
    <2>1. /\ Clear(dpb) \in DpbUpTo(pictures) /\ Clear(dpb).entries = NoEntries
          /\ Clear(dpb).maxReorder <= Clear(dpb).maxNumPics
      BY Facts, ClearLimits
    <2> QED
      BY <2>1, Facts DEF OutputInv
  <1> HIDE DEF left
  <1>5. left.entries \in EntriesUpTo(pictures)
    BY <1>4 DEF DpbUpTo
  <1>6. /\ e \in EntriesUpTo(pictures) /\ From(e, left.entries)
        /\ WaitingCounts(e) = WaitingCounts(left.entries)
    BY <1>1, <1>2, <1>5, Facts, UpdatePicNumsFrom, UpdatePicNumsWaiting
  <1> HIDE DEF e
  <1>7. /\ dpb'.entries = e /\ dpb'.maxReorder <= dpb'.maxNumPics
    BY <1>3, <1>4 DEF DpbUpTo
  <1>8. Real(e)
    <2>1. Real(left.entries)
      BY <1>4, NothingWaits DEF OutputInv
    <2> QED
      BY <1>6, <2>1, SameCounts, RealFrom
  <1>9. slice.idr => Waiting(dpb'.entries) = {}
    BY <1>4, <1>6, <1>7, NothingWaits, SameCounts
  <1>10. [Reorder!Next]_(Reorder!vars)
    <2>1. CASE slice.idr /\ discarded' = discarded \cup Waiting(dpb.entries) /\ ready' = ready
      <3>1. Reorder!Discard
        BY <1>3, <1>9, <2>1 DEF Reorder!Discard, WaitingCounts
      <3> QED
        BY <3>1 DEF Reorder!Next
    <2>2. ASSUME slice.idr, discarded' = discarded, NEW out \in Drained(dpb), ready' = ready \o out
          PROVE  Reorder!Next
      BY <1>3, <1>9, <2>2, DrainStep DEF OutputInv
    <2>3. CASE ~slice.idr /\ discarded' = discarded /\ ready' = ready
      BY <1>3, <1>4, <1>6, <1>7, <2>3, StutterStep
    <2> QED
      BY <1>3, <2>1, <2>2, <2>3
  <1>11. NewNumber'
    <2>1. CASE pictures' = pictures + 1
      <3>1. pictures' - 1 = pictures
        BY <2>1, Facts
      <3>2. /\ ready' \in Seq(1 .. pictures) /\ taken' \in Seq(1 .. pictures)
            /\ discarded' \subseteq 1 .. pictures
        <4>1. \A out \in Drained(dpb) : out \in Seq(1 .. pictures)
          BY Facts, OutputOrdersType DEF Drained, Waiting
        <4>2. Waiting(dpb.entries) \subseteq 1 .. pictures
          BY Facts, EntriesElim DEF Waiting
        <4>3. /\ ready \in Seq(1 .. pictures) /\ taken \in Seq(1 .. pictures)
              /\ discarded \subseteq 1 .. pictures
          BY DEF IInv, TypeOK
        <4>4. ASSUME NEW out \in Drained(dpb) PROVE ready \o out \in Seq(1 .. pictures)
          BY <4>1, <4>3
        <4> QED
          BY <1>3, <4>2, <4>3, <4>4
      <3> QED
        BY <1>6, <1>7, <3>1, <3>2 DEF NewNumber
    <2>2. CASE phase' \notin {"picture", "marking"}
      BY <2>2, NoNumber
    <2> QED
      BY <2>1, <2>2 DEF StartPicture, Fail
  <1> QED
    BY <1>7, <1>8, <1>10, <1>11 DEF OutputInv

-----------------------------------------------------------------------------
(* finish_picture *)

\* Marking changes which pictures are references, and which of them wait not.
LEMMA MarkingOutput ==
  ASSUME IInv, OutputInv, phase \in {"picture", "marking"},
         NEW e, dpb' = [dpb EXCEPT !.entries = e],
         \A n \in Nat : dpb.entries \in EntriesUpTo(n) =>
                           e \in EntriesUpTo(n) /\ From(e, dpb.entries),
         WaitingCounts(e) = WaitingCounts(dpb.entries),
         UNCHANGED <<pictures, ready, taken, discarded>>
  PROVE  OutputInv' /\ [Reorder!Next]_(Reorder!vars)
  <1>1. /\ dpb'.entries = e
        /\ dpb'.maxReorder = dpb.maxReorder /\ dpb'.maxNumPics = dpb.maxNumPics
    BY Facts DEF DpbUpTo
  <1>2. pictures \in Nat \ {0} /\ pictures - 1 \in Nat
    BY Facts DEF IInv, InTheMaking
  <1>3. dpb.entries \in EntriesUpTo(pictures - 1)
    BY DEF OutputInv, NewNumber
  <1>4. e \in EntriesUpTo(pictures - 1) /\ From(e, dpb.entries)
    BY <1>2, <1>3
  <1>5. Real(dpb'.entries)
    BY <1>1, <1>4, SameCounts, RealFrom DEF OutputInv
  <1>6. NewNumber'
    BY <1>1, <1>4 DEF OutputInv, NewNumber
  <1>7. UNCHANGED Reorder!vars
    BY <1>1, StutterStep
  <1> QED
    BY <1>1, <1>5, <1>6, <1>7 DEF OutputInv

LEMMA MarkReferenceOutput ==
  ASSUME IInv, OutputInv, MarkReference
  PROVE  OutputInv' /\ [Reorder!Next]_(Reorder!vars)
  <1> DEFINE all == MarkAllAsUnusedForRef(dpb.entries)
             window == SlidingWindowMarking(dpb.entries, slice.sps.maxNumRefFrames)
  <1>1. /\ phase \in {"picture", "marking"}
        /\ UNCHANGED <<pictures, ready, taken, discarded>>
        /\ \/ dpb' = dpb
           \/ dpb' = [dpb EXCEPT !.entries = all]
           \/ dpb' = [dpb EXCEPT !.entries = window]
    BY DEF MarkReference
  <1>2. dpb = [dpb EXCEPT !.entries = dpb.entries]
    BY Facts DEF DpbUpTo
  <1>3. WaitingCounts(all) = WaitingCounts(dpb.entries) /\ WaitingCounts(window) = WaitingCounts(dpb.entries)
    BY Facts, UnmarkWaiting, SlidingWindowWaiting DEF MarkAllAsUnusedForRef
  <1>4. ASSUME NEW n \in Nat, dpb.entries \in EntriesUpTo(n)
        PROVE  /\ all \in EntriesUpTo(n) /\ From(all, dpb.entries)
               /\ window \in EntriesUpTo(n) /\ From(window, dpb.entries)
               /\ From(dpb.entries, dpb.entries)
    BY <1>4, UnmarkFrom, SlidingWindowFrom DEF MarkAllAsUnusedForRef, From
  <1> HIDE DEF all, window
  <1>5. CASE dpb' = dpb
    BY <1>1, <1>2, <1>4, <1>5, MarkingOutput
  <1>6. CASE dpb' = [dpb EXCEPT !.entries = all]
    BY <1>1, <1>3, <1>4, <1>6, MarkingOutput
  <1>7. CASE dpb' = [dpb EXCEPT !.entries = window]
    BY <1>1, <1>3, <1>4, <1>7, MarkingOutput
  <1> QED
    BY <1>1, <1>5, <1>6, <1>7

LEMMA MmcoOutput ==
  ASSUME IInv, OutputInv, Mmco
  PROVE  OutputInv' /\ [Reorder!Next]_(Reorder!vars)
  <1> DEFINE op == Head(todo)
             e  == MmcoEntries(dpb.entries, pic, op)
  <1>1. op \in MmcoOp
    BY DEF Mmco, IInv, TypeOK
  <1>2. /\ phase \in {"picture", "marking"}
        /\ UNCHANGED <<pictures, ready, taken, discarded>>
        /\ \/ Fail("mmco") /\ dpb' = dpb
           \/ dpb' = [dpb EXCEPT !.entries = e]
    BY DEF Mmco
  <1> HIDE DEF op
  <1>3. WaitingCounts(e) = WaitingCounts(dpb.entries)
    BY <1>1, Facts, MmcoWaiting
  <1>4. \A n \in Nat : dpb.entries \in EntriesUpTo(n) =>
                          e \in EntriesUpTo(n) /\ From(e, dpb.entries)
    BY <1>1, MmcoFrom
  <1> HIDE DEF e
  <1>5. CASE Fail("mmco") /\ dpb' = dpb
    BY <1>2, <1>5, FailOutput
  <1>6. CASE dpb' = [dpb EXCEPT !.entries = e]
    BY <1>2, <1>3, <1>4, <1>6, MarkingOutput
  <1> QED
    BY <1>2, <1>5, <1>6

\* One sequence after another: what is taken later follows what was taken
\* before, however the queue was cut into calls.
Then(a, b) == a \o b

LEMMA ThenSeq ==
  ASSUME NEW U, NEW a \in Seq(U), NEW b \in Seq(U)
  PROVE  Then(a, b) \in Seq(U)
  BY DEF Then

LEMMA ThenAssociative ==
  ASSUME NEW U, NEW a \in Seq(U), NEW b \in Seq(U), NEW c \in Seq(U)
  PROVE  Then(a, Then(b, c)) = Then(Then(a, b), c)
  BY DEF Then

LEMMA SeqSubset ==
  ASSUME NEW T, NEW U, T \subseteq U, NEW a \in Seq(T)
  PROVE  a \in Seq(U)
  OBVIOUS

\* All that was ever handed over, when the queue gets longer.
LEMMA TakenAfter ==
  ASSUME NEW U, taken \in Seq(U), ready \in Seq(U), NEW s \in Seq(U),
         taken' = taken, ready' = ready \o s
  PROVE  taken' \o ready' = (taken \o ready) \o s
  <1>1. Then(taken, Then(ready, s)) = Then(Then(taken, ready), s)
    BY ThenAssociative
  <1>2. taken' = taken /\ ready' = Then(ready, s)
    BY DEF Then
  <1>3. Then(taken', ready') = Then(Then(taken, ready), s)
    BY <1>1, <1>2, Zenon
  <1> QED
    BY <1>3 DEF Then

LEMMA TakenAndOneAfter ==
  ASSUME NEW U, taken \in Seq(U), ready \in Seq(U), NEW s \in Seq(U), NEW t \in Seq(U),
         taken' = taken, ready' = ready \o s \o t
  PROVE  taken' \o ready' = (taken \o ready) \o s \o t
  <1>1. Then(ready, s) \in Seq(U)
    BY ThenSeq
  <1>2. Then(taken, Then(Then(ready, s), t)) = Then(Then(taken, Then(ready, s)), t)
    BY <1>1, ThenAssociative
  <1>3. Then(taken, Then(ready, s)) = Then(Then(taken, ready), s)
    BY ThenAssociative
  <1>4. taken' = taken /\ ready' = Then(Then(ready, s), t)
    BY DEF Then
  <1>5. Then(taken', ready') = Then(Then(Then(taken, ready), s), t)
    BY <1>2, <1>3, <1>4, Zenon
  <1> QED
    BY <1>5 DEF Then

\* The numbers given out before are in T; the picture being finished has one of
\* its own.
Numbered(T) ==
  /\ T \subseteq Nat /\ taken \in Seq(T) /\ ready \in Seq(T) /\ discarded \subseteq T
  /\ Waiting(dpb.entries) \subseteq T
  /\ phase = "marking" /\ pictures \in Nat \ T /\ pic.poc \in Int

LEMMA NumberedIsNew ==
  ASSUME NEW T, Numbered(T)
  PROVE  Reorder!IsNew
  <1>1. DOMAIN WaitingCounts(dpb.entries) \subseteq T
    BY DEF Numbered, WaitingCounts
  <1>2. taken \o ready \in Seq(T)
    BY DEF Numbered
  <1>3. Reorder!Released \subseteq T
    BY <1>2 DEF Reorder!Released
  <1> QED
    BY <1>1, <1>3 DEF Numbered, Reorder!IsNew

\* The pictures of S leave in the order s, and those of e stay.
Leaving(T, S, s, e) ==
  /\ s \in Seq(T)
  /\ WaitingCounts(e) = Staying(dpb.entries, S)
  /\ taken' = taken /\ discarded' = discarded

\* The picture that was finished waits after the pictures of S left.
LEMMA AcceptStep ==
  ASSUME NEW T, NEW S \in Reorder!Due, NEW s \in Reorder!Orders(S), NEW e,
         Numbered(T), Leaving(T, S, s, e), ready' = ready \o s,
         Waiting(dpb'.entries) = Waiting(e) \cup {pictures},
         dpb'.entries[pictures].poc = pic.poc,
         \A j \in Waiting(e) : dpb'.entries[j].poc = e[j].poc
  PROVE  Reorder!Next
  <1> DEFINE w == WaitingCounts(dpb.entries)
  <1>1. taken' \o ready' = (taken \o ready) \o s
    <2>1. taken \in Seq(T) /\ ready \in Seq(T) /\ s \in Seq(T) /\ taken' = taken
      BY DEF Numbered, Leaving
    <2> QED
      BY <2>1, TakenAfter
  <1>2. WaitingCounts(e) = Staying(dpb.entries, S) /\ discarded' = discarded
    BY DEF Leaving
  <1>3. pictures \notin Waiting(dpb.entries) /\ phase = "marking"
    BY DEF Numbered
  <1>4. /\ Waiting(e) = Waiting(dpb.entries) \ S
        /\ \A j \in Waiting(e) : e[j].poc = dpb.entries[j].poc /\ w[j] = dpb.entries[j].poc
    BY <1>2 DEF WaitingCounts, Staying
  <1>5. DOMAIN Reorder!Stay(S) = Waiting(e)
    BY <1>4 DEF Reorder!Stay, WaitingCounts
  <1>6. WaitingCounts(dpb'.entries) =
           [j \in DOMAIN Reorder!Stay(S) \cup {pictures} |->
               IF j = pictures THEN pic.poc ELSE w[j]]
    <2> HIDE DEF w
    <2> QED
      BY <1>3, <1>4, <1>5 DEF WaitingCounts
  <1>7. Reorder!Accept(S, s)
    BY <1>1, <1>2, <1>3, <1>6, NumberedIsNew DEF Reorder!Accept
  <1> QED
    BY <1>7 DEF Reorder!Next

\* The picture that was finished is handed out after the pictures of S.
LEMMA PassStep ==
  ASSUME NEW T, NEW S \in Reorder!Due, NEW s \in Reorder!Orders(S),
         Numbered(T), Leaving(T, S, s, dpb'.entries),
         NEW t \in Seq(Nat), t = <<pictures>>, ready' = ready \o s \o t,
         \A j \in Waiting(dpb.entries) \ S : pic.poc <= dpb.entries[j].poc
  PROVE  Reorder!Next
  <1>1. taken' \o ready' = (taken \o ready) \o s \o t
    <2>1. taken \in Seq(T) /\ ready \in Seq(T) /\ s \in Seq(T) /\ taken' = taken /\ T \subseteq Nat
      BY DEF Numbered, Leaving
    <2> DEFINE U == Nat
    <2>2. taken \in Seq(U) /\ ready \in Seq(U) /\ s \in Seq(U) /\ t \in Seq(U)
      BY <2>1, SeqSubset
    <2> HIDE DEF U
    <2> QED
      BY <2>1, <2>2, TakenAndOneAfter
  <1>2. WaitingCounts(dpb'.entries) = Staying(dpb.entries, S) /\ discarded' = discarded
    BY DEF Leaving
  <1>3. phase = "marking"
    BY DEF Numbered
  <1>4. Reorder!Stay(S) = Staying(dpb.entries, S)
    BY DEF Reorder!Stay, WaitingCounts, Staying
  <1>5. \A j \in DOMAIN Reorder!Stay(S) : pic.poc <= WaitingCounts(dpb.entries)[j]
    BY DEF Reorder!Stay, WaitingCounts
  <1>6. Reorder!Pass(S, s)
    BY <1>1, <1>2, <1>3, <1>4, <1>5, NumberedIsNew DEF Reorder!Pass
  <1> QED
    BY <1>6 DEF Reorder!Next

\* Of no pictures there is one order.
LEMMA NoOrder ==
  ASSUME NEW d, NEW s \in OutputOrders(d, {})
  PROVE  s = <<>>
  <1>1. {i \in {} : ~d[i].nonexisting} = {}
    OBVIOUS
  <1>2. s \in [1 .. Cardinality({}) -> {}]
    BY <1>1 DEF OutputOrders
  <1>3. Cardinality({}) = 0
    BY FS_EmptySet
  <1> QED
    BY <1>2, <1>3

\* The pictures of S leave in the order s, those of e stay, and tail follows;
\* with no empty frame buffer left, none that stays precedes the new picture.
Leaves(S, s, e, room, n, tail) ==
  /\ s \in Seq(1 .. n)
  /\ ready' = ready \o s \o tail
  /\ WaitingCounts(e) = Staying(dpb.entries, S)
  /\ ~HasEmptyFrameBuffer(room) =>
        \A j \in Waiting(dpb.entries) \ S : pic.poc <= dpb.entries[j].poc

\* What finish_picture works with: the DPB it bumps, the pictures that are
\* bumped, the entries that are left, and the pictures that leave.
Finishing(n, tail, drained, bumped, e, room, first, second) ==
  /\ n \in Nat /\ n = pictures - 1
  /\ drained = IF pic.mmco5 THEN Clear(dpb) ELSE dpb
  /\ bumped = BumpedAsNeeded(drained, pic)
  /\ e = Bump(drained.entries, bumped)
  /\ room = [drained EXCEPT !.entries = e]
  /\ first \in IF pic.mmco5 THEN Drained(dpb) ELSE {<<>>}
  /\ second \in OutputOrders(drained.entries, bumped)
  /\ ready' = ready \o first \o second \o tail

\* Before the new picture is stored, all that waits has left, at operation 5,
\* or what bump_as_needed lets out.
LEMMA RoomOutput ==
  ASSUME IInv, OutputInv, phase = "marking",
         NEW n, NEW tail, NEW drained, NEW bumped, NEW e, NEW room, NEW first, NEW second,
         Finishing(n, tail, drained, bumped, e, room, first, second)
  PROVE  /\ e \in EntriesUpTo(n) /\ Real(e)
         /\ drained \in DpbUpTo(n) /\ drained.maxReorder <= drained.maxNumPics
         /\ \E S \in Reorder!Due : \E s \in Reorder!Orders(S) : Leaves(S, s, e, room, n, tail)
  <1> USE DEF Finishing
  <1>1. dpb \in DpbUpTo(n) /\ dpb.entries \in EntriesUpTo(n)
    BY Facts DEF OutputInv, NewNumber, DpbUpTo
  <1>2. ready \in Seq(1 .. n) /\ pic.poc \in Int
    BY DEF OutputInv, NewNumber, IInv, TypeOK, Picture
  <1>3. CASE pic.mmco5
    <2>1. /\ drained \in DpbUpTo(n) /\ drained.entries = NoEntries
          /\ drained.maxReorder <= drained.maxNumPics
      BY <1>1, <1>3, ClearLimits
    <2>2. bumped = {}
      <3>1. BumpedAsNeeded(drained, pic) \subseteq Waiting(drained.entries)
        BY <2>1, BumpedFirst
      <3> QED
        BY <2>1, <3>1, NothingWaits
    <2>3. second = <<>>
      BY <2>2, NoOrder
    <2>4. e = NoEntries
      BY <2>1, <2>2 DEF Bump
    <2>5. first \in Drained(dpb)
      BY <1>3
    <2> DEFINE S == Waiting(dpb.entries)
    <2>6. S \in Reorder!Due /\ first \in Reorder!Orders(S)
      BY <2>5, DrainDue DEF OutputInv
    <2>7. first \in Seq(1 .. n)
      BY <1>1, <2>5, OutputOrdersType DEF Drained, Waiting
    <2>8. ready' = ready \o first \o tail
      <3>1. (ready \o first) \o <<>> = ready \o first
        BY <1>2, <2>7
      <3> QED
        BY <2>3, <3>1
    <2>9. WaitingCounts(e) = Staying(dpb.entries, S)
      BY <2>4, NothingWaits DEF WaitingCounts, Staying
    <2>10. \A j \in Waiting(dpb.entries) \ S : pic.poc <= dpb.entries[j].poc
      OBVIOUS
    <2>11. e \in EntriesUpTo(n) /\ Real(e)
      BY <2>1, <2>4, NothingWaits DEF DpbUpTo
    <2> HIDE DEF S
    <2>12. Leaves(S, first, e, room, n, tail)
      BY <2>7, <2>8, <2>9, <2>10 DEF Leaves
    <2> QED
      BY <2>1, <2>6, <2>11, <2>12
  <1>4. CASE ~pic.mmco5
    <2>1. drained = dpb /\ first = <<>>
      BY <1>4
    <2>2. second \in OutputOrders(drained.entries, BumpedAsNeeded(drained, pic))
      OBVIOUS
    <2>3. /\ bumped \in Reorder!Due /\ second \in Reorder!Orders(bumped) /\ second \in Seq(1 .. n)
          /\ e \in EntriesUpTo(n) /\ Real(e)
          /\ WaitingCounts(e) = Staying(dpb.entries, bumped)
      BY <1>1, <2>1, <2>2, BumpStep DEF OutputInv
    <2>4. ready' = ready \o second \o tail
      <3>1. ready \o <<>> = ready
        BY <1>2
      <3> QED
        BY <2>1, <3>1
    <2>5. drained \in DpbUpTo(n) /\ drained.maxReorder <= drained.maxNumPics
      BY <1>1, <2>1 DEF OutputInv
    <2>6. ~HasEmptyFrameBuffer(room) =>
             \A j \in Waiting(dpb.entries) \ bumped : pic.poc <= dpb.entries[j].poc
      BY <1>2, <2>1, <2>5, PassesNone
    <2>7. Leaves(bumped, second, e, room, n, tail)
      BY <2>3, <2>4, <2>6 DEF Leaves
    <2> QED
      BY <2>3, <2>5, <2>7
  <1> QED
    BY <1>3, <1>4

\* The rest of finish_picture: the picture waits, or is handed out as the next
\* in output order, or is refused.
LEMMA StorePictureOutput ==
  ASSUME IInv, OutputInv, StorePicture
  PROVE  OutputInv' /\ [Reorder!Next]_(Reorder!vars)
  <1> DEFINE drained == IF pic.mmco5 THEN Clear(dpb) ELSE dpb
             bumped  == BumpedAsNeeded(drained, pic)
             e       == Bump(drained.entries, bumped)
             room    == [drained EXCEPT !.entries = Bump(@, bumped)]
             direct  == ~HasEmptyFrameBuffer(room) /\ ~IsRef(pic)
             tail    == IF direct THEN <<pictures>> ELSE <<>>
             n       == pictures - 1
  <1>1. /\ phase = "marking" /\ pic \in Picture /\ ~pic.nonexisting
        /\ pictures \in Nat /\ n \in Nat
        /\ taken' = taken /\ discarded' = discarded
        /\ phase' \notin {"picture", "marking"}
    <2>1. /\ phase = "marking" /\ taken' = taken /\ discarded' = discarded
          /\ Submitted \/ Fail("full")
      BY DEF StorePicture
    <2>2. pic \in Picture /\ ~pic.nonexisting
      BY <2>1 DEF IInv, TypeOK, InTheMaking
    <2>3. pictures \in Nat /\ n \in Nat
      <3>1. pictures \in Nat /\ pictures > 0
        BY <2>1, Facts DEF IInv, InTheMaking
      <3> QED
        BY <3>1
    <2> QED
      BY <2>1, <2>2, <2>3 DEF Submitted, Fail
  <1>2. /\ \E first  \in IF pic.mmco5 THEN Drained(dpb) ELSE {<<>>},
              second \in OutputOrders(drained.entries, bumped) :
              ready' = ready \o first \o second \o tail
        /\ dpb' = IF HasEmptyFrameBuffer(room)
                  THEN Store(room, pictures, pic, sequence.gen) ELSE room
    BY DEF StorePicture
  <1>3. PICK first  \in IF pic.mmco5 THEN Drained(dpb) ELSE {<<>>},
             second \in OutputOrders(drained.entries, bumped) :
             ready' = ready \o first \o second \o tail
    BY <1>2, Zenon
  <1>4. Finishing(n, tail, drained, bumped, e, room, first, second)
    BY <1>1, <1>3 DEF Finishing
  <1>n. n = pictures - 1
    OBVIOUS
  <1> HIDE DEF drained, bumped, e, room, tail, n
  <1>5. /\ e \in EntriesUpTo(n) /\ Real(e)
        /\ drained \in DpbUpTo(n) /\ drained.maxReorder <= drained.maxNumPics
        /\ \E S \in Reorder!Due : \E s \in Reorder!Orders(S) : Leaves(S, s, e, room, n, tail)
    BY <1>1, <1>4, RoomOutput
  <1>6. PICK S \in Reorder!Due : \E s \in Reorder!Orders(S) : Leaves(S, s, e, room, n, tail)
    BY <1>5
  <1>s. PICK s \in Reorder!Orders(S) : Leaves(S, s, e, room, n, tail)
    BY <1>6
  <1>7. /\ s \in Seq(1 .. n)
        /\ ready' = ready \o s \o tail
        /\ WaitingCounts(e) = Staying(dpb.entries, S)
        /\ ~HasEmptyFrameBuffer(room) =>
              \A j \in Waiting(dpb.entries) \ S : pic.poc <= dpb.entries[j].poc
    BY <1>s DEF Leaves
  <1>8. /\ room = [drained EXCEPT !.entries = e] /\ room \in DpbUpTo(n) /\ room.entries = e
        /\ room.maxReorder <= room.maxNumPics
    BY <1>4, <1>5 DEF DpbUpTo, Finishing
  <1>9. /\ taken \in Seq(1 .. n) /\ ready \in Seq(1 .. n) /\ discarded \subseteq 1 .. n
        /\ Waiting(dpb.entries) \subseteq 1 .. n
        /\ 1 .. n \subseteq Nat /\ pictures \notin 1 .. n
        /\ pic.poc \in Int
        /\ DOMAIN e \subseteq 1 .. n
    <2>1. /\ taken \in Seq(1 .. n) /\ ready \in Seq(1 .. n) /\ discarded \subseteq 1 .. n
          /\ dpb.entries \in EntriesUpTo(n)
      BY <1>1, <1>n DEF OutputInv, NewNumber
    <2>2. Waiting(dpb.entries) \subseteq 1 .. n /\ DOMAIN e \subseteq 1 .. n
      BY <1>1, <1>5, <2>1, EntriesElim DEF Waiting
    <2>3. pictures \notin 1 .. n /\ 1 .. n \subseteq Nat
      BY <1>1, <1>n
    <2>4. pic.poc \in Int
      BY <1>1 DEF Picture
    <2> QED
      BY <2>1, <2>2, <2>3, <2>4
  <1>9a. Numbered(1 .. n)
    BY <1>1, <1>9 DEF Numbered
  <1>9b. Leaving(1 .. n, S, s, e)
    BY <1>1, <1>7 DEF Leaving
  <1>10. CASE HasEmptyFrameBuffer(room)
    <2>1. tail = <<>>
      BY <1>10 DEF tail
    <2>2. ready' = ready \o s
      <3>1. (ready \o s) \o <<>> = ready \o s
        BY <1>7, <1>9
      <3> QED
        BY <1>7, <2>1, <3>1
    <2>3. dpb' = Store(room, pictures, pic, sequence.gen)
      BY <1>2, <1>10
    <2> DEFINE new == NewEntry(pic, sequence.gen)
    <2>4. /\ dpb'.entries = Plus(e, pictures, new)
          /\ dpb'.maxReorder <= dpb'.maxNumPics
      <3> DEFINE b == Store(room, pictures, pic, sequence.gen)
      <3>1. /\ b.entries = Plus(room.entries, pictures, new)
            /\ b.maxNumPics = room.maxNumPics
            /\ b.maxReorder = room.maxReorder
        <4>1. b = [room EXCEPT !.entries = Plus(room.entries, pictures, new)]
          BY DEF Store, Plus, NewEntry
        <4> HIDE DEF b, new
        <4> QED
          BY <1>8, <4>1 DEF DpbUpTo
      <3>2. dpb' = b
        BY <2>3
      <3> HIDE DEF b, new
      <3> QED
        BY <1>8, <3>1, <3>2
    <2>5. new.needed /\ ~new.nonexisting /\ new.poc = pic.poc
      BY <1>1 DEF NewEntry
    <2>6. pictures \notin DOMAIN e
      BY <1>9
    <2> HIDE DEF new
    <2>7. /\ Waiting(dpb'.entries) = Waiting(e) \cup {pictures} /\ Real(dpb'.entries)
          /\ \A j \in Waiting(e) : dpb'.entries[j].poc = e[j].poc
          /\ dpb'.entries[pictures].poc = pic.poc
      BY <1>5, <2>4, <2>5, <2>6, PlusWaiting
    <2>8. Reorder!Next
      BY <1>9a, <1>9b, <2>2, <2>7, AcceptStep
    <2> QED
      BY <1>1, <2>4, <2>7, <2>8, NoNumber DEF OutputInv
  <1>11. CASE ~HasEmptyFrameBuffer(room) /\ direct
    <2>1. tail = <<pictures>> /\ tail \in Seq(Nat)
      BY <1>1, <1>11 DEF tail
    <2>2. ready' = ready \o s \o tail
      BY <1>7
    <2>3. dpb' = room
      BY <1>2, <1>11
    <2>4. Leaving(1 .. n, S, s, dpb'.entries)
      BY <1>8, <1>9b, <2>3
    <2>5. \A j \in Waiting(dpb.entries) \ S : pic.poc <= dpb.entries[j].poc
      BY <1>7, <1>8, <1>11
    <2>6. Reorder!Next
      BY <1>9a, <2>1, <2>2, <2>4, <2>5, PassStep
    <2> QED
      BY <1>1, <1>5, <1>8, <2>3, <2>6, NoNumber DEF OutputInv
  <1>12. CASE ~HasEmptyFrameBuffer(room) /\ ~direct
    <2>1. ready' = ready \o s
      <3>1. (ready \o s) \o <<>> = ready \o s
        BY <1>7, <1>9
      <3>2. tail = <<>>
        BY <1>12 DEF tail
      <3> QED
        BY <1>7, <3>1, <3>2
    <2>2. dpb' = room
      BY <1>2, <1>12
    <2>3. WaitingCounts(dpb'.entries) = Staying(dpb.entries, S)
      BY <1>7, <1>8, <2>2
    <2>4. Reorder!Next
      BY <1>1, <1>7, <1>9, <2>1, <2>3, ReleaseStep
    <2> QED
      BY <1>1, <1>5, <1>8, <2>2, <2>4, NoNumber DEF OutputInv
  <1> QED
    BY <1>10, <1>11, <1>12

-----------------------------------------------------------------------------
(* The rest of the public calls *)

\* flush hands out all that waits, in order.
LEMMA ResetOutput ==
  ASSUME IInv, OutputInv, Reset
  PROVE  OutputInv' /\ [Reorder!Next]_(Reorder!vars)
  <1>1. /\ phase' \notin {"picture", "marking"} /\ dpb' = Clear(dpb)
        /\ taken' = taken /\ discarded' = discarded
        /\ \E out \in Drained(dpb) : ready' = ready \o out
    BY DEF Reset
  <1>2. /\ dpb'.entries = NoEntries /\ dpb'.maxReorder <= dpb'.maxNumPics
    BY <1>1, Facts, ClearLimits
  <1>3. Waiting(dpb'.entries) = {} /\ Real(dpb'.entries)
    BY <1>2, NothingWaits
  <1>4. PICK out \in Drained(dpb) : ready' = ready \o out
    BY <1>1
  <1>5. Reorder!Next
    BY <1>1, <1>3, <1>4, DrainStep DEF OutputInv
  <1> QED
    BY <1>1, <1>2, <1>3, <1>5, NoNumber DEF OutputInv

\* What the caller takes came due before.
LEMMA CallOutput ==
  ASSUME IInv, OutputInv, SubmitParameterSets \/ TakeFrames
  PROVE  OutputInv' /\ [Reorder!Next]_(Reorder!vars)
  <1>1. /\ phase' \notin {"picture", "marking"} /\ dpb' = dpb /\ discarded' = discarded
        /\ \/ taken' = taken /\ ready' = ready
           \/ taken' = taken \o ready /\ ready' = <<>>
    BY DEF SubmitParameterSets, TakeFrames
  <1>2. taken \in Seq(1 .. pictures) /\ ready \in Seq(1 .. pictures)
    BY DEF IInv, TypeOK
  <1>3. (taken \o ready) \o <<>> = taken \o ready
    BY <1>2
  <1>4. taken' \o ready' = taken \o ready
    BY <1>1, <1>3
  <1> QED
    BY <1>1, <1>4, StutterStep, NoNumber DEF OutputInv

-----------------------------------------------------------------------------
(* The implementation *)

LEMMA InitOutput == Init => OutputInv /\ Reorder!Init
  <1> SUFFICES ASSUME Init PROVE OutputInv /\ Reorder!Init
    OBVIOUS
  <1>1. /\ dpb.entries = NoEntries /\ dpb.maxReorder <= dpb.maxNumPics
        /\ ready = <<>> /\ taken = <<>> /\ discarded = {}
        /\ phase \notin {"picture", "marking"}
    BY DEF Init, EmptyDpb
  <1>2. Waiting(dpb.entries) = {} /\ Real(dpb.entries)
    BY <1>1, NothingWaits
  <1>3. WaitingCounts(dpb.entries) = [i \in {} |-> 0]
    BY <1>2 DEF WaitingCounts
  <1>4. taken \o ready = <<>>
    BY <1>1
  <1> QED
    BY <1>1, <1>2, <1>3, <1>4 DEF OutputInv, NewNumber, Reorder!Init

LEMMA NextOutput == IInv /\ OutputInv /\ [Next]_vars => OutputInv' /\ [Reorder!Next]_(Reorder!vars)
  <1> SUFFICES ASSUME IInv, OutputInv, [Next]_vars
               PROVE  OutputInv' /\ [Reorder!Next]_(Reorder!vars)
    OBVIOUS
  <1>1. ASSUME NEW c \in CodedPicture, BeginPicture(c)
        PROVE  OutputInv' /\ [Reorder!Next]_(Reorder!vars)
    BY <1>1, BeginPictureOutput
  <1>2. CASE RefuseGap
    BY <1>2, FailOutput DEF RefuseGap
  <1>3. CASE FillGap
    BY <1>3, FillGapOutput
  <1>4. ASSUME NEW allocated \in BOOLEAN, StartPicture(allocated)
        PROVE  OutputInv' /\ [Reorder!Next]_(Reorder!vars)
    BY <1>4, StartPictureOutput
  <1>5. CASE AbandonPicture
    BY <1>5, FailOutput DEF AbandonPicture
  <1>6. CASE MarkReference
    BY <1>6, MarkReferenceOutput
  <1>7. CASE Mmco
    BY <1>7, MmcoOutput
  <1>8. CASE StorePicture
    BY <1>8, StorePictureOutput
  <1>9. CASE SubmitParameterSets \/ TakeFrames
    BY <1>9, CallOutput
  <1>10. CASE Reset
    BY <1>10, ResetOutput
  <1>11. CASE UNCHANGED vars
    <2>1. UNCHANGED <<dpb, pictures, ready, taken, discarded, phase>>
      BY <1>11 DEF vars
    <2> QED
      BY <2>1, StutterStep DEF OutputInv, NewNumber
  <1> QED
    BY <1>1, <1>2, <1>3, <1>4, <1>5, <1>6, <1>7, <1>8, <1>9, <1>10, <1>11 DEF Next

\* The decoder keeps the promise of its output for any stream: every picture
\* comes due in output order, whatever is lost, refused or fails between.
THEOREM DecoderImplements == Spec => OutputInOrder
  BY InitIInv, NextIInv, InitOutput, NextOutput, PTL DEF Spec, OutputInOrder, Reorder!Spec

\* No picture is handed over twice by decode and flush, nor after it was
\* dropped or while it still waits.
THEOREM EachPictureOnce == Spec => []Reorder!EachPictureOnce
<1>1. Reorder!Init => Promise!Init
  BY DEF Reorder!Init, Promise!Init
<1>2. [Reorder!Next]_(Reorder!vars) => [Promise!Next]_(Promise!vars)
  <2>1. Reorder!Due = Promise!Due
    BY DEF Reorder!Due, Promise!Due, Reorder!Before, Promise!Before
  <2>2. ASSUME NEW S PROVE Reorder!Orders(S) = Promise!Orders(S)
    <3>1. Reorder!Cardinality(S) = Promise!Cardinality(S)
      BY DEF Reorder!Cardinality, Promise!Cardinality
    <3> QED
      BY <3>1 DEF Reorder!Orders, Promise!Orders, Reorder!Before, Promise!Before
  <2>3. ASSUME NEW S, NEW s
        PROVE  /\ Reorder!Release(S, s) => Promise!Release(S, s)
               /\ Reorder!Accept(S, s) => Promise!Accept(S, s)
               /\ Reorder!Pass(S, s) => Promise!Pass(S, s)
    BY DEF Reorder!Release, Promise!Release, Reorder!Accept, Promise!Accept,
           Reorder!Pass, Promise!Pass, Reorder!Stay, Promise!Stay,
           Reorder!IsNew, Promise!IsNew, Reorder!Released, Promise!Released
  <2>4. Reorder!Discard => Promise!Discard
    BY DEF Reorder!Discard, Promise!Discard
  <2>5. Reorder!Next => Promise!Next
    BY <2>1, <2>2, <2>3, <2>4 DEF Reorder!Next, Promise!Next
  <2> QED
    BY <2>5 DEF Reorder!vars, Promise!vars
<1>3. Promise!EachPictureOnce => Reorder!EachPictureOnce
  BY DEF Promise!EachPictureOnce, Reorder!EachPictureOnce, Promise!Released, Reorder!Released
<1> QED
  BY DecoderImplements, Promise!OutputOnce, <1>1, <1>2, <1>3, PTL
     DEF OutputInOrder, Reorder!Spec, Promise!Spec

-----------------------------------------------------------------------------
(* The loop of submit: its calls of the decoder are steps H264Decoder has. *)

\* The slices that are still to be read or decoded are slices.
SlicesTyped ==
    /\ units \in Seq(Slice)
    /\ read \in Slice \cup {NoSlice}

LEMMA SlicesTypedInit == SubmitInit => SlicesTyped
  BY DEF SubmitInit, SlicesTyped

\* begin_picture is called for a slice's picture, the first of a sequence of them.
LEMMA HeadAndTail ==
  ASSUME NEW s \in Seq(Slice), s # <<>>
  PROVE  Head(s) \in Slice /\ Tail(s) \in Seq(Slice)
  OBVIOUS

LEMMA SlicesTypedStep == SlicesTyped /\ [SubmitNext]_submitVars => SlicesTyped'
<1> SUFFICES ASSUME SlicesTyped, [SubmitNext]_submitVars
             PROVE  SlicesTyped'
  OBVIOUS
<1> USE DEF SlicesTyped
<1>1. ASSUME NEW accessUnit \in Seq(Slice), Submit(accessUnit)
      PROVE  SlicesTyped'
  BY <1>1 DEF Submit
<1>2. CASE ReadSlice
  <2>1. Head(units) \in Slice /\ Tail(units) \in Seq(Slice)
    BY <1>2, HeadAndTail DEF ReadSlice
  <2>2. CASE BeginWith(Head(units), Tail(units))
    <3>1. \/ units' = <<>> /\ read' = NoSlice
          \/ units' = Tail(units) /\ read' = Head(units)
      BY <2>2, Zenon DEF BeginWith
    <3>2. <<>> \in Seq(Slice)
      OBVIOUS
    <3> QED
      BY <2>1, <3>1, <3>2, Zenon
  <2>3. CASE read' = Head(units) /\ units' = Tail(units)
    BY <2>1, <2>3
  <2>4. BeginWith(Head(units), Tail(units)) \/ (read' = Head(units) /\ units' = Tail(units))
    BY <1>2, Zenon DEF ReadSlice
  <2> QED
    BY <2>2, <2>3, <2>4, Zenon
<1>3. CASE NextPicture
  <2>1. /\ read # NoSlice
        /\ \/ units' = <<>> /\ read' = NoSlice
           \/ units' = units /\ read' = read
    BY <1>3, Zenon DEF NextPicture, BeginWith
  <2>2. <<>> \in Seq(Slice)
    OBVIOUS
  <2> QED
    BY <2>1, <2>2, Zenon
<1>4. CASE DecodeSlice
  BY <1>4 DEF DecodeSlice
<1>5. CASE EndUnit
  BY <1>5 DEF EndUnit
<1>6. CASE Proceed
  BY <1>6 DEF Proceed, RestOfUnit
<1>7. CASE Abandon
  BY <1>7 DEF Abandon, RestOfUnit
<1>8. CASE Call
  BY <1>8 DEF Call
<1>9. CASE UNCHANGED submitVars
  BY <1>9 DEF submitVars
<1> QED
  BY <1>1, <1>2, <1>3, <1>4, <1>5, <1>6, <1>7, <1>8, <1>9 DEF SubmitNext

\* A step of the loop is a step of the decoder, or leaves it alone.
LEMMA StepImplements == SlicesTyped /\ [SubmitNext]_submitVars => [Next]_vars
<1> SUFFICES ASSUME SlicesTyped, [SubmitNext]_submitVars
             PROVE  [Next]_vars
  OBVIOUS
<1>0. ASSUME NEW s \in Slice, NEW left, BeginWith(s, left)
      PROVE  Next
  <2>1. s.picture \in CodedPicture
    BY DEF Slice
  <2>2. BeginPicture(s.picture)
    BY <1>0 DEF BeginWith
  <2> QED
    BY <2>1, <2>2 DEF Next
<1>1. ASSUME NEW accessUnit \in Seq(Slice), Submit(accessUnit)
      PROVE  UNCHANGED vars
  BY <1>1 DEF Submit
<1>2. CASE ReadSlice
  <2>1. Head(units) \in Slice
    BY <1>2, HeadAndTail DEF ReadSlice, SlicesTyped
  <2>2. CASE phase = "idle" /\ BeginWith(Head(units), Tail(units))
    BY <1>0, <2>1, <2>2
  <2>3. CASE MarkReference \/ UNCHANGED vars
    BY <2>3 DEF Next
  <2>4. \/ phase = "idle" /\ BeginWith(Head(units), Tail(units))
        \/ MarkReference
        \/ UNCHANGED vars
    BY <1>2, Zenon DEF ReadSlice
  <2> QED
    BY <2>2, <2>3, <2>4, Zenon
<1>3. CASE NextPicture
  <2>1. read \in Slice /\ BeginWith(read, units)
    BY <1>3 DEF NextPicture, SlicesTyped
  <2> QED
    BY <1>0, <2>1
<1>4. CASE DecodeSlice
  BY <1>4 DEF DecodeSlice
<1>5. CASE EndUnit
  BY <1>5 DEF EndUnit, Next
<1>6. CASE Proceed
  BY <1>6 DEF Proceed, Next
<1>7. CASE Abandon
  BY <1>7 DEF Abandon, Next
<1>8. CASE Call
  BY <1>8 DEF Call, Next
<1>9. CASE UNCHANGED submitVars
  BY <1>9 DEF submitVars
<1> QED
  BY <1>1, <1>2, <1>3, <1>4, <1>5, <1>6, <1>7, <1>8, <1>9 DEF SubmitNext

\* H264::submit implements the decoder of H264Decoder, which takes its coded
\* pictures whole, whatever slices an access unit holds and wherever it fails.
THEOREM SubmitImplements == SubmitSpec => Spec
<1>1. SubmitInit => Init
  BY DEF SubmitInit
<1> QED
  BY <1>1, SlicesTypedInit, SlicesTypedStep, StepImplements, PTL DEF SubmitSpec, Spec

\* So the surfaces in the DPB are of the active sequence, and within its
\* limit, for any access units.
THEOREM SubmitKeepsSequence == SubmitSpec => []DpbWithinSequence
  BY SubmitImplements, SequenceKept, PTL

\* And what submit, flush and the calls that take pictures hand over comes in
\* output order, whatever slices are lost or refused between.
THEOREM SubmitKeepsOrder == SubmitSpec => OutputInOrder
  BY SubmitImplements, DecoderImplements, PTL

-----------------------------------------------------------------------------
(* Which picture a slice is decoded into *)

\* b, read after a, is another slice of its picture, or the first of a later one.
Follows(a, b) == IF b.first THEN b.coded > a.coded ELSE b.coded = a.coded

WholeUnit(accessUnit) ==
    \A k \in 1 .. Len(accessUnit) - 1 : Follows(accessUnit[k], accessUnit[k + 1])

\* An access unit has pictures that were not begun before, each picture after
\* its first one with its first slice.  Slices may be missing at the start and
\* at the end of each call and within a picture.
UnitsWhole ==
    Submit(units') =>
        /\ WholeUnit(units')
        /\ units' # <<>> => Head(units').coded > begun

\* What was read and is not decoded yet, and what is left to be read, follow
\* the picture that was begun last; a call that failed has left nothing.
Chained ==
    /\ WholeUnit(units)
    /\ phase = "idle" => read = NoSlice
    /\ phase = "idle" /\ units # <<>> => Head(units).coded > begun
    /\ phase # "idle" /\ units # <<>> /\ read = NoSlice =>
           /\ phase = "picture"
           /\ Follows([coded |-> begun], Head(units))
    /\ units # <<>> /\ read # NoSlice => Follows(read, Head(units))
    /\ phase \in {"gap", "picture"} /\ read # NoSlice => read.coded = begun
    /\ phase \in {"marking", "ready"} /\ read # NoSlice => read.coded > begun

\* The slices behind the first of an access unit are chained as well.
LEMMA WholeTail ==
  ASSUME NEW u \in Seq(Slice), u # <<>>, WholeUnit(u)
  PROVE  /\ WholeUnit(Tail(u))
         /\ Tail(u) # <<>> => Follows(Head(u), Head(Tail(u)))
<1>1. /\ Tail(u) \in Seq(Slice)
      /\ Len(u) \in Nat
      /\ Len(Tail(u)) = Len(u) - 1
      /\ Head(u) = u[1]
      /\ \A k \in 1 .. Len(u) - 1 : Tail(u)[k] = u[k + 1]
  OBVIOUS
<1>2. ASSUME NEW k \in 1 .. Len(Tail(u)) - 1
      PROVE  Follows(Tail(u)[k], Tail(u)[k + 1])
  <2>1. k + 1 \in 1 .. Len(u) - 1 /\ k \in 1 .. Len(u) - 1
    BY <1>1
  <2>2. Tail(u)[k] = u[k + 1] /\ Tail(u)[k + 1] = u[(k + 1) + 1]
    BY <1>1, <2>1
  <2>3. Follows(u[k + 1], u[(k + 1) + 1])
    BY <2>1 DEF WholeUnit
  <2> QED
    BY <2>2, <2>3
<1>3. ASSUME Tail(u) # <<>> PROVE Follows(Head(u), Head(Tail(u)))
  <2>1. 1 \in 1 .. Len(u) - 1 /\ Head(Tail(u)) = Tail(u)[1]
    BY <1>1, <1>3
  <2>2. Follows(u[1], u[1 + 1])
    BY <2>1 DEF WholeUnit
  <2> QED
    BY <1>1, <2>1, <2>2
<1> QED
  BY <1>2, <1>3 DEF WholeUnit

\* begin_picture fails, and ends the call, or the picture is in the making.
LEMMA BeginPhase ==
  ASSUME NEW s, NEW left, BeginWith(s, left)
  PROVE  /\ begun' = s.coded
         /\ \/ phase' = "idle" /\ units' = <<>> /\ read' = NoSlice
            \/ phase' = "gap" /\ units' = left /\ read' = s
<1>1. phase' = "idle" \/ phase' = "gap"
  BY DEF BeginWith, BeginPicture, RefuseSps, Fail
<1>2. /\ begun' = s.coded
      /\ IF phase' = "idle"
         THEN units' = <<>> /\ read' = NoSlice
         ELSE units' = left /\ read' = s
  BY DEF BeginWith
<1> QED
  BY <1>1, <1>2

\* Where the other steps of the decoder lead.
LEMMA ProceedPhase ==
  ASSUME Proceed \/ Abandon
  PROVE  /\ begun' = begun
         /\ \/ phase' = "idle" /\ units' = <<>> /\ read' = NoSlice
            \/ /\ units' = units /\ read' = read
               /\ <<phase, phase'>> \in {<<"gap", "gap">>, <<"gap", "picture">>,
                                         <<"marking", "marking">>, <<"marking", "ready">>}
<1>1. RestOfUnit
  BY DEF Proceed, Abandon
<1>2. CASE RefuseGap \/ AbandonPicture
  BY <1>1, <1>2 DEF RefuseGap, AbandonPicture, Fail, RestOfUnit
<1>3. CASE FillGap
  <2>1. phase = "gap" /\ (phase' = "idle" \/ phase' = phase)
    BY <1>3 DEF FillGap, Fail
  <2> QED
    BY <1>1, <2>1 DEF RestOfUnit
<1>4. ASSUME NEW allocated \in BOOLEAN, StartPicture(allocated)
      PROVE  phase = "gap" /\ (phase' = "idle" \/ phase' = "picture")
  BY <1>4 DEF StartPicture, Fail
<1>5. CASE Mmco
  <2>1. phase = "marking" /\ (phase' = "idle" \/ phase' = phase)
    BY <1>5 DEF Mmco, Fail
  <2> QED
    BY <1>1, <2>1 DEF RestOfUnit
<1>6. CASE StorePicture
  <2>1. phase = "marking" /\ (phase' = "idle" \/ phase' = "ready")
    BY <1>6 DEF StorePicture, Fail, Submitted
  <2> QED
    BY <1>1, <2>1 DEF RestOfUnit
<1> QED
  BY <1>1, <1>2, <1>3, <1>4, <1>5, <1>6 DEF Proceed, Abandon, RestOfUnit

\* A picture that is begun after what was decoded leaves the rest chained.
LEMMA BeginChained ==
  ASSUME NEW s \in Slice, NEW left, BeginWith(s, left), WholeUnit(left),
         left # <<>> => Follows(s, Head(left))
  PROVE  Chained'
<1>1. WholeUnit(<<>>)
  BY DEF WholeUnit
<1>2. s # NoSlice
  BY DEF Slice, NoSlice
<1>3. CASE phase' = "idle" /\ units' = <<>> /\ read' = NoSlice
  BY <1>1, <1>3 DEF Chained, WholeUnit
<1>4. CASE phase' = "gap" /\ units' = left /\ read' = s
  <2>1. begun' = s.coded
    BY BeginPhase
  <2> QED
    BY <1>2, <1>4, <2>1 DEF Chained, WholeUnit, Follows
<1> QED
  BY <1>3, <1>4, BeginPhase

LEMMA NextChained ==
  ASSUME SlicesTyped, Chained, [UnitsWhole]_submitVars, [SubmitNext]_submitVars
  PROVE  Chained'
<1>8. CASE UNCHANGED submitVars
  BY <1>8 DEF submitVars, vars, Chained, WholeUnit
<1>1. ASSUME NEW accessUnit \in Seq(Slice), Submit(accessUnit), UnitsWhole
      PROVE  Chained'
  <2>1. /\ units' = accessUnit /\ phase' = phase /\ read' = read /\ begun' = begun
        /\ phase = "idle" /\ units = <<>>
    BY <1>1 DEF Submit, Outside, vars
  <2>2. Submit(units')
    BY <1>1, <2>1
  <2>3. WholeUnit(units') /\ (units' # <<>> => Head(units').coded > begun)
    BY <1>1, <2>2 DEF UnitsWhole
  <2> QED
    BY <2>1, <2>3 DEF Chained, WholeUnit
<1>2. CASE ReadSlice
  <2>1. /\ units # <<>> /\ read = NoSlice
        /\ Head(units) \in Slice
        /\ WholeUnit(Tail(units))
        /\ Tail(units) # <<>> => Follows(Head(units), Head(Tail(units)))
    BY <1>2, HeadAndTail, WholeTail DEF ReadSlice, SlicesTyped, Chained
  <2>2. CASE phase = "idle" /\ BeginWith(Head(units), Tail(units))
    BY <2>1, <2>2, BeginChained
  <2>3. CASE /\ phase = "picture"
             /\ IF Head(units).first THEN MarkReference ELSE UNCHANGED vars
             /\ read' = Head(units)
             /\ units' = Tail(units)
             /\ UNCHANGED begun
    <3>1. Follows([coded |-> begun], Head(units))
      BY <2>1, <2>3 DEF Chained
    <3>2. CASE Head(units).first
      <4>1. phase' = "marking" /\ Head(units).coded > begun
        BY <2>3, <3>1, <3>2 DEF MarkReference, Follows
      <4> QED
        BY <2>1, <2>3, <4>1 DEF Chained, WholeUnit, Follows, Slice, NoSlice
    <3>3. CASE ~Head(units).first
      <4>1. phase' = "picture" /\ Head(units).coded = begun
        BY <2>3, <3>1, <3>3 DEF vars, Follows
      <4> QED
        BY <2>1, <2>3, <4>1 DEF Chained, WholeUnit, Follows, Slice, NoSlice
    <3> QED
      BY <3>2, <3>3
  <2> QED
    BY <1>2, <2>2, <2>3 DEF ReadSlice
<1>3. CASE NextPicture
  <2>1. read \in Slice /\ BeginWith(read, units)
    BY <1>3 DEF NextPicture, SlicesTyped
  <2>2. WholeUnit(units) /\ (units # <<>> => Follows(read, Head(units)))
    BY <1>3 DEF NextPicture, Chained
  <2> QED
    BY <2>1, <2>2, BeginChained
<1>4. CASE DecodeSlice
  <2>1. /\ phase = "picture" /\ phase' = phase /\ read # NoSlice /\ read' = NoSlice
        /\ units' = units /\ begun' = begun
    BY <1>4 DEF DecodeSlice, vars
  <2>2. read.coded = begun /\ (units # <<>> => Follows(read, Head(units)))
    BY <2>1 DEF Chained
  <2> QED
    BY <2>1, <2>2 DEF Chained, WholeUnit, Follows
<1>5. CASE EndUnit
  <2>1. /\ units = <<>> /\ read = NoSlice /\ phase' = "marking"
        /\ units' = units /\ read' = read
    BY <1>5 DEF EndUnit, MarkReference
  <2> QED
    BY <2>1 DEF Chained, WholeUnit
<1>6. CASE Proceed \/ Abandon
  <2>1. begun' = begun
    BY <1>6, ProceedPhase
  <2>2. CASE phase' = "idle" /\ units' = <<>> /\ read' = NoSlice
    BY <2>2 DEF Chained, WholeUnit
  <2>3. CASE /\ units' = units /\ read' = read
             /\ <<phase, phase'>> \in {<<"gap", "gap">>, <<"gap", "picture">>,
                                       <<"marking", "marking">>, <<"marking", "ready">>}
    <3>1. phase \in {"gap", "marking"} /\ phase' # "idle"
          /\ (phase = "gap" => phase' \in {"gap", "picture"})
          /\ (phase = "marking" => phase' \in {"marking", "ready"})
      BY <2>3
    <3> QED
      BY <2>1, <2>3, <3>1 DEF Chained, WholeUnit
  <2> QED
    BY <1>6, <2>2, <2>3, ProceedPhase
<1>7. CASE Call
  BY <1>7 DEF Call, Chained, WholeUnit
<1> QED
  BY <1>1, <1>2, <1>3, <1>4, <1>5, <1>6, <1>7, <1>8 DEF SubmitNext

\* A picture is begun after all that were begun before, and what is decoded
\* into it are its slices.
LEMMA StepOfOnePicture ==
  ASSUME SlicesTyped, Chained, [SubmitNext]_submitVars
  PROVE  [/\ DecodeSlice => read.coded = begun
          /\ phase' = "gap" /\ phase # "gap" => begun' > begun]_submitVars
<1>1. ASSUME DecodeSlice PROVE read.coded = begun
  BY <1>1 DEF DecodeSlice, Chained
<1>2. ASSUME phase' = "gap", phase # "gap", SubmitNext PROVE begun' > begun
  <2>1. CASE ReadSlice
    <3>1. CASE phase = "idle" /\ BeginWith(Head(units), Tail(units))
      BY <2>1, <3>1, BeginPhase DEF Chained, ReadSlice
    <3>2. CASE phase = "picture" /\ IF Head(units).first THEN MarkReference ELSE UNCHANGED vars
      BY <1>2, <3>2 DEF MarkReference, vars
    <3> QED
      BY <2>1, <3>1, <3>2 DEF ReadSlice
  <2>2. CASE NextPicture
    <3>1. phase = "ready" /\ read # NoSlice /\ BeginWith(read, units)
      BY <2>2 DEF NextPicture
    <3> QED
      BY <3>1, BeginPhase DEF Chained
  <2>3. CASE Proceed \/ Abandon
    BY <1>2, <2>3, ProceedPhase
  <2>4. CASE DecodeSlice \/ \E accessUnit \in Seq(Slice) : Submit(accessUnit)
    BY <1>2, <2>4 DEF DecodeSlice, Submit, vars
  <2>5. CASE EndUnit
    BY <1>2, <2>5 DEF EndUnit, MarkReference
  <2>6. CASE Call
    BY <1>2, <2>6 DEF Call, SubmitParameterSets, Reset, TakeFrames
  <2> QED
    BY <1>2, <2>1, <2>2, <2>3, <2>4, <2>5, <2>6 DEF SubmitNext
<1> QED
  BY <1>1, <1>2

\* Whatever fails, and whatever is missing but the first slice of a picture
\* behind another in its call, a slice is decoded into its own picture and no
\* remainder of a failed one is taken for a picture.
THEOREM SlicesApart == SubmitSpec /\ [][UnitsWhole]_submitVars => SlicesOfOnePicture
<1>1. SubmitInit => Chained
  BY DEF SubmitInit, Init, Chained, WholeUnit
<1> QED
  BY <1>1, SlicesTypedInit, SlicesTypedStep, NextChained, StepOfOnePicture, PTL
     DEF SubmitSpec, SlicesOfOnePicture

-----------------------------------------------------------------------------
(* Room for every picture of a stream without adaptive marking *)

\* The slice leaves reference marking to the sliding window, and has a parameter
\* set whose window fits its buffer.
WindowOnly(c) ==
    /\ c.sps.maxDpbFrames > 0
    /\ c.sps.maxNumRefFrames <= c.sps.maxDpbFrames
    /\ ~c.longTerm /\ ~c.adaptive

SlidingOnly == phase \in {"gap", "picture", "marking"} => WindowOnly(slice)

\* A picture that is a short-term reference or waits is of use.
LEMMA OneMoreUsed ==
  ASSUME NEW d, AllUsed(d), NEW id, NEW new,
         new.ref = "ShortTerm" \/ (new.ref = "None" /\ new.needed)
  PROVE  AllUsed(Plus(d, id, new))
  BY DEF AllUsed, Plus

\* Every picture of the DPB is of use; one in the making has the mark its slice
\* says, finds an empty DPB if it is an IDR picture, and a window with room for
\* one more reference once reference_pic_marking has run.
WindowInv ==
    /\ result # "full"
    /\ todo = <<>>
    /\ AllUsed(dpb.entries)
    /\ phase \in {"gap", "picture", "marking"} => dpb.maxNumPics = slice.sps.maxDpbFrames
    /\ phase \in {"picture", "marking"} =>
           /\ pic.ref = IF slice.ref THEN "ShortTerm" ELSE "None"
           /\ pic.idr = slice.idr /\ ~pic.mmco5
           /\ slice.idr => DOMAIN dpb.entries = {}
    /\ phase = "marking" /\ slice.ref /\ ~slice.idr =>
           Cardinality(Refs(dpb.entries)) < WindowLimit(slice.sps.maxNumRefFrames)

\* What a step outside of a picture has to keep.
LEMMA OutsideWindow ==
  ASSUME phase' \in {"idle", "ready"}, result' # "full", todo' = <<>>, AllUsed(dpb'.entries)
  PROVE  WindowInv'
  BY DEF WindowInv

\* An empty buffer holds nothing that is of no use.
LEMMA EmptyUsed == AllUsed(NoEntries)
  BY DEF AllUsed, NoEntries

\* begin_picture sets the limits and empties the buffer, or leaves it.
LEMMA BeginPictureWindow ==
  ASSUME IInv, WindowInv, NEW c \in CodedPicture, BeginPicture(c)
  PROVE  WindowInv'
  <1> DEFINE l == SetLimits(dpb, c.sps.maxDpbFrames, ReorderLimit(c.sps))
  <1>1. /\ l.entries = dpb.entries /\ l.maxNumPics = c.sps.maxDpbFrames
        /\ Clear(l).entries = NoEntries /\ Clear(l).maxNumPics = c.sps.maxDpbFrames
    BY Facts DEF SetLimits, Clear, DpbUpTo
  <1>2. dpb' \in {dpb, l, Clear(l)}
    BY DEF BeginPicture, RefuseSps, KeepSequence, RebuildSequence
  <1>3. /\ phase' = "gap" => dpb' \in {l, Clear(l)} /\ slice' = c /\ todo' = todo /\ result' = "ok"
        /\ phase' # "gap" => phase' = "idle" /\ todo' = <<>> /\ result' # "full"
    BY DEF BeginPicture, RefuseSps, KeepSequence, RebuildSequence, Fail
  <1> HIDE DEF l
  <1>4. AllUsed(dpb'.entries)
    BY <1>1, <1>2, EmptyUsed DEF WindowInv
  <1>5. CASE phase' = "gap"
    BY <1>1, <1>3, <1>4, <1>5 DEF WindowInv
  <1>6. CASE phase' # "gap"
    BY <1>3, <1>4, <1>6, OutsideWindow
  <1> QED
    BY <1>5, <1>6

\* The sliding window and bumping, one after the other, leave room for the
\* picture they were run for.
LEMMA RoundMakesRoom ==
  ASSUME NEW n \in Nat, NEW b \in DpbUpTo(n), NEW p, p.nonexisting \/ (IsRef(p) /\ ~p.idr),
         b.maxReorder <= b.maxNumPics, AllUsed(b.entries),
         Cardinality(Refs(b.entries)) < b.maxNumPics
  PROVE  LET room == [b EXCEPT !.entries = Bump(@, BumpedAsNeeded(b, p))]
         IN  /\ HasEmptyFrameBuffer(room)
             /\ room \in DpbUpTo(n) /\ AllUsed(room.entries) /\ room.maxNumPics = b.maxNumPics
  <1> DEFINE e == Bump(b.entries, BumpedAsNeeded(b, p))
  <1>1. Cardinality(DOMAIN e) < b.maxNumPics
    BY BumpingMakesRoom
  <1>2. b.entries \in EntriesUpTo(n)
    BY DEF DpbUpTo
  <1>3. e \in EntriesUpTo(n) /\ AllUsed(e)
    BY <1>2, BumpFrom, BumpUsed
  <1> HIDE DEF e
  <1>4. LET room == [b EXCEPT !.entries = e]
        IN  room \in DpbUpTo(n) /\ room.entries = e /\ room.maxNumPics = b.maxNumPics
    BY <1>3 DEF DpbUpTo
  <1>5. LET room == [b EXCEPT !.entries = e]
        IN  /\ HasEmptyFrameBuffer(room)
            /\ room \in DpbUpTo(n) /\ AllUsed(room.entries) /\ room.maxNumPics = b.maxNumPics
    BY <1>1, <1>3, <1>4 DEF HasEmptyFrameBuffer
  <1> QED
    BY <1>5 DEF e

\* A picture of a gap: the window makes room for a reference, bumping makes it free.
LEMMA FillGapWindow ==
  ASSUME IInv, OutputInv, WindowInv, SlidingOnly, FillGap
  PROVE  WindowInv'
  <1> DEFINE new      == NonExisting(unused)
             numbered == UpdatePicNums(dpb.entries, unused, slice.sps.maxFrameNum)
             window   == SlidingWindowMarking(numbered, slice.sps.maxNumRefFrames)
             marked   == [dpb EXCEPT !.entries = window]
             room     == [marked EXCEPT !.entries = Bump(@, BumpedAsNeeded(marked, new))]
  <1>1. /\ phase = "gap" /\ slice \in CodedPicture /\ unused \in Nat
        /\ slice.sps \in SequenceInfo
    BY SpsAssumption DEF FillGap, IInv, TypeOK, CodedPicture
  <1>2. /\ slice.sps.maxFrameNum \in Nat /\ slice.sps.maxNumRefFrames \in Nat
        /\ slice.sps.maxDpbFrames \in Nat
    BY <1>1 DEF SequenceInfo
  <1>3. \/ ~HasEmptyFrameBuffer(room)
        \/ /\ dpb' = Store(room, pictures + 1, new, 0)
           /\ UNCHANGED <<phase, result, slice, pic, todo>>
    BY DEF FillGap
  <1>4. new.nonexisting = TRUE /\ new.ref = "ShortTerm"
    BY DEF NonExisting
  <1>5. numbered \in EntriesUpTo(pictures) /\ AllUsed(numbered)
    BY <1>1, <1>2, Facts, UpdatePicNumsFrom, UpdatePicNumsUsed DEF WindowInv
  <1> HIDE DEF new, numbered
  <1>6. /\ window \in EntriesUpTo(pictures) /\ AllUsed(window)
        /\ Cardinality(Refs(window)) < WindowLimit(slice.sps.maxNumRefFrames)
    BY <1>2, <1>5, Facts, SlidingWindowFrom, WindowMakesRoom
  <1> HIDE DEF window
  <1>7. /\ marked \in DpbUpTo(pictures) /\ marked.entries = window
        /\ marked.maxNumPics = dpb.maxNumPics /\ marked.maxReorder <= marked.maxNumPics
    BY <1>6, Facts DEF DpbUpTo, OutputInv
  <1> HIDE DEF marked
  <1>8. /\ dpb.maxNumPics = slice.sps.maxDpbFrames
        /\ WindowLimit(slice.sps.maxNumRefFrames) <= dpb.maxNumPics
    BY <1>1, <1>2 DEF WindowInv, SlidingOnly, WindowOnly, WindowLimit
  <1>9. Cardinality(Refs(window)) < marked.maxNumPics
    <2>1. Cardinality(Refs(window)) \in Nat
      BY <1>6, Facts, EntriesFinite, FS_Subset, FS_CardinalityType DEF Refs
    <2>2. WindowLimit(slice.sps.maxNumRefFrames) \in Nat /\ dpb.maxNumPics \in Nat
      BY <1>2, <1>8 DEF WindowLimit
    <2> QED
      BY <1>6, <1>7, <1>8, <2>1, <2>2
  <1>10. /\ HasEmptyFrameBuffer(room) /\ room \in DpbUpTo(pictures)
         /\ AllUsed(room.entries) /\ room.maxNumPics = marked.maxNumPics
    BY <1>4, <1>6, <1>7, <1>9, Facts, RoundMakesRoom
  <1> HIDE DEF room
  <1>11. /\ dpb'.entries = Plus(room.entries, pictures + 1, NewEntry(new, 0))
         /\ dpb'.maxNumPics = dpb.maxNumPics
         /\ UNCHANGED <<phase, result, slice, pic, todo>>
    BY <1>3, <1>7, <1>10, Facts, StorePlus
  <1>12. AllUsed(dpb'.entries)
    <2>1. NewEntry(new, 0).ref = "ShortTerm"
      BY <1>4 DEF NewEntry
    <2> QED
      BY <1>10, <1>11, <2>1, OneMoreUsed
  <1> QED
    BY <1>1, <1>11, <1>12 DEF WindowInv

\* An IDR picture empties the buffer, another one renumbers it.
LEMMA StartPictureWindow ==
  ASSUME IInv, WindowInv, NEW allocated \in BOOLEAN, StartPicture(allocated)
  PROVE  WindowInv'
  <1> DEFINE left == IF slice.idr THEN Clear(dpb) ELSE dpb
             e == UpdatePicNums(left.entries, slice.frameNum, slice.sps.maxFrameNum)
  <1>1. phase = "gap" /\ dpb' = [left EXCEPT !.entries = e]
    BY DEF StartPicture
  <1>2. \/ /\ phase' = "picture" /\ pic'.ref = IF slice.ref THEN "ShortTerm" ELSE "None"
           /\ pic'.idr = slice.idr /\ pic'.mmco5 = FALSE
           /\ UNCHANGED <<result, slice, todo>>
        \/ phase' = "idle" /\ result' = "va" /\ todo' = <<>>
    BY DEF StartPicture, Fail
  <1>3. /\ left \in DpbUpTo(pictures) /\ left.maxNumPics = dpb.maxNumPics
        /\ AllUsed(left.entries)
        /\ slice.idr => left.entries = NoEntries
    BY Facts, ClearWithin, EmptyUsed DEF Clear, DpbUpTo, WindowInv
  <1>4. left.entries \in EntriesUpTo(pictures)
    BY <1>3 DEF DpbUpTo
  <1>5. AllUsed(e) /\ DOMAIN e = DOMAIN left.entries
    <2>1. DOMAIN e = DOMAIN left.entries
      BY DEF UpdatePicNums
    <2> HIDE DEF left
    <2>2. AllUsed(e)
      BY <1>3, <1>4, Facts, UpdatePicNumsUsed
    <2> QED
      BY <2>1, <2>2
  <1> HIDE DEF left, e
  <1>6. dpb'.entries = e /\ dpb'.maxNumPics = dpb.maxNumPics
    BY <1>1, <1>3 DEF DpbUpTo
  <1>7. slice.idr => DOMAIN dpb'.entries = {}
    BY <1>3, <1>5, <1>6 DEF NoEntries
  <1>8. CASE phase' = "idle"
    BY <1>2, <1>5, <1>6, <1>8, OutsideWindow
  <1>9. CASE phase' = "picture"
    BY <1>1, <1>2, <1>5, <1>6, <1>7, <1>9 DEF WindowInv
  <1> QED
    BY <1>2, <1>8, <1>9

\* reference_pic_marking leaves one reference less than the window holds.
LEMMA MarkReferenceWindow ==
  ASSUME IInv, WindowInv, SlidingOnly, MarkReference
  PROVE  WindowInv'
  <1> DEFINE all == MarkAllAsUnusedForRef(dpb.entries)
             window == SlidingWindowMarking(dpb.entries, slice.sps.maxNumRefFrames)
  <1>1. /\ phase = "picture" /\ phase' = "marking" /\ UNCHANGED <<slice, result>>
        /\ slice \in CodedPicture /\ slice.sps \in SequenceInfo
    BY SpsAssumption DEF MarkReference, IInv, TypeOK, CodedPicture
  <1>2. /\ slice.ref \in BOOLEAN /\ slice.idr \in BOOLEAN
        /\ slice.sps.maxNumRefFrames \in Nat /\ ~slice.longTerm /\ ~slice.adaptive
    BY <1>1 DEF CodedPicture, SequenceInfo, SlidingOnly, WindowOnly
  <1>3. /\ ~slice.ref => dpb' = dpb /\ pic' = pic /\ todo' = todo
        /\ slice.ref /\ slice.idr => dpb' = [dpb EXCEPT !.entries = all] /\ pic' = pic /\ todo' = todo
        /\ slice.ref /\ ~slice.idr =>
              dpb' = [dpb EXCEPT !.entries = window] /\ pic' = pic /\ todo' = todo
    BY <1>2, Zenon DEF MarkReference
  <1>4. CASE ~slice.ref
    BY <1>1, <1>3, <1>4 DEF WindowInv
  <1>5. CASE slice.ref /\ slice.idr
    <2>1. DOMAIN all = {}
      BY <1>1, <1>5 DEF WindowInv, MarkAllAsUnusedForRef, Unmark
    <2> HIDE DEF all
    <2>2. dpb'.entries = all /\ dpb'.maxNumPics = dpb.maxNumPics
      BY <1>3, <1>5, Facts DEF DpbUpTo
    <2>3. AllUsed(dpb'.entries)
      BY <2>1, <2>2 DEF AllUsed
    <2> QED
      BY <1>1, <1>3, <1>5, <2>1, <2>2, <2>3 DEF WindowInv
  <1>6. CASE slice.ref /\ ~slice.idr
    <2>1. AllUsed(window) /\ Cardinality(Refs(window)) < WindowLimit(slice.sps.maxNumRefFrames)
      BY <1>2, Facts, WindowMakesRoom DEF WindowInv
    <2> HIDE DEF window
    <2>2. dpb'.entries = window /\ dpb'.maxNumPics = dpb.maxNumPics
      BY <1>3, <1>6, Facts DEF DpbUpTo
    <2> QED
      BY <1>1, <1>3, <1>6, <2>1, <2>2 DEF WindowInv
  <1> QED
    BY <1>2, <1>4, <1>5, <1>6

\* The picture is stored, or goes out directly: it is never refused.
LEMMA StorePictureWindow ==
  ASSUME IInv, OutputInv, WindowInv, SlidingOnly, StorePicture
  PROVE  WindowInv'
  <1> DEFINE bumped == BumpedAsNeeded(dpb, pic)
             room   == [dpb EXCEPT !.entries = Bump(@, bumped)]
  <1>1. /\ phase = "marking" /\ todo = <<>> /\ ~pic.mmco5
        /\ slice \in CodedPicture /\ slice.sps \in SequenceInfo
        /\ pic \in Picture /\ ~pic.nonexisting
    BY SpsAssumption DEF StorePicture, IInv, TypeOK, InTheMaking, CodedPicture, WindowInv
  <1>2. /\ dpb' = IF HasEmptyFrameBuffer(room)
                  THEN Store(room, pictures, pic, sequence.gen) ELSE room
        /\ IF HasEmptyFrameBuffer(room) \/ ~IsRef(pic) THEN Submitted ELSE Fail("full")
    BY <1>1 DEF StorePicture
  <1>3. /\ slice.sps.maxNumRefFrames \in Nat /\ slice.sps.maxDpbFrames \in Nat
        /\ slice.ref \in BOOLEAN /\ slice.idr \in BOOLEAN
    BY <1>1 DEF SequenceInfo, CodedPicture
  <1>4. /\ pic.ref = IF slice.ref THEN "ShortTerm" ELSE "None"
        /\ pic.idr = slice.idr /\ dpb.maxNumPics = slice.sps.maxDpbFrames
        /\ slice.idr => DOMAIN dpb.entries = {}
    BY <1>1 DEF WindowInv
  <1>5. room \in DpbUpTo(pictures) /\ AllUsed(room.entries)
    <2> DEFINE e == Bump(dpb.entries, bumped)
    <2>1. e \in EntriesUpTo(pictures) /\ AllUsed(e)
      BY Facts, BumpFrom, BumpUsed DEF WindowInv
    <2> HIDE DEF e
    <2>2. [dpb EXCEPT !.entries = e] \in DpbUpTo(pictures) /\ [dpb EXCEPT !.entries = e].entries = e
      BY <2>1, Facts DEF DpbUpTo
    <2> QED
      BY <2>1, <2>2 DEF e
  <1>6. HasEmptyFrameBuffer(room) \/ ~IsRef(pic)
    <2>1. SUFFICES ASSUME IsRef(pic) PROVE HasEmptyFrameBuffer(room)
      OBVIOUS
    <2>2. slice.ref
      BY <1>4, <2>1 DEF IsRef
    <2>3. Cardinality(Refs(dpb.entries)) < dpb.maxNumPics
      <3>1. CASE slice.idr
        <4>1. Refs(dpb.entries) = {}
          BY <1>4, <3>1 DEF Refs
        <4> QED
          BY <1>1, <1>3, <1>4, <4>1, FS_EmptySet DEF SlidingOnly, WindowOnly
      <3>2. CASE ~slice.idr
        <4>1. Cardinality(Refs(dpb.entries)) < WindowLimit(slice.sps.maxNumRefFrames)
          BY <1>1, <2>2, <3>2 DEF WindowInv
        <4>2. Cardinality(Refs(dpb.entries)) \in Nat
          BY Facts, EntriesFinite, FS_Subset, FS_CardinalityType DEF Refs
        <4>3. WindowLimit(slice.sps.maxNumRefFrames) \in Nat
              /\ WindowLimit(slice.sps.maxNumRefFrames) <= dpb.maxNumPics
          BY <1>1, <1>3, <1>4 DEF SlidingOnly, WindowOnly, WindowLimit
        <4> QED
          BY <1>3, <1>4, <4>1, <4>2, <4>3
      <3> QED
        BY <3>1, <3>2
    <2>4. CASE ~slice.idr
      <3>1. AllUsed(dpb.entries) /\ dpb.maxReorder <= dpb.maxNumPics
        BY DEF WindowInv, OutputInv
      <3> QED
        BY <1>4, <2>1, <2>3, <2>4, <3>1, Facts, RoundMakesRoom
    <2>5. CASE slice.idr
      <3>1. Bump(dpb.entries, bumped) = dpb.entries
        <4>1. bumped = {}
          BY <1>4, <2>5 DEF BumpedAsNeeded, Waiting
        <4> QED
          BY <4>1 DEF Bump
      <3>2. room = dpb
        BY <3>1, Facts DEF DpbUpTo
      <3>3. Refs(dpb.entries) = DOMAIN dpb.entries
        BY <1>4, <2>5 DEF Refs
      <3> QED
        BY <2>3, <3>2, <3>3 DEF HasEmptyFrameBuffer
    <2> QED
      BY <1>3, <2>4, <2>5
  <1> HIDE DEF room
  <1>7. phase' = "ready" /\ result' = result /\ todo' = todo
    BY <1>2, <1>6 DEF Submitted
  <1>8. AllUsed(dpb'.entries)
    <2>1. CASE HasEmptyFrameBuffer(room)
      <3>1. dpb'.entries = Plus(room.entries, pictures, NewEntry(pic, sequence.gen))
        BY <1>2, <1>5, <2>1, Facts, StorePlus
      <3>2. NewEntry(pic, sequence.gen).ref = pic.ref /\ NewEntry(pic, sequence.gen).needed
        BY <1>1 DEF NewEntry
      <3>3. pic.ref \in {"ShortTerm", "None"}
        BY <1>4
      <3> QED
        BY <1>5, <3>1, <3>2, <3>3, OneMoreUsed
    <2>2. CASE ~HasEmptyFrameBuffer(room)
      BY <1>2, <1>5, <2>2
    <2> QED
      BY <2>1, <2>2
  <1> QED
    BY <1>7, <1>8, OutsideWindow DEF WindowInv

\* So every step keeps it, in a stream without adaptive marking.
LEMMA NextWindow ==
  IInv /\ OutputInv /\ WindowInv /\ SlidingOnly /\ [Next]_vars => WindowInv'
  <1> SUFFICES ASSUME IInv, OutputInv, WindowInv, SlidingOnly, [Next]_vars PROVE WindowInv'
    OBVIOUS
  <1>1. ASSUME NEW c \in CodedPicture, BeginPicture(c) PROVE WindowInv'
    BY <1>1, BeginPictureWindow
  <1>2. CASE FillGap
    BY <1>2, FillGapWindow
  <1>3. ASSUME NEW allocated \in BOOLEAN, StartPicture(allocated) PROVE WindowInv'
    BY <1>3, StartPictureWindow
  <1>4. CASE RefuseGap \/ AbandonPicture
    <2>1. /\ phase' = "idle" /\ result' # "full" /\ todo' = <<>> /\ dpb' = dpb
      BY <1>4 DEF RefuseGap, AbandonPicture, Fail
    <2> QED
      BY <2>1, OutsideWindow DEF WindowInv
  <1>5. CASE MarkReference
    BY <1>5, MarkReferenceWindow
  <1>6. CASE Mmco
    BY <1>6 DEF Mmco, WindowInv
  <1>7. CASE StorePicture
    BY <1>7, StorePictureWindow
  <1>8. CASE SubmitParameterSets \/ TakeFrames
    <2>1. /\ phase' \in {"idle", "ready"} /\ result' \in {"ok", result} /\ todo' = todo /\ dpb' = dpb
      BY <1>8 DEF SubmitParameterSets, TakeFrames
    <2> QED
      BY <2>1, OutsideWindow DEF WindowInv
  <1>9. CASE Reset
    <2>1. /\ phase' = "ready" /\ result' = "ok" /\ todo' = todo /\ dpb' = Clear(dpb)
      BY <1>9 DEF Reset
    <2>2. dpb'.entries = NoEntries
      BY <2>1, Facts DEF Clear, DpbUpTo
    <2> QED
      BY <2>1, <2>2, EmptyUsed, OutsideWindow DEF WindowInv
  <1>10. CASE UNCHANGED vars
    BY <1>10 DEF vars, WindowInv
  <1> QED
    BY <1>1, <1>2, <1>3, <1>4, <1>5, <1>6, <1>7, <1>8, <1>9, <1>10 DEF Next

\* Of any stream of such pictures, however they are numbered and ordered, and
\* whatever fails, none is refused for lack of room: apply_sps's limits,
\* reference_pic_marking and bumping agree.
THEOREM WindowLeavesRoom == Spec /\ []SlidingOnly => []NeverRefused
<1>1. Init => WindowInv
  BY EmptyUsed DEF Init, WindowInv, EmptyDpb, NoEntries
<1>2. WindowInv => NeverRefused
  BY DEF WindowInv, NeverRefused
<1> QED
  BY <1>1, <1>2, InitIInv, NextIInv, InitOutput, NextOutput, NextWindow, PTL DEF Spec

-----------------------------------------------------------------------------
(* The frame numbers of a stream without adaptive marking *)

\* The references are in line back from r, and do not go all the way round.
InLine(d, r, M) == Lined(d, r, M) /\ Cardinality(Refs(d)) < M

\* An empty buffer is in line with anything.
LEMMA NoneInLine ==
  ASSUME NEW d, Refs(d) = {}, NEW M \in Nat, M > 1, NEW r
  PROVE  InLine(d, r, M)
  BY FS_EmptySet DEF InLine, Lined

\* What leaves the references alone leaves them in line.
LEMMA InLineSame ==
  ASSUME NEW d, NEW e, NEW r, NEW M, InLine(d, r, M), RefsFrom(e, d), Refs(e) = Refs(d)
  PROVE  InLine(e, r, M)
  BY LinedSame DEF InLine

\* So does a picture nothing refers to.
LEMMA PlusNone ==
  ASSUME NEW d, NEW id, id \notin DOMAIN d, NEW new, new.ref = "None"
  PROVE  Refs(Plus(d, id, new)) = Refs(d) /\ RefsFrom(Plus(d, id, new), d)
  <1> DEFINE p == Plus(d, id, new)
  <1>1. /\ DOMAIN p = DOMAIN d \cup {id} /\ p[id] = new
        /\ \A i \in DOMAIN d : p[i] = d[i]
    BY DEF Plus
  <1> HIDE DEF p
  <1>2. Refs(p) = Refs(d)
    BY <1>1 DEF Refs, IsRef
  <1> QED
    BY <1>1, <1>2 DEF Refs, RefsFrom, p

\* A reference with the next number joins the line.
LEMMA PlusInLine ==
  ASSUME NEW n \in Nat, NEW d \in EntriesUpTo(n), NEW M \in Nat, M > 1, NEW r \in 0 .. M - 1,
         Lined(d, r, M), Cardinality(Refs(d)) + 1 < M, NEW id, id \notin DOMAIN d,
         NEW new, new.ref = "ShortTerm", new.frameNum = NumberAfter(r, M)
  PROVE  InLine(Plus(d, id, new), NumberAfter(r, M), M)
  <1> DEFINE p == Plus(d, id, new)
             s == NumberAfter(r, M)
  <1>1. /\ DOMAIN p = DOMAIN d \cup {id} /\ p[id] = new
        /\ \A i \in DOMAIN d : p[i] = d[i]
    BY DEF Plus
  <1> HIDE DEF p
  <1>2. Refs(p) = Refs(d) \cup {id} /\ id \notin Refs(d) /\ \A i \in Refs(d) : p[i] = d[i]
    BY <1>1 DEF Refs, IsRef
  <1>3. IsFiniteSet(Refs(d)) /\ Cardinality(Refs(d)) \in Nat
    BY EntriesFinite, FS_Subset, FS_CardinalityType DEF Refs
  <1>4. Cardinality(Refs(p)) = Cardinality(Refs(d)) + 1
    BY <1>2, <1>3, FS_AddElement
  <1>5. s \in 0 .. M - 1 /\ Age(s, s, M) = 0
    BY Ages DEF Age
  <1>6. \A i \in Refs(d) : /\ d[i].frameNum \in 0 .. M - 1 /\ d[i].frameNum # s
                           /\ Age(r, d[i].frameNum, M) \in Nat
                           /\ Age(s, d[i].frameNum, M) = Age(r, d[i].frameNum, M) + 1
    <2> SUFFICES ASSUME NEW i \in Refs(d)
                 PROVE  /\ d[i].frameNum \in 0 .. M - 1 /\ d[i].frameNum # s
                        /\ Age(r, d[i].frameNum, M) \in Nat
                        /\ Age(s, d[i].frameNum, M) = Age(r, d[i].frameNum, M) + 1
      OBVIOUS
    <2>1. d[i].frameNum \in 0 .. M - 1
      BY DEF Lined
    <2>2. Age(r, d[i].frameNum, M) \in Nat
      BY <2>1, Ages
    <2>3. Age(r, d[i].frameNum, M) < M - 1
      BY <1>3, <2>2, AgesWithin
    <2>4. d[i].frameNum # s
      <3>1. Age(r, d[i].frameNum, M) # M - 1
        BY <2>2, <2>3
      <3> QED
        BY <2>1, <3>1, Ages
    <2> QED
      BY <2>1, <2>2, <2>4, Ages
  <1>s. p[id].frameNum = s
    BY <1>1
  <1> HIDE DEF s
  <1>7. \A i \in Refs(p) : p[i].frameNum \in 0 .. M - 1
    BY <1>2, <1>5, <1>6, <1>s
  <1>8. \A i, j \in Refs(p) : p[i].frameNum = p[j].frameNum => i = j
    <2>1. \A i, j \in Refs(d) : p[i].frameNum = p[j].frameNum => i = j
      BY <1>2 DEF Lined
    <2>2. \A i \in Refs(d) : p[i].frameNum # p[id].frameNum
      BY <1>2, <1>6, <1>s
    <2> QED
      BY <1>2, <2>1, <2>2
  <1>9. \A i \in Refs(p) : \A a \in 0 .. Age(s, p[i].frameNum, M) :
           \E j \in Refs(p) : Age(s, p[j].frameNum, M) = a
    <2> SUFFICES ASSUME NEW i \in Refs(p), NEW a \in 0 .. Age(s, p[i].frameNum, M)
                 PROVE  \E j \in Refs(p) : Age(s, p[j].frameNum, M) = a
      OBVIOUS
    <2>1. CASE a = 0
      BY <1>2, <1>5, <1>s, <2>1
    <2>2. CASE a # 0
      <3>1. i \in Refs(d)
        BY <1>2, <1>5, <1>s, <2>2
      <3>2. a - 1 \in 0 .. Age(r, d[i].frameNum, M)
        BY <1>2, <1>6, <2>2, <3>1
      <3>3. PICK j \in Refs(d) : Age(r, d[j].frameNum, M) = a - 1
        BY <3>1, <3>2 DEF Lined
      <3>4. Age(s, p[j].frameNum, M) = a
        BY <1>2, <1>6, <3>3
      <3> QED
        BY <1>2, <3>4
    <2> QED
      BY <2>1, <2>2
  <1> QED
    BY <1>3, <1>4, <1>7, <1>8, <1>9 DEF InLine, Lined, p, s

\* One round of handle_frame_num_gap, or the end of finish_picture, on the
\* references: the sliding window and bumping leave them in line.
LEMMA WindowInLine ==
  ASSUME NEW n \in Nat, NEW d \in EntriesUpTo(n), AllUsed(d), NEW max \in Nat,
         NEW M \in Nat, M > 1, NEW r \in 0 .. M - 1, InLine(d, r, M),
         Renumbered(d, NumberAfter(r, M), M), WindowLimit(max) < M
  PROVE  /\ InLine(SlidingWindowMarking(d, max), r, M)
         /\ Cardinality(Refs(SlidingWindowMarking(d, max))) + 1 < M
  <1> DEFINE w == SlidingWindowMarking(d, max)
  <1>1. Lined(w, r, M)
    BY WindowLined DEF InLine
  <1>2. Cardinality(Refs(w)) < WindowLimit(max)
    BY WindowMakesRoom
  <1>3. w \in EntriesUpTo(n)
    BY SlidingWindowFrom
  <1> HIDE DEF w
  <1>4. Cardinality(Refs(w)) \in Nat /\ WindowLimit(max) \in Nat
    BY <1>3, EntriesFinite, FS_Subset, FS_CardinalityType DEF Refs, WindowLimit
  <1> QED
    BY <1>1, <1>2, <1>4 DEF InLine, w

-----------------------------------------------------------------------------
(* The frame numbers, step by step *)

\* What a stream has to keep to.  By 7.4.3 it counts frames modulo M, more than
\* its window holds, and a reference picture does not have the number of the one
\* before.  And what follows a gap is a reference picture: handle_frame_num_gap
\* does not move prev_ref_pic_info along with the pictures it invents, so until a
\* reference picture does, the next picture finds the same gap again.
FramesFollow(M) ==
    /\ phase \in {"gap", "picture", "marking"} =>
          slice.sps.maxFrameNum = M /\ WindowLimit(slice.sps.maxNumRefFrames) < M
    /\ phase = "gap" /\ slice.idr => slice.frameNum = 0
    /\ phase = "gap" /\ ~slice.idr =>
          /\ slice.frameNum < M
          /\ slice.ref => Refs(dpb.entries) = {} \/ slice.frameNum # prevRefFrameNum
          /\ \/ slice.ref \/ ~slice.sps.gapsAllowed \/ DOMAIN dpb.entries = {}
             \/ slice.frameNum \in {prevRefFrameNum, (prevRefFrameNum + 1) % M}

\* For the same reason the driver has to decode the picture after a gap.
GapClosed ==
    phase \in {"gap", "picture"} /\ phase' = "idle" /\ result' = "va" =>
        \/ slice.idr
        \/ Refs(dpb.entries) = {}
        \/ slice.frameNum = (prevRefFrameNum + 1) % slice.sps.maxFrameNum

\* The references are in line: between pictures back from the last one, in a gap
\* back from the last that was invented, and before a reference picture is stored
\* back from the number before its own.
NumberInv(M) ==
    /\ prevRefFrameNum \in 0 .. M - 1
    /\ \E r \in 0 .. M - 1 : InLine(dpb.entries, r, M)
    /\ phase \in {"idle", "ready"} => InLine(dpb.entries, prevRefFrameNum, M)
    /\ phase = "gap" =>
          /\ unused \in 0 .. M - 1
          /\ slice.idr => prevRefFrameNum = 0
          /\ ~slice.idr => InLine(dpb.entries, NumberBefore(unused, M), M)
          /\ ~slice.idr /\ ~(slice.ref /\ slice.sps.gapsAllowed) =>
                unused = NumberAfter(prevRefFrameNum, M)
    /\ phase \in {"picture", "marking"} =>
          /\ slice.frameNum \in 0 .. M - 1 /\ pic.frameNum = slice.frameNum
          /\ InLine(dpb.entries,
                    IF slice.ref THEN NumberBefore(slice.frameNum, M) ELSE prevRefFrameNum, M)
    /\ phase = "picture" => Renumbered(dpb.entries, slice.frameNum, M)

\* What a step outside of a picture has to keep.
LEMMA OutsideNumbers ==
  ASSUME NEW M \in Nat, phase' \in {"idle", "ready"}, prevRefFrameNum' \in 0 .. M - 1,
         InLine(dpb'.entries, prevRefFrameNum', M)
  PROVE  NumberInv(M)'
  BY DEF NumberInv

\* begin_picture goes on from the last reference, or starts over.
LEMMA BeginPictureNumbers ==
  ASSUME NEW M \in Nat, M > 1, IInv, NumberInv(M), FramesFollow(M)',
         NEW c \in CodedPicture, BeginPicture(c)
  PROVE  NumberInv(M)'
  <1> DEFINE l == SetLimits(dpb, c.sps.maxDpbFrames, ReorderLimit(c.sps))
  <1>1. l.entries = dpb.entries /\ Clear(l).entries = NoEntries
    BY Facts DEF SetLimits, Clear, DpbUpTo
  <1>2. phase \in {"idle", "ready"} /\ dpb' \in {dpb, l, Clear(l)}
    BY DEF BeginPicture, RefuseSps, KeepSequence, RebuildSequence
  <1>3. \/ phase' = "idle" /\ prevRefFrameNum' = prevRefFrameNum
        \/ /\ phase' = "gap" /\ slice' = c
           /\ prevRefFrameNum' = IF c.idr THEN 0 ELSE prevRefFrameNum
           /\ unused' = (prevRefFrameNum' + 1) % c.sps.maxFrameNum
    BY DEF BeginPicture, RefuseSps, KeepSequence, RebuildSequence, Fail
  <1> HIDE DEF l
  <1>4. Refs(NoEntries) = {}
    BY DEF Refs, NoEntries
  <1>5. InLine(dpb'.entries, prevRefFrameNum, M) /\ prevRefFrameNum \in 0 .. M - 1
    BY <1>1, <1>2, <1>4, NoneInLine DEF NumberInv
  <1>6. CASE phase' = "idle" /\ prevRefFrameNum' = prevRefFrameNum
    BY <1>5, <1>6, OutsideNumbers
  <1>7. CASE /\ phase' = "gap" /\ slice' = c
             /\ prevRefFrameNum' = IF c.idr THEN 0 ELSE prevRefFrameNum
             /\ unused' = (prevRefFrameNum' + 1) % c.sps.maxFrameNum
    <2>1. c.sps.maxFrameNum = M
      BY <1>7 DEF FramesFollow
    <2>2. prevRefFrameNum' \in 0 .. M - 1
      BY <1>5, <1>7
    <2>3. unused' = NumberAfter(prevRefFrameNum', M)
      BY <1>7, <2>1, <2>2, NextIsAfter
    <2>4. unused' \in 0 .. M - 1 /\ NumberBefore(unused', M) = prevRefFrameNum'
      BY <2>2, <2>3, Ages
    <2> QED
      BY <1>5, <1>7, <2>2, <2>3, <2>4 DEF NumberInv
  <1> QED
    BY <1>3, <1>6, <1>7

\* A round of the gap takes the next number; only a reference picture has a gap.
LEMMA FillGapNumbers ==
  ASSUME NEW M \in Nat, M > 1, IInv, OutputInv, WindowInv, WindowInv', NumberInv(M),
         FramesFollow(M), FillGap
  PROVE  NumberInv(M)'
  <1> DEFINE new      == NonExisting(unused)
             numbered == UpdatePicNums(dpb.entries, unused, slice.sps.maxFrameNum)
             window   == SlidingWindowMarking(numbered, slice.sps.maxNumRefFrames)
             marked   == [dpb EXCEPT !.entries = window]
             bumped   == BumpedAsNeeded(marked, new)
             room     == [marked EXCEPT !.entries = Bump(@, bumped)]
             before   == NumberBefore(unused, M)
  <1>1. /\ phase = "gap" /\ slice \in CodedPicture /\ unused \in Nat
        /\ slice.sps \in SequenceInfo
    BY SpsAssumption DEF FillGap, IInv, TypeOK, CodedPicture
  <1>2. /\ slice.sps.maxFrameNum = M /\ slice.sps.maxNumRefFrames \in Nat
        /\ WindowLimit(slice.sps.maxNumRefFrames) < M
    BY <1>1 DEF SequenceInfo, FramesFollow
  <1>3. /\ HasEmptyFrameBuffer(room)
        /\ dpb' = Store(room, pictures + 1, new, 0)
        /\ unused' = (unused + 1) % M
        /\ UNCHANGED <<phase, slice, prevRefFrameNum>>
    <2>1. \/ /\ HasEmptyFrameBuffer(room)
             /\ dpb' = Store(room, pictures + 1, new, 0)
             /\ unused' = (unused + 1) % slice.sps.maxFrameNum
             /\ UNCHANGED <<phase, slice>>
          \/ Fail("full")
      BY DEF FillGap
    <2>2. ~Fail("full")
      BY DEF Fail, WindowInv
    <2>3. UNCHANGED prevRefFrameNum
      BY DEF FillGap
    <2> QED
      BY <1>2, <2>1, <2>2, <2>3
  <1>4. new.ref = "ShortTerm" /\ new.frameNum = unused
    BY DEF NonExisting
  <1>5. ~slice.idr /\ slice.ref /\ slice.sps.gapsAllowed
    <2>1. /\ slice.frameNum # prevRefFrameNum /\ slice.frameNum # unused
          /\ DOMAIN dpb.entries # {} /\ slice.sps.gapsAllowed
      BY DEF FillGap, GapPending
    <2>2. slice.idr => prevRefFrameNum = 0 /\ slice.frameNum = 0
      BY <1>1 DEF NumberInv, FramesFollow
    <2>3. slice.ref
      <3>1. SUFFICES ASSUME ~slice.ref PROVE FALSE
        OBVIOUS
      <3>2. slice.frameNum = (prevRefFrameNum + 1) % M
        BY <1>1, <2>1, <2>2, <3>1 DEF FramesFollow
      <3>3. prevRefFrameNum \in 0 .. M - 1 /\ unused = NumberAfter(prevRefFrameNum, M)
        BY <1>1, <2>1, <2>2, <3>1 DEF NumberInv
      <3> QED
        BY <2>1, <3>2, <3>3, NextIsAfter
    <2> QED
      BY <2>1, <2>2, <2>3
  <1>6. /\ unused \in 0 .. M - 1 /\ InLine(dpb.entries, before, M)
        /\ prevRefFrameNum \in 0 .. M - 1
    BY <1>1, <1>5 DEF NumberInv
  <1>7. before \in 0 .. M - 1 /\ NumberAfter(before, M) = unused
    BY <1>6, Ages
  <1>8. /\ numbered \in EntriesUpTo(pictures) /\ AllUsed(numbered)
        /\ InLine(numbered, before, M) /\ Renumbered(numbered, unused, M)
    <2>1. dpb.entries \in EntriesUpTo(pictures) /\ AllUsed(dpb.entries) /\ pictures \in Nat
      BY Facts DEF WindowInv
    <2>2. numbered \in EntriesUpTo(pictures) /\ AllUsed(numbered)
      BY <1>1, <1>2, <2>1, UpdatePicNumsFrom, UpdatePicNumsUsed
    <2>3. /\ Refs(numbered) = Refs(dpb.entries) /\ RefsFrom(numbered, dpb.entries)
          /\ Renumbered(numbered, unused, M)
      BY <1>1, <1>2, <2>1, UpdatePicNumsLined
    <2> HIDE DEF numbered, before
    <2> QED
      BY <1>6, <2>2, <2>3, InLineSame
  <1> HIDE DEF new, numbered, before
  <1>9. /\ window \in EntriesUpTo(pictures) /\ AllUsed(window)
        /\ InLine(window, before, M) /\ Cardinality(Refs(window)) + 1 < M
    <2>1. pictures \in Nat
      BY Facts
    <2>2. window \in EntriesUpTo(pictures) /\ AllUsed(window)
      BY <1>2, <1>8, <2>1, SlidingWindowFrom, WindowMakesRoom
    <2>3. InLine(window, before, M) /\ Cardinality(Refs(window)) + 1 < M
      BY <1>2, <1>7, <1>8, <2>1, WindowInLine
    <2> QED
      BY <2>2, <2>3
  <1> HIDE DEF window
  <1>10. marked \in DpbUpTo(pictures) /\ marked.entries = window
    BY <1>9, Facts DEF DpbUpTo
  <1> HIDE DEF marked
  <1>11. /\ room \in DpbUpTo(pictures) /\ room.entries \in EntriesUpTo(pictures)
         /\ Refs(room.entries) = Refs(window) /\ RefsFrom(room.entries, window)
    <2> DEFINE e == Bump(window, bumped)
    <2>1. e \in EntriesUpTo(pictures) /\ Refs(e) = Refs(window) /\ RefsFrom(e, window)
      BY <1>9, Facts, BumpFrom, BumpLined
    <2>2. room = [marked EXCEPT !.entries = e]
      BY <1>10
    <2> HIDE DEF e, room
    <2>3. room \in DpbUpTo(pictures) /\ room.entries = e
      BY <1>10, <2>1, <2>2 DEF DpbUpTo
    <2> QED
      BY <2>1, <2>3
  <1> HIDE DEF room
  <1>12. dpb'.entries = Plus(room.entries, pictures + 1, NewEntry(new, 0))
    BY <1>3, <1>11, Facts, StorePlus
  <1>13. InLine(dpb'.entries, unused, M)
    <2>1. InLine(room.entries, before, M) /\ Cardinality(Refs(room.entries)) + 1 < M
      BY <1>9, <1>11, InLineSame
    <2>2. pictures + 1 \notin DOMAIN room.entries /\ pictures \in Nat
      BY <1>11, Facts, EntriesElim
    <2>3. NewEntry(new, 0).ref = "ShortTerm" /\ NewEntry(new, 0).frameNum = NumberAfter(before, M)
      BY <1>4, <1>7 DEF NewEntry
    <2> QED
      BY <1>7, <1>11, <1>12, <2>1, <2>2, <2>3, PlusInLine DEF InLine
  <1>14. unused' \in 0 .. M - 1 /\ NumberBefore(unused', M) = unused
    <2>1. PICK f \in 0 .. M - 1 : f = unused
      BY <1>6
    <2>2. unused' = NumberAfter(f, M)
      BY <1>3, <2>1, NextIsAfter
    <2> QED
      BY <2>1, <2>2, Ages
  <1>15. slice'.idr = slice.idr /\ slice'.ref = slice.ref
         /\ slice'.sps.gapsAllowed = slice.sps.gapsAllowed
    BY <1>3
  <1>16. prevRefFrameNum' \in 0 .. M - 1 /\ phase' = "gap"
    BY <1>1, <1>3, <1>6
  <1>17. \E r \in 0 .. M - 1 : InLine(dpb'.entries, r, M)
    BY <1>6, <1>13
  <1> QED
    BY <1>5, <1>13, <1>14, <1>15, <1>16, <1>17 DEF NumberInv

\* Once the gap is filled the picture's own number is next.
LEMMA StartPictureNumbers ==
  ASSUME NEW M \in Nat, M > 1, IInv, WindowInv, NumberInv(M), FramesFollow(M), GapClosed,
         NEW allocated \in BOOLEAN, StartPicture(allocated)
  PROVE  NumberInv(M)'
  <1> DEFINE left == IF slice.idr THEN Clear(dpb) ELSE dpb
             e == UpdatePicNums(left.entries, slice.frameNum, slice.sps.maxFrameNum)
             last == IF slice.ref THEN NumberBefore(slice.frameNum, M) ELSE prevRefFrameNum
  <1>1. /\ phase = "gap" /\ dpb' = [left EXCEPT !.entries = e]
        /\ slice \in CodedPicture /\ prevRefFrameNum' = prevRefFrameNum
    BY DEF StartPicture, IInv, TypeOK
  <1>2. \/ /\ phase' = "picture" /\ pic'.frameNum = slice.frameNum /\ slice' = slice
        \/ phase' = "idle" /\ result' = "va"
    BY DEF StartPicture, Fail
  <1>3. /\ slice.sps.maxFrameNum = M /\ slice.frameNum \in Nat
        /\ slice.idr => slice.frameNum = 0
        /\ ~slice.idr => slice.frameNum < M
    BY <1>1 DEF FramesFollow, CodedPicture
  <1>4. /\ left \in DpbUpTo(pictures) /\ AllUsed(left.entries)
        /\ slice.idr => left.entries = NoEntries
        /\ ~slice.idr => left = dpb
    BY Facts, ClearWithin, EmptyUsed DEF Clear, DpbUpTo, WindowInv
  <1>5. left.entries \in EntriesUpTo(pictures) /\ pictures \in Nat
    BY <1>4, Facts DEF DpbUpTo
  <1> HIDE DEF left
  <1>6. /\ Refs(e) = Refs(left.entries) /\ RefsFrom(e, left.entries)
        /\ Renumbered(e, slice.frameNum, M)
    BY <1>3, <1>4, <1>5, UpdatePicNumsLined
  <1> HIDE DEF e
  <1>7. dpb'.entries = e
    BY <1>1, <1>4 DEF DpbUpTo
  <1>8. prevRefFrameNum \in 0 .. M - 1 /\ slice.frameNum \in 0 .. M - 1
    BY <1>3 DEF NumberInv
  <1>9. Refs(dpb'.entries) = Refs(left.entries) /\ RefsFrom(dpb'.entries, left.entries)
    BY <1>6, <1>7
  <1>10. \/ Refs(left.entries) = {}
         \/ /\ ~slice.idr /\ unused \in 0 .. M - 1
            /\ InLine(left.entries, NumberBefore(unused, M), M)
            /\ slice.ref => slice.frameNum = unused
            /\ ~slice.ref => unused = NumberAfter(prevRefFrameNum, M)
    <2>1. CASE slice.idr
      BY <1>4, <2>1 DEF Refs, NoEntries
    <2>2. CASE ~slice.idr /\ Refs(left.entries) # {}
      <3>1. left = dpb /\ Refs(dpb.entries) # {} /\ DOMAIN dpb.entries # {}
        BY <1>4, <2>2 DEF Refs
      <3>2. /\ unused \in 0 .. M - 1
            /\ InLine(left.entries, NumberBefore(unused, M), M)
            /\ ~slice.ref => unused = NumberAfter(prevRefFrameNum, M)
        BY <1>1, <2>2, <3>1 DEF NumberInv
      <3>3. slice.ref => slice.frameNum # prevRefFrameNum
        BY <1>1, <2>2, <3>1 DEF FramesFollow
      <3>4. ~GapPending
        BY DEF StartPicture
      <3>5. slice.ref => slice.frameNum = unused
        BY <3>1, <3>3, <3>4 DEF GapPending
      <3> QED
        BY <2>2, <3>2, <3>5
    <2> QED
      BY <2>1, <2>2
  <1>11. last \in 0 .. M - 1 /\ InLine(dpb'.entries, last, M)
    <2>1. last \in 0 .. M - 1
      BY <1>8, Ages
    <2>2. CASE Refs(left.entries) = {}
      <3> HIDE DEF last
      <3> QED
        BY <1>9, <2>1, <2>2, NoneInLine
    <2>3. CASE /\ unused \in 0 .. M - 1
               /\ InLine(left.entries, NumberBefore(unused, M), M)
               /\ slice.ref => slice.frameNum = unused
               /\ ~slice.ref => unused = NumberAfter(prevRefFrameNum, M)
      <3>1. NumberBefore(unused, M) = last
        BY <1>8, <2>3, Ages
      <3> HIDE DEF last
      <3> QED
        BY <1>9, <2>1, <2>3, <3>1, InLineSame
    <2> HIDE DEF last
    <2> QED
      BY <1>10, <2>1, <2>2, <2>3
  <1>12. CASE phase' = "picture" /\ pic'.frameNum = slice.frameNum /\ slice' = slice
    <2>1. last = IF slice'.ref THEN NumberBefore(slice'.frameNum, M) ELSE prevRefFrameNum'
      BY <1>1, <1>12
    <2>2. Renumbered(dpb'.entries, slice'.frameNum, M)
      BY <1>6, <1>7, <1>12
    <2> HIDE DEF last
    <2> QED
      BY <1>1, <1>8, <1>11, <1>12, <2>1, <2>2 DEF NumberInv
  <1>13. CASE phase' = "idle" /\ result' = "va"
    <2>1. InLine(dpb'.entries, prevRefFrameNum, M)
      <3>1. CASE Refs(left.entries) = {}
        BY <1>9, <3>1, NoneInLine
      <3>2. CASE Refs(left.entries) # {}
        <4>1. ~slice.idr /\ Refs(dpb.entries) # {}
          BY <1>4, <1>10, <3>2
        <4>2. slice.frameNum = (prevRefFrameNum + 1) % M
          BY <1>1, <1>3, <1>13, <4>1 DEF GapClosed
        <4>3. slice.frameNum = NumberAfter(prevRefFrameNum, M)
          BY <1>8, <4>2, NextIsAfter
        <4>4. last = prevRefFrameNum
          BY <1>8, <4>3, Ages
        <4> QED
          BY <1>11, <4>4
      <3> QED
        BY <3>1, <3>2
    <2> QED
      BY <1>1, <1>8, <1>13, <2>1, OutsideNumbers
  <1> QED
    BY <1>2, <1>12, <1>13

\* reference_pic_marking leaves the references in line with the picture's number.
LEMMA MarkReferenceNumbers ==
  ASSUME NEW M \in Nat, M > 1, IInv, WindowInv, SlidingOnly, NumberInv(M), FramesFollow(M),
         MarkReference
  PROVE  NumberInv(M)'
  <1> DEFINE all == MarkAllAsUnusedForRef(dpb.entries)
             window == SlidingWindowMarking(dpb.entries, slice.sps.maxNumRefFrames)
             last == IF slice.ref THEN NumberBefore(slice.frameNum, M) ELSE prevRefFrameNum
  <1>1. /\ phase = "picture" /\ phase' = "marking" /\ UNCHANGED <<slice, prevRefFrameNum>>
        /\ slice \in CodedPicture /\ slice.sps \in SequenceInfo
    BY SpsAssumption DEF MarkReference, IInv, TypeOK, CodedPicture
  <1>2. /\ slice.ref \in BOOLEAN /\ slice.idr \in BOOLEAN
        /\ slice.sps.maxNumRefFrames \in Nat /\ ~slice.longTerm /\ ~slice.adaptive
        /\ WindowLimit(slice.sps.maxNumRefFrames) < M
    BY <1>1 DEF CodedPicture, SequenceInfo, SlidingOnly, WindowOnly, FramesFollow
  <1>3. /\ ~slice.ref => dpb' = dpb /\ pic' = pic
        /\ slice.ref /\ slice.idr => dpb' = [dpb EXCEPT !.entries = all] /\ pic' = pic
        /\ slice.ref /\ ~slice.idr => dpb' = [dpb EXCEPT !.entries = window] /\ pic' = pic
    BY <1>2, Zenon DEF MarkReference
  <1>4. /\ prevRefFrameNum \in 0 .. M - 1
        /\ slice.frameNum \in 0 .. M - 1 /\ pic.frameNum = slice.frameNum
        /\ InLine(dpb.entries, last, M) /\ Renumbered(dpb.entries, slice.frameNum, M)
    BY <1>1 DEF NumberInv
  <1>5. last \in 0 .. M - 1 /\ (slice.ref => NumberAfter(last, M) = slice.frameNum)
    BY <1>4, Ages
  <1>6. last = IF slice'.ref THEN NumberBefore(slice'.frameNum, M) ELSE prevRefFrameNum'
    BY <1>1
  <1> HIDE DEF last
  <1>7. InLine(dpb'.entries, last, M)
    <2>1. CASE ~slice.ref
      BY <1>3, <1>4, <2>1
    <2>2. CASE slice.ref /\ slice.idr
      <3>1. DOMAIN all = {}
        BY <1>1, <2>2 DEF WindowInv, MarkAllAsUnusedForRef, Unmark
      <3> HIDE DEF all
      <3>2. dpb'.entries = all
        BY <1>3, <2>2, Facts DEF DpbUpTo
      <3>3. Refs(dpb'.entries) = {}
        BY <3>1, <3>2 DEF Refs
      <3> QED
        BY <3>3, NoneInLine
    <2>3. CASE slice.ref /\ ~slice.idr
      <3>1. AllUsed(dpb.entries) /\ dpb.entries \in EntriesUpTo(pictures) /\ pictures \in Nat
        BY Facts DEF WindowInv
      <3>2. InLine(window, last, M)
        BY <1>2, <1>4, <1>5, <2>3, <3>1, WindowInLine
      <3> HIDE DEF window
      <3>3. dpb'.entries = window
        BY <1>3, <2>3, Facts DEF DpbUpTo
      <3> QED
        BY <3>2, <3>3
    <2> QED
      BY <1>2, <2>1, <2>2, <2>3
  <1>8. pic'.frameNum = slice'.frameNum /\ slice'.frameNum \in 0 .. M - 1
        /\ prevRefFrameNum' \in 0 .. M - 1
    BY <1>1, <1>2, <1>3, <1>4
  <1> QED
    BY <1>1, <1>5, <1>6, <1>7, <1>8 DEF NumberInv

\* A reference picture is stored as the newest of the line, any other beside it.
LEMMA StorePictureNumbers ==
  ASSUME NEW M \in Nat, M > 1, IInv, OutputInv, WindowInv, WindowInv', NumberInv(M),
         FramesFollow(M), StorePicture
  PROVE  NumberInv(M)'
  <1> DEFINE bumped == BumpedAsNeeded(dpb, pic)
             e      == Bump(dpb.entries, bumped)
             room   == [dpb EXCEPT !.entries = Bump(@, bumped)]
             last   == IF slice.ref THEN NumberBefore(slice.frameNum, M) ELSE prevRefFrameNum
  <1>1. /\ phase = "marking" /\ todo = <<>> /\ ~pic.mmco5
        /\ slice \in CodedPicture /\ slice.sps \in SequenceInfo
        /\ prevRefFrameNum' = IF IsRef(pic) THEN pic.frameNum ELSE prevRefFrameNum
    BY SpsAssumption DEF StorePicture, IInv, TypeOK, CodedPicture, WindowInv
  <1>2. /\ dpb' = IF HasEmptyFrameBuffer(room)
                  THEN Store(room, pictures, pic, sequence.gen) ELSE room
        /\ IF HasEmptyFrameBuffer(room) \/ ~IsRef(pic) THEN Submitted ELSE Fail("full")
    BY <1>1 DEF StorePicture
  <1>3. /\ HasEmptyFrameBuffer(room) \/ ~IsRef(pic)
        /\ phase' = "ready"
    <2>1. ~Fail("full")
      BY DEF Fail, WindowInv
    <2> QED
      BY <1>2, <2>1 DEF Submitted
  <1>4. /\ slice.sps.maxNumRefFrames \in Nat /\ slice.ref \in BOOLEAN /\ slice.idr \in BOOLEAN
        /\ WindowLimit(slice.sps.maxNumRefFrames) < M
    BY <1>1 DEF SequenceInfo, CodedPicture, FramesFollow
  <1>5. /\ pic.ref = IF slice.ref THEN "ShortTerm" ELSE "None"
        /\ slice.idr => DOMAIN dpb.entries = {}
        /\ slice.ref /\ ~slice.idr =>
              Cardinality(Refs(dpb.entries)) < WindowLimit(slice.sps.maxNumRefFrames)
    BY <1>1 DEF WindowInv
  <1>6. /\ prevRefFrameNum \in 0 .. M - 1
        /\ slice.frameNum \in 0 .. M - 1 /\ pic.frameNum = slice.frameNum
        /\ InLine(dpb.entries, last, M)
    BY <1>1 DEF NumberInv
  <1>7. last \in 0 .. M - 1 /\ (slice.ref => NumberAfter(last, M) = slice.frameNum)
    BY <1>6, Ages
  <1>8. IsRef(pic) <=> slice.ref
    BY <1>4, <1>5 DEF IsRef
  <1>9. prevRefFrameNum' = IF slice.ref THEN NumberAfter(last, M) ELSE last
    BY <1>1, <1>6, <1>7, <1>8
  <1> HIDE DEF last
  <1>10. dpb.entries \in EntriesUpTo(pictures - 1) /\ AllUsed(dpb.entries) /\ pictures - 1 \in Nat
         /\ dpb \in DpbUpTo(pictures) /\ pictures \in Nat
    <2>1. dpb.entries \in EntriesUpTo(pictures - 1) /\ AllUsed(dpb.entries)
      BY <1>1 DEF OutputInv, NewNumber, WindowInv
    <2>2. pictures > 0 /\ pictures \in Nat /\ dpb \in DpbUpTo(pictures)
      BY <1>1, Facts DEF IInv, InTheMaking
    <2> QED
      BY <2>1, <2>2
  <1>11. e \in EntriesUpTo(pictures - 1) /\ Refs(e) = Refs(dpb.entries) /\ RefsFrom(e, dpb.entries)
    BY <1>10, BumpFrom, BumpLined
  <1>12. room \in DpbUpTo(pictures) /\ room.entries = e
    <2>1. e \in EntriesUpTo(pictures)
      BY <1>10, Facts, BumpFrom DEF DpbUpTo
    <2>2. room = [dpb EXCEPT !.entries = e]
      OBVIOUS
    <2> HIDE DEF e, room
    <2> QED
      BY <1>10, <2>1, <2>2 DEF DpbUpTo
  <1> HIDE DEF e, room
  <1>13. InLine(e, last, M)
    BY <1>6, <1>11, InLineSame
  <1>14. pictures \notin DOMAIN e
    BY <1>10, <1>11, EntriesElim
  <1>15. HasEmptyFrameBuffer(room) =>
            dpb'.entries = Plus(e, pictures, NewEntry(pic, sequence.gen))
    BY <1>2, <1>10, <1>12, StorePlus
  <1>16. NewEntry(pic, sequence.gen).ref = pic.ref
         /\ NewEntry(pic, sequence.gen).frameNum = pic.frameNum
    BY DEF NewEntry
  <1>17. CASE slice.ref
    <2>1. dpb'.entries = Plus(e, pictures, NewEntry(pic, sequence.gen))
      BY <1>3, <1>8, <1>15, <1>17
    <2>2. Cardinality(Refs(e)) + 1 < M
      <3>1. Cardinality(Refs(e)) \in Nat
        BY <1>10, <1>11, EntriesFinite, FS_Subset, FS_CardinalityType DEF Refs
      <3>2. CASE slice.idr
        <4>1. Refs(e) = {}
          BY <1>5, <1>11, <3>2 DEF Refs
        <4> QED
          BY <4>1, FS_EmptySet
      <3>3. CASE ~slice.idr
        <4>1. Cardinality(Refs(e)) < WindowLimit(slice.sps.maxNumRefFrames)
          BY <1>5, <1>11, <1>17, <3>3
        <4>2. WindowLimit(slice.sps.maxNumRefFrames) \in Nat
          BY <1>4 DEF WindowLimit
        <4> QED
          BY <1>4, <3>1, <4>1, <4>2
      <3> QED
        BY <1>4, <3>2, <3>3
    <2>3. Lined(e, last, M)
      BY <1>13 DEF InLine
    <2>4. InLine(dpb'.entries, NumberAfter(last, M), M)
      BY <1>5, <1>6, <1>7, <1>10, <1>11, <1>14, <1>16, <1>17, <2>1, <2>2, <2>3, PlusInLine
    <2>5. InLine(dpb'.entries, prevRefFrameNum', M) /\ prevRefFrameNum' \in 0 .. M - 1
      BY <1>6, <1>7, <1>9, <1>17, <2>4
    <2> QED
      BY <1>3, <2>5, OutsideNumbers
  <1>18. CASE ~slice.ref
    <2>1. InLine(dpb'.entries, last, M)
      <3>1. CASE HasEmptyFrameBuffer(room)
        BY <1>5, <1>13, <1>14, <1>15, <1>16, <1>18, <3>1, PlusNone, InLineSame
      <3>2. CASE ~HasEmptyFrameBuffer(room)
        BY <1>2, <1>12, <1>13, <3>2
      <3> QED
        BY <3>1, <3>2
    <2>2. InLine(dpb'.entries, prevRefFrameNum', M) /\ prevRefFrameNum' \in 0 .. M - 1
      BY <1>7, <1>9, <1>18, <2>1
    <2> QED
      BY <1>3, <2>2, OutsideNumbers
  <1> QED
    BY <1>4, <1>17, <1>18

\* A call that fails leaves the line as it was before the picture.
LEMMA FailedNumbers ==
  ASSUME NEW M \in Nat, M > 1, IInv, WindowInv, NumberInv(M), FramesFollow(M), GapClosed,
         RefuseGap \/ AbandonPicture
  PROVE  NumberInv(M)'
  <1>1. phase' = "idle" /\ UNCHANGED <<dpb, prevRefFrameNum>> /\ prevRefFrameNum \in 0 .. M - 1
    BY DEF RefuseGap, AbandonPicture, Fail, NumberInv
  <1>2. InLine(dpb.entries, prevRefFrameNum, M)
    <2>1. CASE RefuseGap
      <3>1. /\ phase = "gap" /\ ~slice.sps.gapsAllowed
            /\ slice.frameNum # prevRefFrameNum
        BY <2>1 DEF RefuseGap, GapPending
      <3>2. ~slice.idr
        BY <3>1 DEF NumberInv, FramesFollow
      <3>3. /\ InLine(dpb.entries, NumberBefore(unused, M), M)
            /\ unused = NumberAfter(prevRefFrameNum, M)
        BY <3>1, <3>2 DEF NumberInv
      <3>4. NumberBefore(unused, M) = prevRefFrameNum
        BY <1>1, <3>3, Ages
      <3> QED
        BY <3>3, <3>4
    <2>2. CASE AbandonPicture
      <3>1. phase = "picture" /\ result' = "va"
        BY <2>2 DEF AbandonPicture, Fail
      <3>2. InLine(dpb.entries,
                   IF slice.ref THEN NumberBefore(slice.frameNum, M) ELSE prevRefFrameNum, M)
        BY <3>1 DEF NumberInv
      <3>3. CASE Refs(dpb.entries) = {}
        BY <3>3, NoneInLine
      <3>4. CASE Refs(dpb.entries) # {}
        <4>1. ~slice.idr
          BY <3>1, <3>4 DEF WindowInv, Refs
        <4>2. slice.frameNum = (prevRefFrameNum + 1) % M
          BY <1>1, <3>1, <3>4, <4>1 DEF GapClosed, FramesFollow
        <4>3. NumberBefore(slice.frameNum, M) = prevRefFrameNum
          BY <1>1, <4>2, NextIsAfter, Ages
        <4> QED
          BY <3>2, <4>3
      <3> QED
        BY <3>3, <3>4
    <2> QED
      BY <2>1, <2>2
  <1> QED
    BY <1>1, <1>2, OutsideNumbers

\* So every step keeps the references in line.
LEMMA NextNumbers ==
  ASSUME NEW M \in Nat, M > 1
  PROVE  IInv /\ OutputInv /\ WindowInv /\ WindowInv' /\ SlidingOnly /\ FramesFollow(M)
            /\ FramesFollow(M)' /\ [GapClosed]_vars /\ NumberInv(M) /\ [Next]_vars
         => NumberInv(M)'
  <1> SUFFICES ASSUME IInv, OutputInv, WindowInv, WindowInv', SlidingOnly,
                      FramesFollow(M), FramesFollow(M)', [GapClosed]_vars, NumberInv(M),
                      [Next]_vars
               PROVE  NumberInv(M)'
    OBVIOUS
  <1>1. CASE UNCHANGED vars
    BY <1>1 DEF vars, NumberInv
  <1> SUFFICES ASSUME Next, GapClosed PROVE NumberInv(M)'
    BY <1>1
  <1>2. ASSUME NEW c \in CodedPicture, BeginPicture(c) PROVE NumberInv(M)'
    BY <1>2, BeginPictureNumbers
  <1>3. CASE FillGap
    BY <1>3, FillGapNumbers
  <1>4. ASSUME NEW allocated \in BOOLEAN, StartPicture(allocated) PROVE NumberInv(M)'
    BY <1>4, StartPictureNumbers
  <1>5. CASE RefuseGap \/ AbandonPicture
    BY <1>5, FailedNumbers
  <1>6. CASE MarkReference
    BY <1>6, MarkReferenceNumbers
  <1>7. CASE Mmco
    BY <1>7 DEF Mmco, WindowInv
  <1>8. CASE StorePicture
    BY <1>8, StorePictureNumbers
  <1>9. CASE SubmitParameterSets \/ TakeFrames
    <2>1. /\ phase \in {"idle", "ready"} /\ phase' \in {"idle", "ready"}
          /\ UNCHANGED <<dpb, prevRefFrameNum>>
      BY <1>9 DEF SubmitParameterSets, TakeFrames
    <2> QED
      BY <2>1, OutsideNumbers DEF NumberInv
  <1>10. CASE Reset
    <2>1. phase' = "ready" /\ prevRefFrameNum' = 0 /\ dpb' = Clear(dpb)
      BY <1>10 DEF Reset
    <2>2. dpb'.entries = NoEntries
      BY <2>1, Facts DEF Clear, DpbUpTo
    <2>3. Refs(dpb'.entries) = {}
      BY <2>2 DEF Refs, NoEntries
    <2>4. InLine(dpb'.entries, prevRefFrameNum', M) /\ prevRefFrameNum' \in 0 .. M - 1
      BY <2>1, <2>3, NoneInLine
    <2> QED
      BY <2>1, <2>4, OutsideNumbers
  <1> QED
    BY <1>2, <1>3, <1>4, <1>5, <1>6, <1>7, <1>8, <1>9, <1>10 DEF Next

\* It holds at the start.
LEMMA InitNumbers ==
  ASSUME NEW M \in Nat, M > 1
  PROVE  Init => NumberInv(M)
  <1> SUFFICES ASSUME Init PROVE NumberInv(M)
    OBVIOUS
  <1>1. dpb.entries = NoEntries /\ prevRefFrameNum = 0 /\ phase = "idle"
    BY DEF Init, EmptyDpb
  <1>2. Refs(dpb.entries) = {}
    BY <1>1 DEF Refs, NoEntries
  <1>3. InLine(dpb.entries, 0, M)
    BY <1>2, NoneInLine
  <1> QED
    BY <1>1, <1>3 DEF NumberInv

\* References in line share no number.
LEMMA NumbersApart ==
  ASSUME NEW M \in Nat
  PROVE  WindowInv /\ NumberInv(M) => ShortTermFrameNumUnique
  <1> SUFFICES ASSUME WindowInv, NumberInv(M) PROVE ShortTermFrameNumUnique
    OBVIOUS
  <1>1. ShortTerm(dpb.entries) \subseteq Refs(dpb.entries)
    BY DEF ShortTerm, Refs, IsRef
  <1>2. \A i, j \in Refs(dpb.entries) :
           dpb.entries[i].frameNum = dpb.entries[j].frameNum => i = j
    BY DEF NumberInv, InLine, Lined
  <1> QED
    BY <1>1, <1>2 DEF ShortTermFrameNumUnique

\* In any stream that numbers its frames as 7.4.3 has it and goes on with a
\* reference picture after a gap, with a driver that does not fail there, no two
\* short-term references share a frame_num: those the sliding window keeps and
\* those handle_frame_num_gap invents are told apart across the wrap of frame_num,
\* refusals and flushes.
THEOREM NumbersStayApart ==
  ASSUME NEW M \in Nat, M > 1
  PROVE  Spec /\ []SlidingOnly /\ []FramesFollow(M) /\ [][GapClosed]_vars
            => []ShortTermFrameNumUnique
<1>1. Init => WindowInv
  BY EmptyUsed DEF Init, WindowInv, EmptyDpb, NoEntries
<1>2. Init => NumberInv(M)
  BY InitNumbers
<1>3. IInv /\ OutputInv /\ WindowInv /\ WindowInv' /\ SlidingOnly /\ FramesFollow(M)
         /\ FramesFollow(M)' /\ [GapClosed]_vars /\ NumberInv(M) /\ [Next]_vars
      => NumberInv(M)'
  BY NextNumbers
<1>4. WindowInv /\ NumberInv(M) => ShortTermFrameNumUnique
  BY NumbersApart
<1> QED
  BY <1>1, <1>2, <1>3, <1>4, InitIInv, NextIInv, InitOutput, NextOutput, NextWindow, PTL DEF Spec

-----------------------------------------------------------------------------
(* The encoder of MCH264Decoder *)

\* The pictures and slices that come of a scenario.
Coming(s) ==
    {c \in CodedPicture : c.sps \in s.sps /\ (s.markings = {} => ~c.longTerm /\ ~c.adaptive)}

Arriving(s) == [coded : Int, picture : Coming(s), first : BOOLEAN]

Budgets == [coded : Int, lost : Int, faults : Int, flushes : Int]

\* What the encoder keeps: it has activated parameter sets of its scenario only.
EncoderTyped ==
    /\ enc.frameNum \in Nat /\ enc.sps \subseteq scenario.sps
    /\ enc = [frameNum |-> enc.frameNum, counts |-> enc.counts, sps |-> enc.sps,
              refs |-> enc.refs, got |-> enc.got]

\* The slices under way and the picture in flight come of the scenario.
OnTheWay ==
    /\ units \in Seq(Arriving(scenario))
    /\ read \in Arriving(scenario) \cup {NoSlice}
    /\ slice \in Coming(scenario) \cup {NoPicture}

SenderInv == scenario \in Scenarios /\ EncoderTyped /\ budget \in Budgets /\ OnTheWay

\* An IDR of the encoder, field by field.
LEMMA IdrCoded ==
  ASSUME NEW long, NEW any, NEW sps, sps \in SpsSet, long \subseteq BOOLEAN, any \subseteq BOOLEAN,
         <<>> \in Seq(MmcoOp),
         NEW c \in [idr : {TRUE}, ref : {TRUE}, frameNum : {0}, poc : {0}, sps : {sps},
                    noOutput : any, longTerm : long, adaptive : {FALSE}, mmco : {<<>>}]
  PROVE  c \in CodedPicture
  <1> DEFINE b == c.noOutput
             l == c.longTerm
  <1>1. b \in BOOLEAN /\ l \in BOOLEAN
    OBVIOUS
  <1>2. c = [idr |-> TRUE, ref |-> TRUE, frameNum |-> 0, poc |-> 0, sps |-> sps, noOutput |-> b,
             longTerm |-> l, adaptive |-> FALSE, mmco |-> <<>>]
    OBVIOUS
  <1> HIDE DEF b, l
  <1> QED
    BY <1>1, <1>2 DEF CodedPicture

\* The encoder's pictures are coded pictures of its scenario.
LEMMA CodedComing ==
  ASSUME SenderInv, NEW c \in Coded
  PROVE  c \in Coming(scenario) /\ c.sps \in scenario.sps
  <1>0. <<>> \in Seq(MmcoOp)
    OBVIOUS
  <1>1. /\ scenario.sps \subseteq SpsSet /\ scenario.markings \subseteq Seq(MmcoOp)
        /\ scenario.reordered \subseteq Nat /\ <<>> \in Seq(MmcoOp)
    BY <1>0, ScenarioAssumption DEF SenderInv
  <1>2. ASSUME NEW sps \in scenario.sps, c \in Idrs(sps)
        PROVE  c \in Coming(scenario) /\ c.sps \in scenario.sps
    <2> DEFINE long == {FALSE, scenario.markings # {}}
               any  == BOOLEAN
    <2>any. any \subseteq BOOLEAN
      OBVIOUS
    <2>1. long \subseteq BOOLEAN
      BY Zenon
    <2>2. scenario.markings = {} => \A l \in long : ~l
      BY Zenon
    <2>3. c \in [idr : {TRUE}, ref : {TRUE}, frameNum : {0}, poc : {0}, sps : {sps},
                 noOutput : any, longTerm : long, adaptive : {FALSE}, mmco : {<<>>}]
      BY <1>2, Zenon DEF Idrs
    <2> HIDE DEF long, any
    <2>sps. sps \in SpsSet
      BY <1>1
    <2>4. c \in CodedPicture
      BY <1>0, <2>any, <2>sps, <2>1, <2>3, IdrCoded, Zenon
    <2>5. c.sps = sps /\ c.longTerm \in long
      BY <2>3
    <2>6. ~c.adaptive
      BY <2>3
    <2> QED
      BY <2>2, <2>4, <2>5, <2>6, Zenon DEF Coming
  <1>3. ASSUME NEW sps \in scenario.sps, c \in Others(sps)
        PROVE  c \in Coming(scenario) /\ c.sps \in scenario.sps
    <2> DEFINE left   == scenario.reordered \ enc.counts
               next   == (enc.frameNum + 1) % MaxFrameNum
               counts == {p \in left : Cardinality({q \in left : q < p}) <= scenario.depth}
               nonRef == {r \in {FALSE} : scenario.nonRefs}
    <2>1. next \in Nat
      BY DEF SenderInv, EncoderTyped, MaxFrameNum
    <2>2. counts \subseteq Int
      BY <1>1
    <2>3. nonRef \subseteq BOOLEAN
      OBVIOUS
    <2>4. c \in [idr : {FALSE}, ref : {TRUE}, frameNum : {next}, poc : counts, sps : {sps},
                 noOutput : {FALSE}, longTerm : {FALSE}, adaptive : {FALSE}, mmco : {<<>>}]
                \cup
                [idr : {FALSE}, ref : {TRUE}, frameNum : {next}, poc : counts, sps : {sps},
                 noOutput : {FALSE}, longTerm : {FALSE}, adaptive : {TRUE}, mmco : scenario.markings]
                \cup
                [idr : {FALSE}, ref : nonRef, frameNum : {next}, poc : counts, sps : {sps},
                 noOutput : {FALSE}, longTerm : {FALSE}, adaptive : {FALSE}, mmco : {<<>>}]
      BY <1>3, Zenon DEF Others
    <2> HIDE DEF next, counts, nonRef
    <2>5. CASE c \in [idr : {FALSE}, ref : {TRUE}, frameNum : {next}, poc : counts, sps : {sps},
                      noOutput : {FALSE}, longTerm : {FALSE}, adaptive : {FALSE}, mmco : {<<>>}]
      BY <1>1, <2>1, <2>2, <2>5 DEF Coming, CodedPicture
    <2>6. CASE c \in [idr : {FALSE}, ref : {TRUE}, frameNum : {next}, poc : counts, sps : {sps},
                      noOutput : {FALSE}, longTerm : {FALSE}, adaptive : {TRUE}, mmco : scenario.markings]
      BY <1>1, <2>1, <2>2, <2>6 DEF Coming, CodedPicture
    <2>7. CASE c \in [idr : {FALSE}, ref : nonRef, frameNum : {next}, poc : counts, sps : {sps},
                      noOutput : {FALSE}, longTerm : {FALSE}, adaptive : {FALSE}, mmco : {<<>>}]
      BY <1>1, <2>1, <2>2, <2>3, <2>7 DEF Coming, CodedPicture
    <2> QED
      BY <2>4, <2>5, <2>6, <2>7
  <1> QED
    BY <1>2, <1>3 DEF Coded, SenderInv, EncoderTyped

\* So are the slices it sends of them.
LEMMA SlicesArriving ==
  ASSUME SenderInv, NEW c \in Coded, NEW firsts \in Seq(BOOLEAN)
  PROVE  Slices(c, firsts) \in Seq(Arriving(scenario))
  <1>1. c \in Coming(scenario)
    BY CodedComing
  <1>2. scenario.coded \in Nat /\ budget.coded \in Int
    BY ScenarioAssumption DEF SenderInv, Budgets
  <1>3. \A k \in DOMAIN firsts :
           [coded |-> scenario.coded - budget.coded + 1, picture |-> c, first |-> firsts[k]]
               \in Arriving(scenario)
    BY <1>1, <1>2 DEF Arriving
  <1> QED
    BY <1>3 DEF Slices

\* Which slices of a picture arrive.
LEMMA FirstsTyped == Whole \cup Damaged \subseteq Seq(BOOLEAN)
  <1>1. {<<TRUE>>, <<TRUE, FALSE>>, <<FALSE>>} \subseteq Seq(BOOLEAN)
    OBVIOUS
  <1>2. Whole \subseteq {<<TRUE>>, <<TRUE, FALSE>>} /\ Damaged \subseteq {<<FALSE>>}
    BY DEF Whole, Damaged
  <1> QED
    BY <1>1, <1>2

\* The encoder stays within its scenario.
LEMMA EncodeTyped ==
  ASSUME SenderInv, NEW c, c.sps \in scenario.sps, c.frameNum \in Nat, Encode(c)
  PROVE  /\ enc'.frameNum \in Nat /\ enc'.sps \subseteq scenario.sps
         /\ enc' = [frameNum |-> enc'.frameNum, counts |-> enc'.counts, sps |-> enc'.sps,
                    refs |-> enc'.refs, got |-> enc'.got]
  <1> DEFINE f == CASE ~c.ref -> enc.frameNum [] HasMmco5(c) -> 0 [] OTHER -> c.frameNum
  <1>1. f \in Nat
    BY DEF SenderInv, EncoderTyped
  <1>2. PICK counts, refs, got :
           enc' = [frameNum |-> f, counts |-> counts, sps |-> {c.sps}, refs |-> refs, got |-> got]
    BY DEF Encode
  <1> HIDE DEF f
  <1> QED
    BY <1>1, <1>2

\* The first of the slices on the way, and the others.
LEMMA ArrivingHeadAndTail ==
  ASSUME NEW S, NEW s \in Seq(S), s # <<>>
  PROVE  Head(s) \in S /\ Tail(s) \in Seq(S)
  OBVIOUS

-----------------------------------------------------------------------------
(* The sender, step by step *)

\* At the start nothing is on the way.
LEMMA SenderInit == MCInit => SenderInv
  <1> SUFFICES ASSUME MCInit PROVE SenderInv
    OBVIOUS
  <1>1. scenario \in Scenarios
    BY DEF MCInit
  <1>2. units = <<>> /\ read = NoSlice /\ slice = NoPicture
    BY DEF MCInit, SubmitInit, Init
  <1>3. units \in Seq(Arriving(scenario))
    BY <1>2
  <1>4. enc = [frameNum |-> 0, counts |-> {}, sps |-> {}, refs |-> <<>>, got |-> {}]
    BY DEF MCInit
  <1>5. {scenario.coded, scenario.lost, scenario.faults, scenario.flushes} \subseteq Int
    BY <1>1, ScenarioAssumption
  <1>6. budget \in Budgets
    BY <1>5 DEF MCInit, Budgets
  <1> QED
    BY <1>1, <1>2, <1>3, <1>4, <1>6 DEF SenderInv, EncoderTyped, OnTheWay

\* begin_picture for a slice that was read.
LEMMA BeginOnTheWay ==
  ASSUME NEW s \in Arriving(scenario), NEW left \in Seq(Arriving(scenario)), BeginWith(s, left),
         UNCHANGED scenario
  PROVE  Next /\ OnTheWay'
  <1>1. BeginPicture(s.picture) /\ s.picture \in Coming(scenario)
    BY DEF BeginWith, Arriving
  <1>2. s.picture \in CodedPicture
    BY <1>1 DEF Coming
  <1>3. Next
    BY <1>1, <1>2 DEF Next
  <1>4. slice' \in {s.picture, NoPicture}
    BY <1>1 DEF BeginPicture, RefuseSps, Fail
  <1>5. (units' = <<>> /\ read' = NoSlice) \/ (units' = left /\ read' = s)
    BY DEF BeginWith
  <1>6. <<>> \in Seq(Arriving(scenario))
    OBVIOUS
  <1> QED
    BY <1>1, <1>3, <1>4, <1>5, <1>6 DEF OnTheWay

\* The other steps leave the slice as it is, or have done with it.
LEMMA SliceKept ==
  ASSUME MarkReference \/ Proceed \/ Abandon \/ SubmitParameterSets \/ Reset \/ TakeFrames
  PROVE  slice' \in {slice, NoPicture} /\ Next
  <1>1. CASE MarkReference
    BY <1>1 DEF MarkReference, Next
  <1>2. CASE RefuseGap
    BY <1>2 DEF RefuseGap, Fail, Next
  <1>3. CASE FillGap
    BY <1>3 DEF FillGap, Fail, Next
  <1>4. ASSUME NEW allocated \in BOOLEAN, StartPicture(allocated)
        PROVE  slice' \in {slice, NoPicture} /\ Next
    BY <1>4 DEF StartPicture, Fail, Next
  <1>5. CASE Mmco
    BY <1>5 DEF Mmco, Fail, Next
  <1>6. CASE StorePicture
    BY <1>6 DEF StorePicture, Submitted, Fail, Next
  <1>7. CASE Abandon
    BY <1>7 DEF Abandon, AbandonPicture, Fail, Next
  <1>8. CASE SubmitParameterSets \/ Reset \/ TakeFrames
    BY <1>8 DEF SubmitParameterSets, Reset, TakeFrames, Next
  <1> QED
    BY <1>1, <1>2, <1>3, <1>4, <1>5, <1>6, <1>7, <1>8 DEF Proceed

\* What is left of an access unit is still on the way.
LEMMA RestOnTheWay ==
  ASSUME OnTheWay, UNCHANGED scenario, slice' \in {slice, NoPicture},
         units' \in {<<>>, units}, read' \in {NoSlice, read}
  PROVE  OnTheWay'
  <1>1. <<>> \in Seq(Arriving(scenario))
    OBVIOUS
  <1> QED
    BY <1>1 DEF OnTheWay

\* The loop of submit reads the next of them.
LEMMA ReadOnTheWay ==
  ASSUME OnTheWay, ReadSlice, UNCHANGED scenario
  PROVE  [Next]_vars /\ OnTheWay'
  <1>1. Head(units) \in Arriving(scenario) /\ Tail(units) \in Seq(Arriving(scenario))
    BY ArrivingHeadAndTail DEF OnTheWay, ReadSlice
  <1>2. CASE BeginWith(Head(units), Tail(units))
    BY <1>1, <1>2, BeginOnTheWay
  <1>3. CASE /\ MarkReference \/ UNCHANGED vars
             /\ read' = Head(units) /\ units' = Tail(units)
    <2>1. slice' \in {slice, NoPicture} /\ [Next]_vars
      BY <1>3, SliceKept DEF vars
    <2> QED
      BY <1>1, <1>3, <2>1 DEF OnTheWay
  <1>4. \/ BeginWith(Head(units), Tail(units))
        \/ /\ MarkReference \/ UNCHANGED vars
           /\ read' = Head(units) /\ units' = Tail(units)
    BY Zenon DEF ReadSlice
  <1> QED
    BY <1>2, <1>3, <1>4

\* The encoder has frames of the decoder's, and is otherwise as it was.
EncoderKept == \/ enc' = enc
               \/ \E got : enc' = [enc EXCEPT !.got = got]

\* A budget that is spent from is still one.
LEMMA SpentOnce ==
  ASSUME NEW b \in Budgets, NEW m \in Int
  PROVE  [b EXCEPT !.coded = @ - m] \in Budgets /\ [b EXCEPT !.flushes = @ - m] \in Budgets
  BY DEF Budgets

\* Nor does it matter where else it is spent.
LEMMA SpentTwice ==
  ASSUME NEW b \in Budgets, NEW m \in Int, NEW n \in Int
  PROVE  /\ [b EXCEPT !.coded = @ - m, !.lost = @ - n] \in Budgets
         /\ [b EXCEPT !.lost = @ - m, !.coded = @ - n] \in Budgets
         /\ [b EXCEPT !.coded = @ - m, !.faults = @ - n] \in Budgets
  <1>1. ASSUME NEW a \in Budgets, NEW k \in Int
        PROVE  /\ [a EXCEPT !.lost = k] \in Budgets
               /\ [a EXCEPT !.coded = k] \in Budgets
               /\ [a EXCEPT !.faults = k] \in Budgets
    BY DEF Budgets
  <1>2. /\ b.coded - m \in Int /\ b.coded - n \in Int
        /\ b.lost - m \in Int /\ b.lost - n \in Int /\ b.faults - n \in Int
    BY DEF Budgets
  <1>3. /\ [[b EXCEPT !.coded = b.coded - m] EXCEPT !.lost = b.lost - n] \in Budgets
        /\ [[b EXCEPT !.lost = b.lost - m] EXCEPT !.coded = b.coded - n] \in Budgets
        /\ [[b EXCEPT !.coded = b.coded - m] EXCEPT !.faults = b.faults - n] \in Budgets
    BY <1>1, <1>2
  <1> QED
    BY <1>3, Zenon

\* The encoder is told what arrived: it keeps to its scenario.
LEMMA EncoderKeptTyped ==
  ASSUME EncoderTyped, EncoderKept, UNCHANGED scenario
  PROVE  EncoderTyped'
  <1>1. CASE enc' = enc
    BY <1>1 DEF EncoderTyped
  <1>2. ASSUME NEW got, enc' = [enc EXCEPT !.got = got]
        PROVE  EncoderTyped'
    <2>1. enc' = [frameNum |-> enc.frameNum, counts |-> enc.counts, sps |-> enc.sps,
                  refs |-> enc.refs, got |-> got]
      BY <1>2 DEF EncoderTyped
    <2> QED
      BY <2>1 DEF EncoderTyped
  <1> QED
    BY <1>1, <1>2 DEF EncoderKept

\* A picture is lost, sent, or sent on with the one before.
LEMMA SendStep ==
  ASSUME SenderInv, NEW c \in Coded, Lose(c) \/ Deliver(c) \/ Continue(c), UNCHANGED scenario
  PROVE  UNCHANGED vars /\ SenderInv'
  <1>1. c \in Coming(scenario) /\ c.sps \in scenario.sps
    BY CodedComing
  <1>2. c.frameNum \in Nat
    BY <1>1 DEF Coming, CodedPicture
  <1>s. scenario' \in Scenarios
    BY DEF SenderInv
  <1>3. \A firsts \in Whole \cup Damaged : Slices(c, firsts) \in Seq(Arriving(scenario))
    BY FirstsTyped, SlicesArriving
  <1>4. CASE Lose(c)
    <2>1. EncoderTyped'
      BY <1>1, <1>2, <1>4, EncodeTyped DEF Lose, EncoderTyped
    <2>2. budget' \in Budgets
      <3>1. budget' = [budget EXCEPT !.lost = @ - 1, !.coded = @ - 1]
        BY <1>4 DEF Lose
      <3>2. 1 \in Int /\ budget \in Budgets
        BY DEF SenderInv
      <3> QED
        BY <3>1, <3>2, SpentTwice, Zenon
    <2>3. OnTheWay' /\ UNCHANGED vars
      BY <1>4 DEF Lose, SenderInv, OnTheWay, submitVars, vars
    <2> QED
      BY <2>1, <2>2, <2>3, <1>s DEF SenderInv
  <1>5. CASE Deliver(c)
    <2>1. EncoderTyped'
      BY <1>1, <1>2, <1>5, EncodeTyped DEF Deliver, EncoderTyped
    <2>2. budget' \in Budgets
      <3>1. \/ budget' = [budget EXCEPT !.coded = @ - 1]
            \/ budget' = [budget EXCEPT !.coded = @ - 1, !.lost = @ - 1]
        BY <1>5, Zenon DEF Deliver, Spend
      <3>2. 1 \in Int /\ budget \in Budgets
        BY DEF SenderInv
      <3>3. CASE budget' = [budget EXCEPT !.coded = @ - 1]
        BY <3>2, <3>3, SpentOnce, Zenon
      <3>4. CASE budget' = [budget EXCEPT !.coded = @ - 1, !.lost = @ - 1]
        BY <3>2, <3>4, SpentTwice, Zenon
      <3> QED
        BY <3>1, <3>3, <3>4
    <2>3. PICK firsts \in Whole \cup Damaged : Submit(Slices(c, firsts))
      BY <1>5 DEF Deliver
    <2>4. OnTheWay' /\ UNCHANGED vars
      BY <1>3, <2>3 DEF Submit, SenderInv, OnTheWay, vars
    <2> QED
      BY <2>1, <2>2, <2>4, <1>s DEF SenderInv
  <1>6. CASE Continue(c)
    <2>1. EncoderTyped' /\ budget' \in Budgets
      BY <1>6 DEF Continue, SenderInv, EncoderTyped
    <2>2. OnTheWay' /\ UNCHANGED vars
      BY <1>3, <1>6 DEF Continue, SenderInv, OnTheWay, vars
    <2> QED
      BY <2>1, <2>2, <1>s DEF SenderInv
  <1> QED
    BY <1>4, <1>5, <1>6

\* A step of a call on its pictures.
LEMMA InsideStep ==
  ASSUME SenderInv, Inside, UNCHANGED scenario
  PROVE  [Next]_vars /\ SenderInv'
  <1>1. OnTheWay /\ scenario' \in Scenarios
    BY DEF SenderInv
  <1>2. budget' \in Budgets
    <2> DEFINE fault == IF phase' = "idle" /\ result' = "va" THEN 1 ELSE 0
               coded == IF phase = "ready" THEN 1 ELSE 0
    <2>1. fault \in Int /\ coded \in Int
      OBVIOUS
    <2>2. budget' = [budget EXCEPT !.coded = @ - coded, !.faults = @ - fault]
      BY DEF Inside
    <2>3. budget \in Budgets
      BY DEF SenderInv
    <2> HIDE DEF fault, coded
    <2>4. PICK m \in Int, n \in Int : budget' = [budget EXCEPT !.coded = @ - m, !.faults = @ - n]
      BY <2>1, <2>2
    <2> QED
      BY <2>3, <2>4, SpentTwice, Zenon
  <1>3. CASE ReadSlice /\ UNCHANGED enc
    <2>1. [Next]_vars /\ OnTheWay'
      BY <1>1, <1>3, ReadOnTheWay
    <2>2. EncoderTyped'
      BY <1>3 DEF SenderInv, EncoderTyped
    <2> QED
      BY <1>1, <1>2, <2>1, <2>2 DEF SenderInv
  <1>4. CASE NextPicture /\ Encode(read.picture)
    <2>1. BeginWith(read, units) /\ read \in Arriving(scenario) /\ units \in Seq(Arriving(scenario))
      BY <1>1, <1>4 DEF NextPicture, OnTheWay
    <2>2. Next /\ OnTheWay'
      BY <2>1, BeginOnTheWay
    <2>3. PICK c : c = read.picture
      OBVIOUS
    <2>4. c.sps \in scenario.sps /\ c.frameNum \in Nat
      BY <2>1, <2>3 DEF Arriving, Coming, CodedPicture
    <2>5. EncoderTyped'
      BY <1>4, <2>3, <2>4, EncodeTyped DEF EncoderTyped
    <2> QED
      BY <1>1, <1>2, <2>2, <2>5 DEF SenderInv
  <1>5. CASE /\ Proceed \/ Abandon
             /\ enc' = IF phase = "marking" /\ phase' = "ready" /\ IsRef(pic)
                       THEN [enc EXCEPT !.got = @ \cup {slice.frameNum}] ELSE enc
    <2>1. slice' \in {slice, NoPicture} /\ Next
      BY <1>5, SliceKept
    <2>2. units' \in {<<>>, units} /\ read' \in {NoSlice, read}
      BY <1>5 DEF Proceed, Abandon, RestOfUnit
    <2>3. OnTheWay'
      BY <1>1, <2>1, <2>2, RestOnTheWay
    <2>4. EncoderKept
      BY <1>5, Zenon DEF EncoderKept
    <2>5. EncoderTyped'
      BY <2>4, EncoderKeptTyped DEF SenderInv, EncoderTyped
    <2> QED
      BY <1>1, <1>2, <2>1, <2>3, <2>5 DEF SenderInv
  <1> QED
    BY <1>3, <1>4, <1>5 DEF Inside

\* The steps of the encoder and of the caller are steps of the decoder, or leave
\* it as it is; and what they send comes of the scenario.
LEMMA SenderStep == SenderInv /\ [MCNext]_mcvars => [Next]_vars /\ SenderInv'
  <1> SUFFICES ASSUME SenderInv, [MCNext]_mcvars PROVE [Next]_vars /\ SenderInv'
    OBVIOUS
  <1>0. OnTheWay
    BY DEF SenderInv
  <1>1. CASE UNCHANGED mcvars
    BY <1>1 DEF mcvars, submitVars, vars, SenderInv, EncoderTyped, Budgets, OnTheWay
  <1> SUFFICES ASSUME MCStep, UNCHANGED scenario PROVE [Next]_vars /\ SenderInv'
    BY <1>1 DEF MCNext
  <1>2. scenario' \in Scenarios
    BY DEF SenderInv
  <1>3. ASSUME NEW c \in Coded, Lose(c) \/ Deliver(c) \/ Continue(c)
        PROVE  [Next]_vars /\ SenderInv'
    BY <1>3, SendStep
  <1>4. CASE Inside
    BY <1>4, InsideStep
  <1>5. CASE (DecodeSlice \/ EndUnit \/ Take) /\ UNCHANGED <<enc, budget>>
    <2>1. /\ slice' \in {slice, NoPicture} /\ [Next]_vars
          /\ units' \in {<<>>, units} /\ read' \in {NoSlice, read}
      BY <1>5, SliceKept DEF DecodeSlice, EndUnit, Take, vars
    <2>2. OnTheWay'
      BY <1>0, <2>1, RestOnTheWay
    <2>3. EncoderTyped' /\ budget' \in Budgets
      BY <1>5 DEF SenderInv, EncoderTyped
    <2> QED
      BY <1>2, <2>1, <2>2, <2>3 DEF SenderInv
  <1>6. CASE MCReset
    <2>1. /\ slice' \in {slice, NoPicture} /\ Next
          /\ units' \in {<<>>, units} /\ read' \in {NoSlice, read}
      BY <1>6, SliceKept DEF MCReset
    <2>2. OnTheWay'
      BY <1>0, <2>1, RestOnTheWay
    <2>3. EncoderKept
      BY <1>6 DEF MCReset, EncoderKept
    <2>4. EncoderTyped'
      BY <2>3, EncoderKeptTyped DEF SenderInv, EncoderTyped
    <2>5. budget' = [budget EXCEPT !.flushes = @ - 1]
      BY <1>6 DEF MCReset, Spend
    <2>6. 1 \in Int /\ budget \in Budgets
      BY DEF SenderInv
    <2>7. budget' \in Budgets
      BY <2>5, <2>6, SpentOnce, Zenon
    <2> QED
      BY <1>2, <2>1, <2>2, <2>4, <2>7 DEF SenderInv
  <1> QED
    BY <1>3, <1>4, <1>5, <1>6 DEF MCStep

\* The parameter set of the picture in flight is one of the scenario.
LEMMA SliceComes ==
  ASSUME SenderInv, IInv, phase \in {"gap", "picture", "marking"}
  PROVE  slice \in CodedPicture /\ slice \in Coming(scenario) /\ slice.sps \in scenario.sps
  <1>1. slice \in CodedPicture
    BY DEF IInv, TypeOK
  <1>2. DOMAIN slice = {"idr", "ref", "frameNum", "poc", "sps", "noOutput", "longTerm", "adaptive",
                        "mmco"}
    BY <1>1 DEF CodedPicture
  <1>3. DOMAIN NoPicture = {"none"}
    BY DEF NoPicture
  <1>4. slice # NoPicture
    BY <1>2, <1>3
  <1> QED
    BY <1>1, <1>4 DEF SenderInv, OnTheWay, Coming

\* A scenario without markings leaves the marking to the sliding window.
LEMMA ScenarioSlides == SenderInv /\ IInv /\ scenario.markings = {} => SlidingOnly
  <1> SUFFICES ASSUME SenderInv, IInv, scenario.markings = {}, phase \in {"gap", "picture", "marking"}
               PROVE  WindowOnly(slice)
    BY DEF SlidingOnly
  <1>2. slice \in Coming(scenario)
    BY SliceComes
  <1>3. slice.sps \in scenario.sps /\ ~slice.longTerm /\ ~slice.adaptive
    BY <1>2 DEF Coming
  <1>4. \A sps \in scenario.sps : sps.maxDpbFrames > 0 /\ sps.maxNumRefFrames <= sps.maxDpbFrames
    BY ScenarioAssumption DEF SenderInv
  <1> QED
    BY <1>3, <1>4 DEF WindowOnly

\* What the room depends on, in a stream without adaptive marking.
SlidingInv == scenario.markings = {} => WindowInv

\* It holds at the start,
LEMMA InitSliding == MCInit => SlidingInv
  BY EmptyUsed DEF MCInit, SubmitInit, Init, SlidingInv, WindowInv, EmptyDpb, NoEntries

\* and every step keeps it.
LEMMA NextSliding ==
  IInv /\ OutputInv /\ SenderInv /\ SlidingInv /\ [MCNext]_mcvars => SlidingInv'
  <1> SUFFICES ASSUME IInv, OutputInv, SenderInv, SlidingInv, [MCNext]_mcvars,
                      scenario'.markings = {}
               PROVE  WindowInv'
    BY DEF SlidingInv
  <1>1. UNCHANGED scenario
    BY DEF MCNext, mcvars
  <1>2. WindowInv /\ SlidingOnly
    BY <1>1, ScenarioSlides DEF SlidingInv
  <1> QED
    BY <1>2, SenderStep, NextWindow

\* The decoder fed by the encoder is the decoder.
THEOREM SenderImplements == MCSpec => Spec
<1>1. MCInit => Init
  BY DEF MCInit, SubmitInit
<1> QED
  BY <1>1, SenderInit, SenderStep, PTL DEF MCSpec, Spec

\* So a picture of an encoder that keeps to the sliding window finds room in the
\* DPB, whatever is lost, refused or flushed between (finish_picture and
\* handle_frame_num_gap).
THEOREM RoomForEachPicture == MCSpec => []NeverRefusedSliding
<1>1. MCInit => IInv /\ OutputInv
  BY InitIInv, InitOutput DEF MCInit, SubmitInit
<1>2. IInv /\ OutputInv /\ SenderInv /\ SlidingInv /\ [MCNext]_mcvars
         => (IInv /\ OutputInv /\ SenderInv /\ SlidingInv)'
  BY NextIInv, NextOutput, SenderStep, NextSliding
<1>3. SlidingInv => NeverRefusedSliding
  BY DEF SlidingInv, WindowInv, NeverRefusedSliding, NeverRefused
<1> QED
  BY <1>1, <1>2, <1>3, SenderInit, InitSliding, PTL DEF MCSpec

-----------------------------------------------------------------------------
(* The encoder keeps to that *)

\* A scenario whose pictures are all decoded, save the ones lost: the driver never
\* fails, pictures have one slice, no more are lost than frame_num can tell, and
\* the parameter sets allow gaps if any are, which only references follow.
Steady(s) ==
    /\ s.faults = 0 /\ ~s.sliced /\ s.lost <= MaxFrameNum - 2
    /\ \A sps \in s.sps :
          /\ sps.maxFrameNum = MaxFrameNum /\ WindowLimit(sps.maxNumRefFrames) < MaxFrameNum
          /\ IF sps.gapsAllowed THEN ~s.nonRefs ELSE s.lost = 0

\* The encoder coded c last.
Sent(c) ==
    /\ enc.sps = {c.sps}
    /\ c.idr => c.ref /\ c.frameNum = 0
    /\ c.frameNum \in 0 .. MaxFrameNum - 1
    /\ enc.frameNum = IF c.ref THEN c.frameNum ELSE NumberBefore(c.frameNum, MaxFrameNum)
    /\ c.ref \/ scenario.nonRefs

NoneKept == Refs(dpb.entries) = {}

Refused == \A sps \in enc.sps : sps.support # "ok"

\* The decoder is behind the encoder by what was lost, and by one more while a
\* reference is on the way, unless it has nothing of the stream.
InStep(ref) ==
    \/ NoneKept
    \/ Refused
    \/ LET lag == Age(enc.frameNum, prevRefFrameNum, MaxFrameNum)
           lost == scenario.lost - budget.lost
       IN  IF ref THEN lag \in 1 .. lost + 1 ELSE lag \in 0 .. lost

\* The picture in flight has a number the decoder can place.
Fits(c) ==
    \/ c.idr
    \/ NoneKept
    \/ IF c.sps.gapsAllowed THEN c.frameNum # prevRefFrameNum
       ELSE c.frameNum = NumberAfter(prevRefFrameNum, MaxFrameNum)

SentInv ==
    /\ enc.frameNum \in 0 .. MaxFrameNum - 1
    /\ budget.faults = 0 /\ budget.lost \in 0 .. scenario.lost
    /\ phase # "idle" => units = <<>>
    /\ phase \notin {"gap", "picture"} => read = NoSlice
    /\ units # <<>> =>
          /\ Len(units) = 1
          /\ Sent(units[1].picture)
          /\ units[1].picture.idr \/ InStep(units[1].picture.ref)
    /\ phase \in {"idle", "ready"} /\ units = <<>> => InStep(FALSE)
    /\ phase \in {"gap", "picture", "marking"} => Sent(slice) /\ Fits(slice)

\* What the model counts frames by.
LEMMA Counting == MaxFrameNum \in Nat /\ MaxFrameNum > 1
  BY DEF MaxFrameNum

\* At the start the decoder has nothing.
LEMMA SentInit == MCInit /\ Steady(scenario) => SentInv
  <1> SUFFICES ASSUME MCInit, Steady(scenario) PROVE SentInv
    OBVIOUS
  <1>1. dpb.entries = NoEntries /\ phase = "idle" /\ units = <<>> /\ read = NoSlice
    BY DEF MCInit, SubmitInit, Init, EmptyDpb
  <1>2. NoneKept
    BY <1>1 DEF NoneKept, Refs, NoEntries
  <1>3. scenario.lost \in Nat
    BY ScenarioAssumption DEF MCInit
  <1>4. enc.frameNum = 0 /\ budget.faults = 0 /\ budget.lost = scenario.lost
    BY DEF MCInit, Steady
  <1>5. InStep(FALSE)
    BY <1>2 DEF InStep
  <1>6. enc.frameNum \in 0 .. MaxFrameNum - 1 /\ budget.lost \in 0 .. scenario.lost
    BY <1>3, <1>4, Counting
  <1> QED
    BY <1>1, <1>4, <1>5, <1>6 DEF SentInv

\* The encoder's next picture, without adaptive marking.
Follows743(c) ==
    /\ c.mmco = <<>>
    /\ c.idr => c.ref /\ c.frameNum = 0
    /\ ~c.idr => /\ c.sps \in enc.sps
                 /\ c.frameNum = NumberAfter(enc.frameNum, MaxFrameNum)
                 /\ c.ref \/ scenario.nonRefs

\* That is what it can choose from.
LEMMA CodedFollows ==
  ASSUME scenario.markings = {}, enc.frameNum \in 0 .. MaxFrameNum - 1, NEW c \in Coded
  PROVE  Follows743(c)
  <1>1. ASSUME NEW sps, c \in Idrs(sps) PROVE Follows743(c)
    <2>1. c.mmco = <<>> /\ c.idr = TRUE /\ c.ref = TRUE /\ c.frameNum = 0
      BY <1>1 DEF Idrs
    <2> QED
      BY <2>1 DEF Follows743
  <1>2. ASSUME NEW sps \in enc.sps, c \in Others(sps) PROVE Follows743(c)
    <2> DEFINE left   == scenario.reordered \ enc.counts
               next   == (enc.frameNum + 1) % MaxFrameNum
               counts == {p \in left : Cardinality({q \in left : q < p}) <= scenario.depth}
               nonRef == {r \in {FALSE} : scenario.nonRefs}
    <2>1. next = NumberAfter(enc.frameNum, MaxFrameNum)
      BY NextIsAfter, Counting
    <2>2. c \in [idr : {FALSE}, ref : {TRUE}, frameNum : {next}, poc : counts, sps : {sps},
                 noOutput : {FALSE}, longTerm : {FALSE}, adaptive : {FALSE}, mmco : {<<>>}]
                \cup
                [idr : {FALSE}, ref : {TRUE}, frameNum : {next}, poc : counts, sps : {sps},
                 noOutput : {FALSE}, longTerm : {FALSE}, adaptive : {TRUE}, mmco : scenario.markings]
                \cup
                [idr : {FALSE}, ref : nonRef, frameNum : {next}, poc : counts, sps : {sps},
                 noOutput : {FALSE}, longTerm : {FALSE}, adaptive : {FALSE}, mmco : {<<>>}]
      BY <1>2, Zenon DEF Others
    <2>3. \A r \in nonRef : scenario.nonRefs
      OBVIOUS
    <2> HIDE DEF next, counts, nonRef
    <2>4. c.idr = FALSE /\ c.frameNum = next /\ c.sps = sps /\ c.mmco = <<>>
          /\ (c.ref = TRUE \/ c.ref \in nonRef)
      BY <2>2
    <2> QED
      BY <1>2, <2>1, <2>3, <2>4 DEF Follows743
  <1> QED
    BY <1>1, <1>2 DEF Coded

\* What the encoder has coded then.
LEMMA EncodeSent ==
  ASSUME enc.frameNum \in 0 .. MaxFrameNum - 1, NEW c, Follows743(c), Encode(c), UNCHANGED scenario
  PROVE  /\ Sent(c)' /\ enc'.frameNum \in 0 .. MaxFrameNum - 1
         /\ ~c.idr => enc'.frameNum = IF c.ref THEN NumberAfter(enc.frameNum, MaxFrameNum)
                                      ELSE enc.frameNum
  <1>1. ~HasMmco5(c)
    BY DEF HasMmco5, Follows743
  <1>2. enc'.frameNum = IF c.ref THEN c.frameNum ELSE enc.frameNum
    BY <1>1 DEF Encode
  <1>3. enc'.sps = {c.sps}
    BY DEF Encode
  <1>4. /\ NumberAfter(enc.frameNum, MaxFrameNum) \in 0 .. MaxFrameNum - 1
        /\ NumberBefore(NumberAfter(enc.frameNum, MaxFrameNum), MaxFrameNum) = enc.frameNum
        /\ 0 \in 0 .. MaxFrameNum - 1
    BY Ages, Counting
  <1>5. CASE c.idr
    <2>1. c.ref /\ c.frameNum = 0
      BY <1>5 DEF Follows743
    <2> QED
      BY <1>2, <1>3, <1>4, <1>5, <2>1 DEF Sent
  <1>6. CASE ~c.idr
    <2>1. c.frameNum = NumberAfter(enc.frameNum, MaxFrameNum) /\ (c.ref \/ scenario.nonRefs)
      BY <1>6 DEF Follows743
    <2> QED
      BY <1>2, <1>3, <1>4, <1>6, <2>1 DEF Sent
  <1> QED
    BY <1>5, <1>6

\* A picture more puts the decoder behind by one, if it is a reference.
LEMMA OneBehind ==
  ASSUME InStep(FALSE), enc.frameNum \in 0 .. MaxFrameNum - 1,
         prevRefFrameNum \in 0 .. MaxFrameNum - 1, scenario.lost \in Nat,
         budget.lost \in 0 .. scenario.lost, scenario.lost <= MaxFrameNum - 2,
         NEW c, Follows743(c), Encode(c), ~c.idr, UNCHANGED <<scenario, dpb, prevRefFrameNum>>
  PROVE  /\ budget'.lost = budget.lost => InStep(c.ref)'
         /\ budget'.lost = budget.lost - 1 => InStep(FALSE)'
  <1> DEFINE lag  == Age(enc.frameNum, prevRefFrameNum, MaxFrameNum)
             lag1 == Age(enc'.frameNum, prevRefFrameNum, MaxFrameNum)
             lost == scenario.lost - budget.lost
  <1>1. enc'.frameNum = IF c.ref THEN NumberAfter(enc.frameNum, MaxFrameNum) ELSE enc.frameNum
    BY EncodeSent
  <1>2. CASE NoneKept
    BY <1>2 DEF NoneKept, InStep
  <1>3. CASE Refused
    <2>1. enc'.sps = {c.sps} /\ c.sps \in enc.sps
      BY DEF Encode, Follows743
    <2>2. Refused'
      BY <1>3, <2>1 DEF Refused
    <2> QED
      BY <2>2 DEF InStep
  <1>4. CASE lag \in 0 .. lost
    <2>m. PICK M \in Nat : M = MaxFrameNum /\ M > 1
      BY Counting
    <2>e. PICK e \in 0 .. M - 1 : e = enc.frameNum
      BY <2>m
    <2>f. PICK f \in 0 .. M - 1 : f = prevRefFrameNum
      BY <2>m
    <2>k. PICK k \in Nat : k = lost /\ k <= M - 2
      BY <2>m
    <2>1. Age(e, f, M) \in 0 .. k
      BY <1>4, <2>m, <2>e, <2>f, <2>k
    <2>2. Age(NumberAfter(e, M), f, M) = Age(e, f, M) + 1
      <3>1. /\ Age(e, f, M) = M - 1 <=> f = NumberAfter(e, M)
            /\ Age(NumberAfter(e, M), f, M)
                     = IF f = NumberAfter(e, M) THEN 0 ELSE Age(e, f, M) + 1
        BY <2>m, Ages
      <3> QED
        BY <2>1, <2>k, <3>1
    <2>3. lag1 = IF c.ref THEN Age(e, f, M) + 1 ELSE Age(e, f, M)
      BY <1>1, <2>m, <2>e, <2>f, <2>2
    <2>4. scenario' = scenario /\ prevRefFrameNum' = prevRefFrameNum
      OBVIOUS
    <2>5. (budget'.lost = budget.lost) => (IF c.ref THEN lag1 \in 1 .. lost + 1 ELSE lag1 \in 0 .. lost)
      <3> HIDE DEF lag1, lost
      <3> QED
        BY <2>1, <2>3, <2>k
    <2>6. (budget'.lost = budget.lost - 1) => lag1 \in 0 .. scenario.lost - budget'.lost
      <3>1. (budget'.lost = budget.lost - 1) => scenario.lost - budget'.lost = k + 1
        BY <2>k
      <3> HIDE DEF lag1, lost
      <3> QED
        BY <2>1, <2>3, <3>1
    <2>7. (budget'.lost = budget.lost) => InStep(c.ref)'
      BY <2>4, <2>5 DEF InStep
    <2>8. (budget'.lost = budget.lost - 1) => InStep(FALSE)'
      BY <2>4, <2>6 DEF InStep
    <2> QED
      BY <2>7, <2>8
  <1> QED
    BY <1>2, <1>3, <1>4 DEF InStep

-----------------------------------------------------------------------------
(* The encoder and the decoder, step by step *)

\* What a step outside of a picture has to keep,
LEMMA SentOutside ==
  ASSUME SentInv, UNCHANGED scenario, phase' \in {"idle", "ready"}, units' = <<>>, read' = NoSlice,
         enc'.frameNum \in 0 .. MaxFrameNum - 1, budget'.faults = 0,
         budget'.lost \in 0 .. scenario.lost, InStep(FALSE)'
  PROVE  SentInv'
  BY DEF SentInv

\* and one in the course of it.
LEMMA SentInside ==
  ASSUME SentInv, UNCHANGED <<scenario, enc, slice>>, phase \in {"gap", "picture", "marking"},
         phase' \in {"gap", "picture", "marking"}, units' = <<>>,
         phase' = "marking" => read' = NoSlice,
         budget'.faults = 0, budget'.lost = budget.lost, Fits(slice)'
  PROVE  SentInv'
  <1>1. Sent(slice)'
    BY DEF SentInv, Sent
  <1> QED
    BY <1>1 DEF SentInv

\* A budget is spent from field by field.
LEMMA SpentFields ==
  ASSUME NEW b \in Budgets
  PROVE  /\ \A m \in Int : /\ [b EXCEPT !.coded = @ - m].lost = b.lost
                           /\ [b EXCEPT !.coded = @ - m].faults = b.faults
                           /\ [b EXCEPT !.flushes = @ - m].lost = b.lost
                           /\ [b EXCEPT !.flushes = @ - m].faults = b.faults
         /\ \A m, n \in Int : /\ [b EXCEPT !.lost = @ - m, !.coded = @ - n].lost = b.lost - m
                              /\ [b EXCEPT !.lost = @ - m, !.coded = @ - n].faults = b.faults
                              /\ [b EXCEPT !.coded = @ - m, !.faults = @ - n].lost = b.lost
                              /\ [b EXCEPT !.coded = @ - m, !.faults = @ - n].faults = b.faults - n
  BY DEF Budgets

\* What the encoder codes and loses on the way puts the decoder behind by one.
LEMMA LoseSent ==
  ASSUME SenderInv, SentInv, Steady(scenario), scenario.markings = {},
         prevRefFrameNum \in 0 .. MaxFrameNum - 1,
         NEW c \in Coded, Lose(c), UNCHANGED scenario
  PROVE  SentInv'
  <1>1. /\ phase = "idle" /\ units = <<>> /\ ~c.idr /\ Encode(c) /\ budget.lost > 0
        /\ budget' = [budget EXCEPT !.lost = @ - 1, !.coded = @ - 1]
        /\ UNCHANGED <<vars, units, read>>
    BY DEF Lose, Outside, submitVars
  <1>2. enc.frameNum \in 0 .. MaxFrameNum - 1 /\ InStep(FALSE) /\ read = NoSlice
        /\ budget.faults = 0 /\ budget.lost \in 0 .. scenario.lost
    BY <1>1 DEF SentInv
  <1>3. Follows743(c)
    BY <1>2, CodedFollows
  <1>4. budget'.lost = budget.lost - 1 /\ budget'.faults = 0
    <2>1. budget \in Budgets /\ 1 \in Int
      BY DEF SenderInv
    <2>2. /\ [budget EXCEPT !.lost = @ - 1, !.coded = @ - 1].lost = budget.lost - 1
          /\ [budget EXCEPT !.lost = @ - 1, !.coded = @ - 1].faults = budget.faults
      BY <2>1 DEF Budgets
    <2> QED
      BY <1>1, <1>2, <2>2
  <1>5. scenario.lost \in Nat /\ scenario.lost <= MaxFrameNum - 2
    BY ScenarioAssumption DEF SenderInv, Steady
  <1>6. UNCHANGED <<scenario, dpb, prevRefFrameNum>>
    BY <1>1 DEF vars
  <1>7. InStep(FALSE)'
    BY <1>1, <1>2, <1>3, <1>4, <1>5, <1>6, OneBehind
  <1>8. enc'.frameNum \in 0 .. MaxFrameNum - 1
    BY <1>1, <1>2, <1>3, EncodeSent
  <1>9. budget'.lost \in 0 .. scenario.lost
    BY <1>1, <1>2, <1>4, <1>5
  <1>10. phase' = "idle" /\ units' = <<>> /\ read' = NoSlice
    BY <1>1, <1>2 DEF vars
  <1> QED
    BY <1>4, <1>7, <1>8, <1>9, <1>10, SentOutside

\* The picture it sends is one slice, and one ahead of the decoder.
LEMMA DeliverSent ==
  ASSUME SenderInv, SentInv, Steady(scenario), scenario.markings = {},
         prevRefFrameNum \in 0 .. MaxFrameNum - 1,
         NEW c \in Coded, Deliver(c), UNCHANGED scenario
  PROVE  SentInv'
  <1>1. ~scenario.sliced
    BY DEF Steady
  <1>2. Whole = {<<TRUE>>} /\ Damaged = {}
    BY <1>1 DEF Whole, Damaged
  <1>3. Encode(c) /\ Submit(Slices(c, <<TRUE>>)) /\ budget' = [budget EXCEPT !.coded = @ - 1]
    BY <1>2, Zenon DEF Deliver, Spend
  <1>4. /\ phase = "idle" /\ units = <<>> /\ units' = Slices(c, <<TRUE>>)
        /\ UNCHANGED <<vars, read>>
    BY <1>3 DEF Submit, Outside
  <1>5. enc.frameNum \in 0 .. MaxFrameNum - 1 /\ InStep(FALSE) /\ read = NoSlice
        /\ budget.faults = 0 /\ budget.lost \in 0 .. scenario.lost
    BY <1>4 DEF SentInv
  <1>6. Follows743(c)
    BY <1>5, CodedFollows
  <1>7. budget'.lost = budget.lost /\ budget'.faults = 0
    <2>1. budget \in Budgets /\ 1 \in Int
      BY DEF SenderInv
    <2>2. /\ [budget EXCEPT !.coded = @ - 1].lost = budget.lost
          /\ [budget EXCEPT !.coded = @ - 1].faults = budget.faults
      BY <2>1, SpentFields, Zenon
    <2> QED
      BY <1>3, <1>5, <2>2
  <1>8. scenario.lost \in Nat /\ scenario.lost <= MaxFrameNum - 2
    BY ScenarioAssumption DEF SenderInv, Steady
  <1>9. UNCHANGED <<scenario, dpb, prevRefFrameNum>>
    BY <1>4 DEF vars
  <1>10. ~c.idr => InStep(c.ref)'
    BY <1>3, <1>5, <1>6, <1>7, <1>8, <1>9, OneBehind
  <1>11. enc'.frameNum \in 0 .. MaxFrameNum - 1 /\ Sent(c)'
    BY <1>3, <1>5, <1>6, EncodeSent
  <1>12. Len(units') = 1 /\ units'[1].picture = c
    <2>1. DOMAIN <<TRUE>> = 1 .. 1
      OBVIOUS
    <2>2. PICK n : n = scenario.coded - budget.coded + 1
      OBVIOUS
    <2>3. units' = [k \in 1 .. 1 |-> [coded |-> n, picture |-> c, first |-> <<TRUE>>[k]]]
      BY <1>4, <2>1, <2>2, Zenon DEF Slices
    <2>4. PICK u : u = [k \in 1 .. 1 |-> [coded |-> n, picture |-> c, first |-> <<TRUE>>[k]]]
      OBVIOUS
    <2>5. DOMAIN u = 1 .. 1 /\ u[1].picture = c
      BY <2>4
    <2>6. u \in Seq({u[1]})
      BY <2>4
    <2>7. Len(u) = 1
      BY <2>5, <2>6
    <2> QED
      BY <2>3, <2>4, <2>5, <2>7
  <1>13. phase' = "idle" /\ read' = NoSlice
    BY <1>4, <1>5 DEF vars
  <1>14. PICK u : u = units'[1].picture
    OBVIOUS
  <1>15. Sent(u)' /\ (u.idr \/ InStep(u.ref)')
    BY <1>10, <1>11, <1>12, <1>14
  <1>16. (Sent(units[1].picture) /\ (units[1].picture.idr \/ InStep(units[1].picture.ref)))'
    <2>1. Sent(units[1].picture)'
      BY <1>14, <1>15 DEF Sent
    <2>2. (units[1].picture.idr \/ InStep(units[1].picture.ref))'
      <3>1. CASE u.idr
        BY <1>14, <3>1
      <3>2. CASE InStep(u.ref)'
        BY <1>14, <3>2 DEF InStep
      <3> QED
        BY <1>15, <3>1, <3>2
    <2> QED
      BY <2>1, <2>2
  <1>17. units' # <<>>
    <2>1. Len(<<>>) = 0
      OBVIOUS
    <2>2. Len(units') # 0
      BY <1>12
    <2> QED
      BY <2>1, <2>2, Zenon
  <1>18. budget'.faults = 0 /\ budget'.lost \in 0 .. scenario'.lost
    BY <1>5, <1>7
  <1> QED
    BY <1>11, <1>12, <1>13, <1>16, <1>17, <1>18 DEF SentInv

\* A step inside of a call that the driver does not fail spends nothing that matters.
LEMMA InsideBudget ==
  ASSUME SenderInv, SentInv, Inside, UNCHANGED scenario
  PROVE  /\ budget'.faults = 0 /\ budget'.lost = budget.lost /\ budget.lost \in 0 .. scenario.lost
         /\ ~(phase' = "idle" /\ result' = "va")
  <1> DEFINE fault == IF phase' = "idle" /\ result' = "va" THEN 1 ELSE 0
             coded == IF phase = "ready" THEN 1 ELSE 0
  <1>1. budget' = [budget EXCEPT !.coded = @ - coded, !.faults = @ - fault] /\ fault <= budget.faults
    BY DEF Inside
  <1>2. budget.faults = 0 /\ budget.lost \in 0 .. scenario.lost /\ budget \in Budgets
    BY DEF SentInv, SenderInv
  <1>3. fault = 0 /\ ~(phase' = "idle" /\ result' = "va")
    BY <1>1, <1>2
  <1>4. coded \in Int
    OBVIOUS
  <1> HIDE DEF fault, coded
  <1>5. budget'.lost = budget.lost /\ budget'.faults = budget.faults - 0
    BY <1>1, <1>2, <1>3, <1>4 DEF Budgets
  <1> QED
    BY <1>2, <1>3, <1>5

\* What the encoder coded is younger than what the decoder has, by the pictures lost.
LEMMA BehindFits ==
  ASSUME SenderInv, Steady(scenario), prevRefFrameNum \in 0 .. MaxFrameNum - 1,
         budget.lost \in 0 .. scenario.lost,
         NEW c, Sent(c), c.sps \in scenario.sps, ~c.idr, c.sps.support = "ok", InStep(c.ref)
  PROVE  Fits(c)
  <1>1. CASE NoneKept
    BY <1>1 DEF Fits
  <1>2. CASE Refused
    BY <1>2 DEF Refused, Sent
  <1>3. CASE ~NoneKept /\ ~Refused
    <2>m. PICK M \in Nat : M = MaxFrameNum /\ M > 1
      BY Counting
    <2>e. PICK f \in 0 .. M - 1 : f = c.frameNum
      BY <2>m DEF Sent
    <2>p. PICK p \in 0 .. M - 1 : p = prevRefFrameNum
      BY <2>m
    <2>1. enc.frameNum = IF c.ref THEN f ELSE NumberBefore(f, M)
      BY <2>m, <2>e DEF Sent
    <2>2. PICK lost : lost = scenario.lost - budget.lost
      OBVIOUS
    <2>3. IF c.ref THEN Age(f, p, M) \in 1 .. lost + 1
                   ELSE Age(NumberBefore(f, M), p, M) \in 0 .. lost
      BY <1>3, <2>m, <2>p, <2>1, <2>2 DEF InStep
    <2>4. IF c.sps.gapsAllowed THEN ~scenario.nonRefs ELSE scenario.lost = 0
      BY DEF Steady
    <2>5. CASE c.sps.gapsAllowed
      <3>1. c.ref
        BY <2>4, <2>5 DEF Sent
      <3>2. f # p
        BY <2>3, <3>1 DEF Age
      <3> QED
        BY <2>5, <2>e, <2>p, <3>2 DEF Fits
    <2>6. CASE ~c.sps.gapsAllowed
      <3>1. lost = 0
        BY <2>2, <2>4, <2>6
      <3>2. f = NumberAfter(p, M)
        <4>1. CASE c.ref
          <5>1. Age(f, p, M) = 1
            BY <2>3, <3>1, <4>1
          <5> QED
            BY <2>m, <5>1 DEF Age, NumberAfter
        <4>2. CASE ~c.ref
          <5>1. Age(NumberBefore(f, M), p, M) = 0
            BY <2>3, <3>1, <4>2
          <5> QED
            BY <2>m, <5>1 DEF Age, NumberAfter, NumberBefore
        <4> QED
          BY <4>1, <4>2
      <3> QED
        BY <2>6, <2>m, <2>e, <2>p, <3>2 DEF Fits
    <2> QED
      BY <2>5, <2>6
  <1> QED
    BY <1>1, <1>2, <1>3

\* The only slice of an access unit is its first, and none is left behind it.
LEMMA OnlySlice ==
  ASSUME NEW S, NEW s \in Seq(S), Len(s) = 1
  PROVE  Head(s) = s[1] /\ Head(s) \in S /\ Tail(s) = <<>>
  <1>1. Head(s) = s[1] /\ Head(s) \in S
    OBVIOUS
  <1>2. \A t \in Seq(S) : Len(t) = 0 => t = <<>>
    OBVIOUS
  <1>3. Tail(s) \in Seq(S) /\ Len(Tail(s)) = 0
    OBVIOUS
  <1> QED
    BY <1>1, <1>2, <1>3

\* begin_picture for the slice on the way refuses its parameter set, or comes to
\* its frame_num check.
LEMMA ReadSent ==
  ASSUME SenderInv, IInv, SentInv, Steady(scenario), prevRefFrameNum \in 0 .. MaxFrameNum - 1,
         Inside, ReadSlice, UNCHANGED <<scenario, enc>>
  PROVE  SentInv'
  <1>1. phase = "idle" /\ read = NoSlice /\ units # <<>> /\ Len(units) = 1
    BY DEF ReadSlice, SentInv
  <1>2. PICK c : c = units[1].picture
    OBVIOUS
  <1>3. Sent(c) /\ (c.idr \/ InStep(c.ref))
    BY <1>1, <1>2 DEF SentInv
  <1>a. units \in Seq(Arriving(scenario))
    BY DEF SenderInv, OnTheWay
  <1>4. Head(units) = units[1] /\ Head(units) \in Arriving(scenario)
    BY <1>1, <1>a, OnlySlice
  <1>5. Tail(units) = <<>>
    BY <1>1, <1>a, OnlySlice
  <1>6. BeginWith(Head(units), <<>>)
    BY <1>1, <1>5 DEF ReadSlice
  <1>7. BeginPicture(c) /\ units' = <<>> /\ (phase' = "idle" => read' = NoSlice)
    BY <1>2, <1>4, <1>6 DEF BeginWith
  <1>8. c.sps \in scenario.sps /\ c \in CodedPicture
    BY <1>2, <1>4 DEF Arriving, Coming
  <1>9. /\ budget'.faults = 0 /\ budget'.lost = budget.lost /\ budget.lost \in 0 .. scenario.lost
        /\ ~(phase' = "idle" /\ result' = "va")
    BY InsideBudget
  <1>10. enc'.frameNum \in 0 .. MaxFrameNum - 1 /\ Sent(c)'
    BY <1>3 DEF SentInv, Sent
  <1>11. CASE RefuseSps(c.sps) /\ UNCHANGED prevRefFrameNum
    <2>1. c.sps.support # "ok" /\ phase' = "idle"
      BY <1>11 DEF RefuseSps, Fail
    <2>2. Refused'
      BY <1>10, <2>1 DEF Refused, Sent
    <2>3. InStep(FALSE)'
      BY <2>2 DEF InStep
    <2> QED
      BY <1>7, <1>9, <1>10, <2>1, <2>3, SentOutside
  <1>12. CASE RebuildSequence(c.sps, FALSE) /\ Fail("va")
    BY <1>9, <1>12 DEF Fail
  <1>13. CASE /\ KeepSequence(c.sps) \/ RebuildSequence(c.sps, TRUE)
              /\ prevRefFrameNum' = IF c.idr THEN 0 ELSE prevRefFrameNum
              /\ phase' = "gap"
              /\ slice' = c
    <2>1. c.sps.support = "ok"
      BY <1>13 DEF KeepSequence, RebuildSequence
    <2>2. Refs(dpb'.entries) \in {Refs(dpb.entries), {}}
      <3> DEFINE l == SetLimits(dpb, c.sps.maxDpbFrames, ReorderLimit(c.sps))
      <3>1. l.entries = dpb.entries /\ Clear(l).entries = NoEntries
        BY Facts DEF SetLimits, Clear, DpbUpTo
      <3>2. dpb' \in {l, Clear(l)}
        BY <1>13 DEF KeepSequence, RebuildSequence
      <3> HIDE DEF l
      <3>3. Refs(NoEntries) = {}
        BY DEF Refs, NoEntries
      <3> QED
        BY <3>1, <3>2, <3>3
    <2>3. Fits(c)'
      <3>1. CASE c.idr
        BY <3>1 DEF Fits
      <3>2. CASE ~c.idr
        <4>1. Fits(c)
          BY <1>3, <1>8, <1>9, <2>1, <3>2, BehindFits
        <4>2. prevRefFrameNum' = prevRefFrameNum /\ (NoneKept => NoneKept')
          BY <1>13, <2>2, <3>2 DEF NoneKept
        <4> QED
          BY <4>1, <4>2 DEF Fits
      <3> QED
        BY <3>1, <3>2
    <2>4. Sent(slice)' /\ Fits(slice)'
      BY <1>10, <1>13, <2>3 DEF Sent, Fits
    <2>5. budget'.lost \in 0 .. scenario'.lost
      BY <1>9
    <2> QED
      BY <1>7, <1>9, <1>10, <1>13, <2>4, <2>5 DEF SentInv
  <1> QED
    BY <1>7, <1>11, <1>12, <1>13 DEF BeginPicture

\* No reference is kept while none is stored or invented.
LEMMA NoneStays ==
  ASSUME IInv, WindowInv, SlidingOnly, NoneKept,
         StartPicture(TRUE) \/ MarkReference, ~slice.idr
  PROVE  NoneKept'
  <1>1. /\ dpb \in DpbUpTo(pictures) /\ dpb.entries \in EntriesUpTo(pictures) /\ pictures \in Nat
        /\ AllUsed(dpb.entries)
    BY Facts DEF WindowInv
  <1>2. slice \in CodedPicture /\ slice.sps \in SequenceInfo
    BY SpsAssumption DEF IInv, TypeOK, CodedPicture, StartPicture, MarkReference
  <1>3. CASE StartPicture(TRUE)
    <2> DEFINE e == UpdatePicNums(dpb.entries, slice.frameNum, slice.sps.maxFrameNum)
    <2>1. dpb' = [dpb EXCEPT !.entries = e]
      BY <1>3 DEF StartPicture
    <2>2. slice.frameNum \in Nat /\ slice.sps.maxFrameNum \in Nat
      BY <1>2 DEF CodedPicture, SequenceInfo
    <2>3. Refs(e) = Refs(dpb.entries)
      BY <1>1, <2>2, UpdatePicNumsLined
    <2> HIDE DEF e
    <2>4. dpb'.entries = e
      BY <1>1, <2>1 DEF DpbUpTo
    <2> QED
      BY <2>3, <2>4 DEF NoneKept
  <1>4. CASE MarkReference
    <2> DEFINE w == SlidingWindowMarking(dpb.entries, slice.sps.maxNumRefFrames)
    <2>1. ~slice.adaptive /\ slice.ref \in BOOLEAN /\ slice.sps.maxNumRefFrames \in Nat
      BY <1>2, <1>4 DEF MarkReference, SlidingOnly, WindowOnly, CodedPicture, SequenceInfo
    <2>2. dpb' \in {dpb, [dpb EXCEPT !.entries = w]}
      BY <1>4, <2>1, Zenon DEF MarkReference
    <2>3. w = dpb.entries
      <3>1. Cardinality(Refs(dpb.entries)) = 0
        BY FS_EmptySet DEF NoneKept
      <3>2. PICK limit \in Nat :
               /\ limit = IF slice.sps.maxNumRefFrames > 1 THEN slice.sps.maxNumRefFrames ELSE 1
               /\ limit > 0
        BY <2>1
      <3>3. 0 - limit + 1 <= 0
        BY <3>2
      <3> QED
        BY <3>1, <3>2, <3>3, Zenon DEF SlidingWindowMarking
    <2> HIDE DEF w
    <2> QED
      BY <1>1, <2>2, <2>3 DEF NoneKept, DpbUpTo
  <1> QED
    BY <1>3, <1>4

\* A picture nothing refers to changes no reference when it is stored.
LEMMA StoreBeside ==
  ASSUME IInv, OutputInv, WindowInv, NoneKept, StorePicture, ~slice.ref
  PROVE  NoneKept'
  <1> DEFINE bumped == BumpedAsNeeded(dpb, pic)
             e      == Bump(dpb.entries, bumped)
             room   == [dpb EXCEPT !.entries = Bump(@, bumped)]
  <1>1. phase = "marking" /\ ~pic.mmco5 /\ pic.ref = "None"
    BY DEF StorePicture, WindowInv
  <1>2. dpb' = IF HasEmptyFrameBuffer(room)
               THEN Store(room, pictures, pic, sequence.gen) ELSE room
    BY <1>1 DEF StorePicture
  <1>3. /\ dpb.entries \in EntriesUpTo(pictures - 1) /\ AllUsed(dpb.entries) /\ pictures - 1 \in Nat
        /\ dpb \in DpbUpTo(pictures) /\ pictures \in Nat
    BY <1>1, Facts DEF OutputInv, NewNumber, WindowInv, IInv, InTheMaking
  <1>4. e \in EntriesUpTo(pictures - 1) /\ Refs(e) = {}
    BY <1>3, BumpFrom, BumpLined DEF NoneKept
  <1>5. room \in DpbUpTo(pictures) /\ room.entries = e
    <2>1. e \in EntriesUpTo(pictures)
      BY <1>3, Facts, BumpFrom DEF DpbUpTo
    <2>2. room = [dpb EXCEPT !.entries = e]
      OBVIOUS
    <2> HIDE DEF e, room
    <2> QED
      BY <1>3, <2>1, <2>2 DEF DpbUpTo
  <1> HIDE DEF e, room
  <1>6. pictures \notin DOMAIN e
    BY <1>3, <1>4, EntriesElim
  <1>7. NewEntry(pic, sequence.gen).ref = "None"
    BY <1>1 DEF NewEntry
  <1>8. CASE HasEmptyFrameBuffer(room)
    <2>1. dpb'.entries = Plus(e, pictures, NewEntry(pic, sequence.gen))
      BY <1>2, <1>3, <1>5, <1>8, StorePlus
    <2> QED
      BY <1>4, <1>6, <1>7, <2>1, PlusNone DEF NoneKept
  <1>9. CASE ~HasEmptyFrameBuffer(room)
    BY <1>2, <1>4, <1>5, <1>9 DEF NoneKept
  <1> QED
    BY <1>8, <1>9

\* A gap that the parameter set rules out has no reference to be missed.
LEMMA RefuseGapSent ==
  ASSUME SentInv, NumberInv(MaxFrameNum), RefuseGap
  PROVE  phase' = "idle" /\ NoneKept'
  <1>1. /\ phase = "gap" /\ ~slice.sps.gapsAllowed /\ phase' = "idle" /\ UNCHANGED dpb
        /\ slice.frameNum # prevRefFrameNum /\ slice.frameNum # unused
    BY DEF RefuseGap, GapPending, Fail
  <1>2. Sent(slice) /\ Fits(slice)
    BY <1>1 DEF SentInv
  <1>3. ~slice.idr
    BY <1>1, <1>2 DEF NumberInv, Sent
  <1>4. unused = NumberAfter(prevRefFrameNum, MaxFrameNum)
    BY <1>1, <1>3 DEF NumberInv
  <1>5. NoneKept
    BY <1>1, <1>2, <1>3, <1>4 DEF Fits
  <1> QED
    BY <1>1, <1>5 DEF NoneKept

\* A picture that is stored is caught up with.
LEMMA StoreSent ==
  ASSUME SenderInv, IInv, OutputInv, WindowInv, WindowInv', SentInv, Steady(scenario),
         NumberInv(MaxFrameNum), StorePicture, budget.lost \in 0 .. scenario.lost,
         budget'.lost = budget.lost, enc'.frameNum = enc.frameNum, UNCHANGED scenario
  PROVE  phase' = "ready" /\ InStep(FALSE)'
  <1>1. /\ phase = "marking" /\ ~pic.mmco5
        /\ prevRefFrameNum' = IF IsRef(pic) THEN pic.frameNum ELSE prevRefFrameNum
        /\ phase' = "ready"
    BY DEF StorePicture, Submitted, Fail, WindowInv
  <1>2. /\ Sent(slice) /\ Fits(slice)
        /\ slice \in CodedPicture /\ slice.sps \in scenario.sps
    BY <1>1, SliceComes DEF SentInv
  <1>3. /\ pic.ref = IF slice.ref THEN "ShortTerm" ELSE "None"
        /\ pic.frameNum = slice.frameNum
    BY <1>1 DEF WindowInv, NumberInv
  <1>m. PICK M \in Nat : M = MaxFrameNum /\ M > 1
    BY Counting
  <1>4. PICK f \in 0 .. M - 1 : f = slice.frameNum
    BY <1>2, <1>m DEF Sent
  <1>5. PICK p \in 0 .. M - 1 : p = prevRefFrameNum
    BY <1>m DEF NumberInv
  <1>6. scenario'.lost - budget'.lost \in Nat
    BY ScenarioAssumption DEF SenderInv
  <1>7. CASE slice.ref
    <2>1. prevRefFrameNum' = f /\ enc'.frameNum = f
      BY <1>1, <1>2, <1>3, <1>4, <1>7 DEF IsRef, Sent
    <2>2. Age(f, f, M) = 0
      BY DEF Age
    <2> QED
      BY <1>1, <1>m, <1>6, <2>1, <2>2 DEF InStep
  <1>8. CASE ~slice.ref
    <2>1. prevRefFrameNum' = p /\ enc'.frameNum = NumberBefore(f, M)
      BY <1>1, <1>2, <1>3, <1>4, <1>5, <1>m, <1>8 DEF IsRef, Sent
    <2>2. ~slice.idr /\ ~slice.sps.gapsAllowed
      BY <1>2, <1>8 DEF Sent, Steady
    <2>3. CASE NoneKept
      BY <1>1, <1>8, <2>3, StoreBeside DEF InStep
    <2>4. CASE f = NumberAfter(p, M)
      <3>1. NumberBefore(f, M) = p
        BY <1>m, <2>4, Ages
      <3>2. Age(p, p, M) = 0
        BY DEF Age
      <3> QED
        BY <1>1, <1>m, <1>6, <2>1, <3>1, <3>2 DEF InStep
    <2> QED
      BY <1>2, <1>4, <1>5, <1>m, <2>2, <2>3, <2>4 DEF Fits
  <1> QED
    BY <1>7, <1>8

\* The steps of begin_picture and finish_picture.
LEMMA ProceedSent ==
  ASSUME SenderInv, IInv, OutputInv, WindowInv, WindowInv', SlidingOnly, SentInv, Steady(scenario),
         NumberInv(MaxFrameNum), Inside, Proceed, UNCHANGED scenario,
         enc' = IF phase = "marking" /\ phase' = "ready" /\ IsRef(pic)
                THEN [enc EXCEPT !.got = @ \cup {slice.frameNum}] ELSE enc
  PROVE  SentInv'
  <1>1. /\ budget'.faults = 0 /\ budget'.lost = budget.lost /\ budget.lost \in 0 .. scenario.lost
        /\ ~(phase' = "idle" /\ result' = "va")
    BY InsideBudget
  <1>2. enc'.frameNum = enc.frameNum /\ enc'.frameNum \in 0 .. MaxFrameNum - 1
    BY DEF SenderInv, EncoderTyped, SentInv
  <1>3. /\ units' = IF phase' = "idle" THEN <<>> ELSE units
        /\ read' = IF phase' = "idle" THEN NoSlice ELSE read
    BY DEF Proceed, RestOfUnit
  <1>4. CASE RefuseGap
    BY <1>1, <1>2, <1>3, <1>4, RefuseGapSent, SentOutside DEF InStep
  <1>5. CASE FillGap
    <2>1. /\ phase = "gap" /\ slice.sps.gapsAllowed /\ slice.frameNum # prevRefFrameNum
          /\ phase' = "gap" /\ UNCHANGED <<slice, prevRefFrameNum>>
      BY <1>5 DEF FillGap, GapPending, Fail, WindowInv
    <2>2. Fits(slice)'
      BY <2>1 DEF Fits
    <2>3. units' = <<>> /\ enc' = enc
      BY <1>3, <2>1 DEF SentInv
    <2> QED
      BY <1>1, <2>1, <2>2, <2>3, SentInside
  <1>6. ASSUME NEW allocated \in BOOLEAN, StartPicture(allocated)
        PROVE  SentInv'
    <2>1. /\ phase = "gap" /\ StartPicture(TRUE) /\ phase' = "picture"
          /\ UNCHANGED <<slice, prevRefFrameNum>>
      BY <1>1, <1>6 DEF StartPicture, Fail
    <2>2. Fits(slice)
      BY <2>1 DEF SentInv
    <2>3. Fits(slice)'
      BY <2>1, <2>2, NoneStays DEF Fits
    <2>4. units' = <<>> /\ enc' = enc
      BY <1>3, <2>1 DEF SentInv
    <2> QED
      BY <1>1, <2>1, <2>3, <2>4, SentInside
  <1>7. CASE Mmco
    BY <1>7 DEF Mmco, WindowInv
  <1>8. CASE StorePicture
    <2>1. phase' = "ready" /\ InStep(FALSE)'
      BY <1>1, <1>2, <1>8, StoreSent
    <2>2. phase = "marking" /\ units = <<>> /\ read = NoSlice
      BY <1>8 DEF StorePicture, SentInv
    <2> QED
      BY <1>1, <1>2, <1>3, <2>1, <2>2, SentOutside
  <1> QED
    BY <1>4, <1>5, <1>6, <1>7, <1>8 DEF Proceed

\* The rest of the calls.
LEMMA CallSent ==
  ASSUME SenderInv, IInv, WindowInv, SlidingOnly, SentInv, UNCHANGED scenario,
         \/ (DecodeSlice \/ EndUnit \/ Take) /\ UNCHANGED <<enc, budget>>
         \/ MCReset
  PROVE  SentInv'
  <1>0. /\ enc.frameNum \in 0 .. MaxFrameNum - 1 /\ budget.faults = 0
        /\ budget.lost \in 0 .. scenario.lost
    BY DEF SentInv
  <1>1. CASE DecodeSlice /\ UNCHANGED <<enc, budget>>
    <2>1. /\ phase = "picture" /\ units = <<>> /\ read' = NoSlice
          /\ UNCHANGED <<vars, units, enc, budget, scenario>>
      BY <1>1 DEF DecodeSlice, SentInv
    <2>2. Fits(slice)'
      BY <2>1 DEF SentInv, Fits, NoneKept, vars
    <2> QED
      BY <1>0, <2>1, <2>2, SentInside DEF vars
  <1>2. CASE EndUnit /\ UNCHANGED <<enc, budget>>
    <2>1. /\ phase = "picture" /\ MarkReference /\ phase' = "marking"
          /\ units' = <<>> /\ read' = NoSlice
          /\ UNCHANGED <<slice, prevRefFrameNum, enc, budget, scenario>>
      BY <1>2 DEF EndUnit, MarkReference
    <2>2. Fits(slice)
      BY <2>1 DEF SentInv
    <2>3. Fits(slice)'
      BY <2>1, <2>2, NoneStays DEF Fits
    <2> QED
      BY <1>0, <2>1, <2>3, SentInside
  <1>3. CASE Take /\ UNCHANGED <<enc, budget>>
    <2>1. /\ phase \in {"idle", "ready"} /\ phase' \in {"idle", "ready"}
          /\ units = <<>> /\ units' = <<>> /\ read' = NoSlice
          /\ UNCHANGED <<dpb, prevRefFrameNum, enc, budget, scenario>>
      BY <1>3 DEF Take, TakeFrames, SubmitParameterSets
    <2>2. InStep(FALSE)
      BY <2>1 DEF SentInv
    <2>3. InStep(FALSE)'
      BY <2>1, <2>2 DEF InStep, NoneKept, Refused
    <2> QED
      BY <1>0, <2>1, <2>3, SentOutside
  <1>4. CASE MCReset
    <2>1. /\ phase = "idle" /\ units' = <<>> /\ phase' = "ready" /\ dpb' = Clear(dpb)
          /\ read' = read
          /\ budget' = [budget EXCEPT !.flushes = @ - 1]
          /\ enc' = [enc EXCEPT !.got = {}]
      BY <1>4 DEF MCReset, Outside, Reset, Spend
    <2>2. read' = NoSlice
      BY <2>1 DEF SentInv
    <2>3. budget'.lost = budget.lost /\ budget'.faults = budget.faults
      BY <2>1 DEF SenderInv, Budgets
    <2>4. enc'.frameNum = enc.frameNum
      BY <2>1 DEF SenderInv, EncoderTyped
    <2>5. dpb'.entries = NoEntries
      BY <2>1, Facts DEF Clear, DpbUpTo
    <2>6. InStep(FALSE)'
      BY <2>5 DEF InStep, NoneKept, Refs, NoEntries
    <2> QED
      BY <1>0, <2>1, <2>2, <2>3, <2>4, <2>6, SentOutside
  <1> QED
    BY <1>1, <1>2, <1>3, <1>4

\* So every step keeps the decoder in step.
LEMMA NextSent ==
  ASSUME SenderInv, IInv, OutputInv, WindowInv, WindowInv', SlidingOnly, SentInv, Steady(scenario),
         scenario.markings = {}, NumberInv(MaxFrameNum), MCStep, UNCHANGED scenario
  PROVE  SentInv'
  <1>1. prevRefFrameNum \in 0 .. MaxFrameNum - 1
    BY DEF NumberInv
  <1>2. ASSUME NEW c \in Coded, Lose(c) \/ Deliver(c) \/ Continue(c)
        PROVE  SentInv'
    <2>1. ~Continue(c)
      BY DEF Continue, Steady
    <2> QED
      BY <1>1, <1>2, <2>1, LoseSent, DeliverSent
  <1>3. CASE Inside
    <2>1. CASE ReadSlice /\ UNCHANGED enc
      BY <1>1, <1>3, <2>1, ReadSent
    <2>2. CASE NextPicture
      BY <2>2 DEF NextPicture, SentInv
    <2>3. CASE /\ Proceed
               /\ enc' = IF phase = "marking" /\ phase' = "ready" /\ IsRef(pic)
                         THEN [enc EXCEPT !.got = @ \cup {slice.frameNum}] ELSE enc
      BY <1>3, <2>3, ProceedSent
    <2>4. CASE Abandon
      <3>1. phase' = "idle" /\ result' = "va"
        BY <2>4 DEF Abandon, AbandonPicture, Fail
      <3> QED
        BY <1>3, <3>1, InsideBudget
    <2> QED
      BY <1>3, <2>1, <2>2, <2>3, <2>4 DEF Inside
  <1>4. CASE (DecodeSlice \/ EndUnit \/ Take) /\ UNCHANGED <<enc, budget>>
    BY <1>4, CallSent
  <1>5. CASE MCReset
    BY <1>5, CallSent
  <1> QED
    BY <1>2, <1>3, <1>4, <1>5 DEF MCStep

\* The scenario is steady, and leaves the marking to the sliding window.
Plain == Steady(scenario) /\ scenario.markings = {}

\* What the frame numbers depend on then.
SentPlain == Plain => SentInv
NumberPlain == Plain => NumberInv(MaxFrameNum)
FollowPlain == Plain => FramesFollow(MaxFrameNum)

\* What the encoder codes is numbered as NumbersStayApart asks of a stream.
LEMMA SentFollows == SenderInv /\ IInv /\ SentPlain => FollowPlain
  <1> SUFFICES ASSUME SenderInv, IInv, Plain, SentInv
               PROVE  FramesFollow(MaxFrameNum)
    BY DEF SentPlain, FollowPlain
  <1> SUFFICES ASSUME phase \in {"gap", "picture", "marking"}
               PROVE  FramesFollow(MaxFrameNum)
    BY DEF FramesFollow
  <1>1. slice \in CodedPicture /\ slice.sps \in scenario.sps
    BY SliceComes
  <1>2. Sent(slice) /\ Fits(slice)
    BY DEF SentInv
  <1>3. /\ slice.sps.maxFrameNum = MaxFrameNum
        /\ WindowLimit(slice.sps.maxNumRefFrames) < MaxFrameNum
        /\ IF slice.sps.gapsAllowed THEN ~scenario.nonRefs ELSE scenario.lost = 0
    BY <1>1 DEF Plain, Steady
  <1>m. PICK M \in Nat : M = MaxFrameNum /\ M > 1
    BY Counting
  <1>4. slice.idr => slice.frameNum = 0
    BY <1>2 DEF Sent
  <1>5. slice.frameNum < M
    BY <1>2, <1>m DEF Sent
  <1>6. slice.ref \/ ~slice.sps.gapsAllowed
    BY <1>2, <1>3 DEF Sent
  <1>7. ~slice.idr => Refs(dpb.entries) = {} \/ slice.frameNum # prevRefFrameNum
    <2>1. PICK p \in Nat : p = prevRefFrameNum
      BY DEF IInv, TypeOK
    <2>2. NumberAfter(p, M) # p
      BY <1>m DEF NumberAfter
    <2> QED
      BY <1>2, <1>m, <2>1, <2>2 DEF Fits, NoneKept
  <1> QED
    BY <1>3, <1>4, <1>5, <1>6, <1>7, <1>m DEF FramesFollow

\* The driver does not fail in a steady scenario, after a gap or otherwise.
LEMMA GapsClosed ==
  ASSUME SenderInv, SentInv, MCStep, UNCHANGED scenario
  PROVE  GapClosed
  <1> SUFFICES ASSUME phase \in {"gap", "picture"}, phase' = "idle", result' = "va"
               PROVE  FALSE
    BY DEF GapClosed
  <1>1. ~Inside
    BY InsideBudget
  <1>2. ~\E c \in Coded : Lose(c) \/ Deliver(c) \/ Continue(c)
    BY DEF Lose, Deliver, Submit, Continue, Outside, vars
  <1>3. ~((DecodeSlice \/ EndUnit \/ Take) /\ UNCHANGED <<enc, budget>>)
    BY DEF DecodeSlice, EndUnit, MarkReference, Take, TakeFrames, SubmitParameterSets, vars
  <1>4. ~MCReset
    BY DEF MCReset, Outside
  <1> QED
    BY <1>1, <1>2, <1>3, <1>4 DEF MCStep

\* At the start,
LEMMA InitPlain == MCInit => SentPlain /\ NumberPlain
  <1> SUFFICES ASSUME MCInit PROVE SentPlain /\ NumberPlain
    OBVIOUS
  <1>1. Init
    BY DEF MCInit, SubmitInit
  <1>2. NumberInv(MaxFrameNum)
    BY <1>1, InitNumbers, Counting
  <1> QED
    BY <1>2, SentInit DEF SentPlain, NumberPlain, Plain

\* and with every step, the encoder and the decoder are in step.
LEMMA NextPlain ==
  IInv /\ OutputInv /\ SenderInv /\ SlidingInv /\ SlidingInv' /\ SentPlain /\ NumberPlain
     /\ [MCNext]_mcvars
  => SentPlain'
  <1> SUFFICES ASSUME IInv, OutputInv, SenderInv, SlidingInv, SlidingInv', SentPlain, NumberPlain,
                      [MCNext]_mcvars, Plain'
               PROVE  SentInv'
    BY DEF SentPlain
  <1>1. UNCHANGED scenario
    BY DEF MCNext, mcvars
  <1>2. Steady(scenario) /\ scenario.markings = {}
    BY <1>1 DEF Plain, Steady
  <1>3. WindowInv /\ WindowInv' /\ SlidingOnly /\ SentInv /\ NumberInv(MaxFrameNum)
    BY <1>1, <1>2, ScenarioSlides DEF SlidingInv, SentPlain, NumberPlain, Plain
  <1>4. CASE UNCHANGED mcvars
    BY <1>3, <1>4 DEF mcvars, submitVars, vars, SentInv, Sent, InStep, Fits, NoneKept, Refused
  <1>5. CASE MCStep
    BY <1>1, <1>2, <1>3, <1>5, NextSent
  <1> QED
    BY <1>4, <1>5 DEF MCNext

\* The frame numbers follow from what was coded.
LEMMA NextNumberPlain ==
  IInv /\ OutputInv /\ SenderInv /\ SlidingInv /\ SlidingInv' /\ SentPlain /\ NumberPlain
     /\ FollowPlain /\ FollowPlain' /\ [MCNext]_mcvars
  => NumberPlain'
  <1> SUFFICES ASSUME IInv, OutputInv, SenderInv, SlidingInv, SlidingInv', SentPlain, NumberPlain,
                      FollowPlain, FollowPlain', [MCNext]_mcvars, Plain'
               PROVE  NumberInv(MaxFrameNum)'
    BY DEF NumberPlain
  <1>1. UNCHANGED scenario
    BY DEF MCNext, mcvars
  <1>2. Plain /\ Steady(scenario) /\ scenario.markings = {}
    BY <1>1 DEF Plain, Steady
  <1>3. /\ WindowInv /\ WindowInv' /\ SlidingOnly /\ SentInv /\ NumberInv(MaxFrameNum)
        /\ FramesFollow(MaxFrameNum) /\ FramesFollow(MaxFrameNum)'
    BY <1>1, <1>2, ScenarioSlides DEF SlidingInv, SentPlain, NumberPlain, FollowPlain, Plain
  <1>4. [Next]_vars
    BY SenderStep
  <1>5. [GapClosed]_vars
    <2>1. CASE UNCHANGED mcvars
      BY <2>1 DEF mcvars, submitVars
    <2>2. CASE MCStep
      BY <1>1, <1>3, <2>2, GapsClosed
    <2> QED
      BY <2>1, <2>2 DEF MCNext
  <1> QED
    BY <1>3, <1>4, <1>5, NextNumbers, Counting

\* An encoder that numbers its frames as 7.4.3 has it has its references told
\* apart: in a steady scenario, whatever is lost that gaps are allowed for, and
\* across flushes and the wrap of frame_num.
THEOREM FramesToldApart == MCSpec => [](Steady(scenario) => FrameNumUniqueSliding)
<1>1. MCInit => IInv /\ OutputInv
  BY InitIInv, InitOutput DEF MCInit, SubmitInit
<1>2. IInv /\ OutputInv /\ SenderInv /\ SlidingInv /\ [MCNext]_mcvars
         => (IInv /\ OutputInv /\ SenderInv /\ SlidingInv)'
  BY NextIInv, NextOutput, SenderStep, NextSliding
<1>3. SlidingInv /\ NumberPlain => (Steady(scenario) => FrameNumUniqueSliding)
  BY NumbersApart, Counting DEF SlidingInv, NumberPlain, Plain, FrameNumUniqueSliding
<1> QED
  BY <1>1, <1>2, <1>3, SenderInit, InitSliding, InitPlain, SentFollows, NextPlain, NextNumberPlain,
     PTL DEF MCSpec

-----------------------------------------------------------------------------
(* The references of the decoder and those of the encoder *)

\* The frame numbers of the references that are pictures of the stream.
KeptNumbers(d) == {d[i].frameNum : i \in {j \in Refs(d) : ~d[j].nonexisting}}

\* `got` are the frame numbers of the references the decoder was given, e the
\* encoder's, r where the line of the decoder's references begins.  What the
\* decoder keeps, unless it is so old that its number has come round, it was
\* given; and what it was given is no newer than r, and kept unless `room` others
\* are.
Matched(d, got, e, r, room, M) ==
    /\ \A f \in KeptNumbers(d) : Age(e, r, M) <= Age(e, f, M) => f \in got
    /\ \A f \in got : /\ Age(e, r, M) <= Age(e, f, M)
                      /\ Age(e, f, M) < Age(e, r, M) + room => f \in KeptNumbers(d)

\* Ages add up, unless they go all the way round.
LEMMA AgesAdd ==
  ASSUME NEW M \in Nat, M > 1, NEW e \in 0 .. M - 1, NEW r \in 0 .. M - 1, NEW f \in 0 .. M - 1
  PROVE  /\ Age(e, r, M) <= Age(e, f, M) => Age(e, f, M) = Age(e, r, M) + Age(r, f, M)
         /\ Age(e, r, M) <= Age(e, f, M) <=> Age(e, r, M) + Age(r, f, M) < M
         /\ Age(e, r, M) = 0 <=> e = r
         /\ e # r => Age(e, NumberAfter(r, M), M) = Age(e, r, M) - 1
  BY DEF Age, NumberAfter

\* The numbers of references in line.
LEMMA KeptInLine ==
  ASSUME NEW n \in Nat, NEW d \in EntriesUpTo(n), NEW M \in Nat, M > 1, NEW r \in 0 .. M - 1,
         Lined(d, r, M), NEW f \in KeptNumbers(d)
  PROVE  f \in 0 .. M - 1 /\ Age(r, f, M) < Cardinality(Refs(d)) /\ Cardinality(Refs(d)) \in Nat
  <1>1. PICK i \in Refs(d) : f = d[i].frameNum
    BY DEF KeptNumbers
  <1>2. Cardinality(Refs(d)) \in Nat
    BY EntriesFinite, FS_Subset, FS_CardinalityType DEF Refs
  <1> QED
    BY <1>1, <1>2, AgesWithin DEF Lined

\* What leaves the references alone keeps their numbers.
LEMMA KeptSame ==
  ASSUME NEW c, NEW d, From(c, d), RefsFrom(c, d), Refs(c) = Refs(d)
  PROVE  KeptNumbers(c) = KeptNumbers(d)
  <1>1. \A i \in Refs(d) : c[i].frameNum = d[i].frameNum /\ c[i].nonexisting = d[i].nonexisting
    BY DEF From, RefsFrom, Refs
  <1> QED
    BY <1>1 DEF KeptNumbers

\* The encoder goes on by a reference.
LEMMA EncodedMatched ==
  ASSUME NEW M \in Nat, M > 1, NEW e \in 0 .. M - 1, NEW r \in 0 .. M - 1,
         NEW d, KeptNumbers(d) \subseteq 0 .. M - 1, NEW got, got \subseteq 0 .. M - 1,
         NEW room \in Nat, Matched(d, got, e, r, room, M), r # NumberAfter(e, M)
  PROVE  Matched(d, got \ {NumberAfter(e, M)}, NumberAfter(e, M), r, room, M)
  <1> DEFINE a == NumberAfter(e, M)
  <1>1. \A f \in 0 .. M - 1 : /\ Age(e, f, M) \in 0 .. M - 1
                              /\ Age(a, f, M) = IF f = a THEN 0 ELSE Age(e, f, M) + 1
    BY DEF Age, NumberAfter
  <1>2. Age(a, r, M) = Age(e, r, M) + 1 /\ Age(e, r, M) \in Nat
    BY <1>1
  <1>3. ASSUME NEW f \in KeptNumbers(d), Age(a, r, M) <= Age(a, f, M)
        PROVE  f \in got \ {a}
    <2>1. f \in 0 .. M - 1
      OBVIOUS
    <2> HIDE DEF a
    <2>2. f # a /\ Age(e, r, M) <= Age(e, f, M)
      BY <1>1, <1>2, <1>3, <2>1
    <2> QED
      BY <2>2 DEF Matched
  <1>4. ASSUME NEW f \in got \ {a}
        PROVE  /\ Age(a, r, M) <= Age(a, f, M)
               /\ Age(a, f, M) < Age(a, r, M) + room => f \in KeptNumbers(d)
    <2>1. f \in 0 .. M - 1 /\ f # a /\ f \in got
      OBVIOUS
    <2>2. /\ Age(e, r, M) <= Age(e, f, M)
          /\ Age(e, f, M) < Age(e, r, M) + room => f \in KeptNumbers(d)
      BY <2>1 DEF Matched
    <2> HIDE DEF a
    <2> QED
      BY <1>1, <1>2, <2>1, <2>2
  <1> QED
    BY <1>3, <1>4 DEF Matched

\* The line begins one later, at a number that the decoder has no picture of.
LEMMA SkippedMatched ==
  ASSUME NEW M \in Nat, M > 1, NEW e \in 0 .. M - 1, NEW r \in 0 .. M - 1, e # r,
         NEW d, \A f \in KeptNumbers(d) : f \in 0 .. M - 1 /\ f # NumberAfter(r, M),
         NEW got, got \subseteq 0 .. M - 1,
         NEW room \in Nat, Matched(d, got, e, r, room - 1, M)
  PROVE  Matched(d, got, e, NumberAfter(r, M), room, M)
  <1> DEFINE a == NumberAfter(r, M)
  <1>1. \A f \in 0 .. M - 1 : /\ Age(e, f, M) \in 0 .. M - 1
                              /\ Age(e, f, M) = Age(e, a, M) => f = a
    BY DEF Age, NumberAfter
  <1>2. Age(e, a, M) = Age(e, r, M) - 1 /\ Age(e, r, M) \in Nat
    BY <1>1, AgesAdd
  <1>3. ASSUME NEW f \in KeptNumbers(d), Age(e, a, M) <= Age(e, f, M)
        PROVE  f \in got
    <2>1. f \in 0 .. M - 1 /\ f # a
      OBVIOUS
    <2> HIDE DEF a
    <2>2. Age(e, r, M) <= Age(e, f, M)
      BY <1>1, <1>2, <1>3, <2>1
    <2> QED
      BY <2>2 DEF Matched
  <1>4. ASSUME NEW f \in got
        PROVE  /\ Age(e, a, M) <= Age(e, f, M)
               /\ Age(e, f, M) < Age(e, a, M) + room => f \in KeptNumbers(d)
    <2>1. f \in 0 .. M - 1
      OBVIOUS
    <2>2. /\ Age(e, r, M) <= Age(e, f, M)
          /\ Age(e, f, M) < Age(e, r, M) + (room - 1) => f \in KeptNumbers(d)
      BY <2>1 DEF Matched
    <2> HIDE DEF a
    <2> QED
      BY <1>1, <1>2, <2>1, <2>2
  <1> QED
    BY <1>3, <1>4 DEF Matched

\* The decoder has caught up, and keeps the encoder's picture.
LEMMA CaughtUpMatched ==
  ASSUME NEW M \in Nat, M > 1, NEW e \in 0 .. M - 1,
         NEW d, NEW c, KeptNumbers(c) = KeptNumbers(d) \cup {e},
         \A f \in KeptNumbers(d) : f \in 0 .. M - 1 /\ f # e,
         NEW got, got \subseteq 0 .. M - 1,
         NEW room \in Nat, Matched(d, got, e, NumberBefore(e, M), room - 1, M)
  PROVE  Matched(c, got \cup {e}, e, e, room, M)
  <1> DEFINE b == NumberBefore(e, M)
  <1>1. \A f \in 0 .. M - 1 : /\ Age(e, f, M) \in 0 .. M - 1
                              /\ Age(e, f, M) = 0 <=> f = e
    BY DEF Age
  <1>2. Age(e, b, M) = 1
    BY DEF Age, NumberBefore
  <1>3. \A f \in KeptNumbers(d) : f \in got
    <2> SUFFICES ASSUME NEW f \in KeptNumbers(d) PROVE f \in got
      OBVIOUS
    <2> HIDE DEF b
    <2>1. Age(e, b, M) <= Age(e, f, M)
      BY <1>1, <1>2
    <2> QED
      BY <2>1 DEF Matched, b
  <1>4. ASSUME NEW f \in got
        PROVE  Age(e, f, M) < room => f \in KeptNumbers(d)
    <2>1. Age(e, f, M) < Age(e, b, M) + (room - 1) => f \in KeptNumbers(d)
      BY DEF Matched
    <2> HIDE DEF b
    <2> QED
      BY <1>1, <1>2, <2>1
  <1>5. Age(e, e, M) = 0
    BY <1>1
  <1>6. \A f \in got \cup {e} : Age(e, f, M) \in Nat
    BY <1>1
  <1> QED
    BY <1>3, <1>4, <1>5, <1>6 DEF Matched

\* The sliding window takes what is beyond it.
LEMMA WindowMatched ==
  ASSUME NEW n \in Nat, NEW d \in EntriesUpTo(n), AllUsed(d), NEW max \in Nat, max > 0,
         NEW M \in Nat, M > 1, NEW r \in 0 .. M - 1, InLine(d, r, M),
         Renumbered(d, NumberAfter(r, M), M), NEW e \in 0 .. M - 1,
         NEW got, got \subseteq 0 .. M - 1, Matched(d, got, e, r, max, M)
  PROVE  /\ KeptNumbers(SlidingWindowMarking(d, max)) \subseteq KeptNumbers(d)
         /\ Matched(SlidingWindowMarking(d, max), got, e, r, max - 1, M)
  <1> DEFINE w == SlidingWindowMarking(d, max)
  <1>1. From(w, d) /\ RefsFrom(w, d)
    BY SlidingWindowFrom, WindowLined DEF InLine
  <1>2. \A i \in Refs(d) : Age(r, d[i].frameNum, M) < max - 1 => i \in Refs(w)
    <2>1. WindowLimit(max) = max
      BY DEF WindowLimit
    <2> QED
      BY <2>1, WindowKeeps DEF InLine
  <1> HIDE DEF w
  <1>3. \A i \in Refs(w) : /\ i \in Refs(d) /\ w[i].frameNum = d[i].frameNum
                           /\ w[i].nonexisting = d[i].nonexisting
    BY <1>1 DEF From, RefsFrom, Refs
  <1>4. KeptNumbers(w) \subseteq KeptNumbers(d)
    BY <1>3 DEF KeptNumbers
  <1>5. \A f \in KeptNumbers(d) : Age(r, f, M) < max - 1 => f \in KeptNumbers(w)
    BY <1>2, <1>3 DEF KeptNumbers
  <1>6. \A f \in KeptNumbers(w) : Age(e, r, M) <= Age(e, f, M) => f \in got
    BY <1>4 DEF Matched
  <1>7. ASSUME NEW f \in got
        PROVE  /\ Age(e, r, M) <= Age(e, f, M)
               /\ Age(e, f, M) < Age(e, r, M) + (max - 1) => f \in KeptNumbers(w)
    <2>1. f \in 0 .. M - 1
      OBVIOUS
    <2>2. /\ Age(e, r, M) <= Age(e, f, M)
          /\ Age(e, f, M) < Age(e, r, M) + max => f \in KeptNumbers(d)
      BY DEF Matched
    <2>3. Age(e, f, M) = Age(e, r, M) + Age(r, f, M)
      BY <2>1, <2>2, AgesAdd
    <2>4. Age(e, r, M) \in Nat /\ Age(r, f, M) \in Nat
      BY <2>1, Ages
    <2> QED
      BY <1>5, <2>2, <2>3, <2>4
  <1> QED
    BY <1>4, <1>6, <1>7 DEF Matched, w

-----------------------------------------------------------------------------
(* The sliding window of the encoder *)

\* refs are the last references it coded, up to e and no more than it may keep;
\* those the decoder was given are among them, or older.
Slides(refs, got, e, width, M) ==
    /\ refs \in Seq(0 .. M - 1) /\ Len(refs) \in 1 .. width
    /\ \A k \in 1 .. Len(refs) : Age(e, refs[k], M) = Len(refs) - k
    /\ \A f \in got : Age(e, f, M) < Len(refs) \/ Len(refs) = width

\* The encoder's window, as a set.
LEMMA SlidesSet ==
  ASSUME NEW M \in Nat, M > 1, NEW e \in 0 .. M - 1, NEW width \in Nat, NEW refs, NEW got,
         Slides(refs, got, e, width, M)
  PROVE  \A f : (\E k \in DOMAIN refs : f = refs[k]) <=> f \in 0 .. M - 1 /\ Age(e, f, M) < Len(refs)
  <1>1. DOMAIN refs = 1 .. Len(refs) /\ Len(refs) \in Nat
        /\ \A k \in 1 .. Len(refs) : refs[k] \in 0 .. M - 1
    BY DEF Slides
  <1>2. \A k \in 1 .. Len(refs) : Age(e, refs[k], M) = Len(refs) - k
    BY DEF Slides
  <1>3. \A f, g \in 0 .. M - 1 : /\ Age(e, f, M) \in Nat
                                 /\ Age(e, f, M) = Age(e, g, M) => f = g
    BY Ages
  <1>4. ASSUME NEW k \in 1 .. Len(refs)
        PROVE  Age(e, refs[k], M) < Len(refs)
    BY <1>1, <1>2, <1>4
  <1>5. ASSUME NEW f \in 0 .. M - 1, Age(e, f, M) < Len(refs)
        PROVE  \E k \in 1 .. Len(refs) : refs[k] = f
    <2>1. PICK k : k = Len(refs) - Age(e, f, M)
      OBVIOUS
    <2>2. k \in 1 .. Len(refs)
      BY <1>1, <1>3, <1>5, <2>1
    <2>3. Age(e, refs[k], M) = Age(e, f, M)
      BY <1>1, <1>2, <1>3, <2>1, <2>2
    <2> QED
      BY <1>1, <1>3, <2>2, <2>3
  <1> QED
    BY <1>1, <1>4, <1>5

\* It goes on by a reference.
LEMMA SlidesOn ==
  ASSUME NEW M \in Nat, M > 1, NEW e \in 0 .. M - 1, NEW width \in 1 .. M - 1, NEW refs,
         NEW got, got \subseteq 0 .. M - 1, Slides(refs, got, e, width, M)
  PROVE  Slides(LastOf(Append(refs, NumberAfter(e, M)), width), got \ {NumberAfter(e, M)},
                NumberAfter(e, M), width, M)
  <1> DEFINE a == NumberAfter(e, M)
             longer == Append(refs, a)
             on == LastOf(longer, width)
             len == Len(refs)
             from == IF len + 1 > width THEN (len + 1) - width + 1 ELSE 1
  <1>1. a \in 0 .. M - 1 /\ Age(a, a, M) = 0
    BY Ages DEF Age
  <1>2. \A f \in 0 .. M - 1 : /\ Age(e, f, M) \in 0 .. M - 1
                              /\ Age(e, f, M) = M - 1 <=> f = a
                              /\ Age(a, f, M) = IF f = a THEN 0 ELSE Age(e, f, M) + 1
    BY DEF Age, NumberAfter
  <1> HIDE DEF a
  <1>3. /\ refs \in Seq(0 .. M - 1) /\ len \in 1 .. width
        /\ \A k \in 1 .. len : refs[k] \in 0 .. M - 1 /\ Age(e, refs[k], M) = len - k
    BY DEF Slides
  <1>4. /\ longer \in Seq(0 .. M - 1) /\ Len(longer) = len + 1
        /\ \A k \in 1 .. len : longer[k] = refs[k]
        /\ longer[len + 1] = a
    BY <1>1, <1>3
  <1>5. \A k \in 1 .. len + 1 : Age(a, longer[k], M) = len + 1 - k
    <2> SUFFICES ASSUME NEW k \in 1 .. len + 1
                 PROVE  Age(a, longer[k], M) = len + 1 - k
      OBVIOUS
    <2>1. CASE k = len + 1
      BY <1>1, <1>3, <1>4, <2>1
    <2>2. CASE k # len + 1
      <3>1. k \in 1 .. len
        BY <1>3, <2>2
      <3>2. refs[k] \in 0 .. M - 1 /\ Age(e, refs[k], M) = len - k /\ longer[k] = refs[k]
        BY <1>3, <1>4, <3>1
      <3>3. refs[k] # a
        <4>1. len - k # M - 1
          BY <1>3, <3>1
        <4> QED
          BY <1>2, <3>2, <4>1
      <3>4. Age(a, refs[k], M) = len - k + 1
        BY <1>2, <3>2, <3>3
      <3> QED
        BY <1>3, <3>1, <3>2, <3>4
    <2> QED
      BY <2>1, <2>2
  <1>6. on = SubSeq(longer, from, len + 1)
    <2> HIDE DEF longer, len
    <2>1. PICK l : l = Len(longer) /\ l = len + 1
      BY <1>4
    <2>2. on = SubSeq(longer, IF l > width THEN l - width + 1 ELSE 1, l)
      BY <2>1, Zenon DEF LastOf
    <2>3. from = IF l > width THEN l - width + 1 ELSE 1
      BY <2>1, Zenon
    <2> HIDE DEF on, from
    <2> QED
      BY <2>1, <2>2, <2>3, Zenon
  <1> HIDE DEF longer
  <1>7. from \in 1 .. len + 1 /\ len + 1 - from + 1 = (IF len + 1 > width THEN width ELSE len + 1)
    BY <1>3
  <1>8. /\ on \in Seq(0 .. M - 1) /\ Len(on) = len + 1 - from + 1
        /\ \A k \in 1 .. Len(on) : on[k] = longer[from + k - 1]
    <2> DEFINE S == 0 .. M - 1
    <2>1. longer \in Seq(S) /\ from \in 1 .. Len(longer) /\ from <= len + 1
      BY <1>3, <1>4, <1>7
    <2> HIDE DEF from, on, S
    <2>2. \A m \in 1 .. Len(longer) :
             /\ SubSeq(longer, m, Len(longer)) \in Seq(S)
             /\ Len(SubSeq(longer, m, Len(longer))) = Len(longer) - m + 1
             /\ \A k \in 1 .. Len(longer) - m + 1 :
                   SubSeq(longer, m, Len(longer))[k] = longer[m + k - 1]
      BY <2>1
    <2>3. /\ on \in Seq(S) /\ Len(on) = Len(longer) - from + 1
          /\ \A k \in 1 .. Len(longer) - from + 1 : on[k] = longer[from + k - 1]
      BY <1>4, <1>6, <2>1, <2>2
    <2> QED
      BY <1>3, <1>4, <1>7, <2>1, <2>3 DEF S
  <1>9. \A k \in 1 .. Len(on) : Age(a, on[k], M) = Len(on) - k
    <2> SUFFICES ASSUME NEW k \in 1 .. Len(on)
                 PROVE  Age(a, on[k], M) = Len(on) - k
      OBVIOUS
    <2> HIDE DEF from, on
    <2>1. from + k - 1 \in 1 .. len + 1
      BY <1>3, <1>7, <1>8
    <2>2. Age(a, longer[from + k - 1], M) = len + 1 - (from + k - 1)
      BY <1>5, <2>1
    <2> QED
      BY <1>3, <1>7, <1>8, <2>1, <2>2
  <1>10. ASSUME NEW f \in got \ {a}
         PROVE  Age(a, f, M) < Len(on) \/ Len(on) = width
    <2>1. Age(e, f, M) < len \/ len = width
      BY DEF Slides
    <2>2. Age(a, f, M) = Age(e, f, M) + 1 /\ Age(e, f, M) \in Nat
      BY <1>2
    <2> HIDE DEF on, from
    <2>3. Len(on) = IF len + 1 > width THEN width ELSE len + 1
      BY <1>7, <1>8
    <2> QED
      BY <1>3, <2>1, <2>2, <2>3
  <1>11. Len(on) \in 1 .. width
    <2> HIDE DEF on, from
    <2> QED
      BY <1>3, <1>7, <1>8
  <1> HIDE DEF on, from
  <1>12. Slides(on, got \ {a}, a, width, M)
    BY <1>8, <1>9, <1>10, <1>11 DEF Slides
  <1> QED
    BY <1>12 DEF on, longer, a

\* The decoder keeps the references of the encoder that it was given.
KeepsTheirs(d, refs, got) == KeptNumbers(d) = {refs[k] : k \in DOMAIN refs} \cap got

\* So it does, once it has caught up.
LEMMA MatchedSets ==
  ASSUME NEW n \in Nat, NEW d \in EntriesUpTo(n), NEW M \in Nat, M > 1, NEW e \in 0 .. M - 1,
         Lined(d, e, M), NEW width \in Nat, Cardinality(Refs(d)) <= width,
         NEW refs, NEW got, got \subseteq 0 .. M - 1,
         Matched(d, got, e, e, width, M), Slides(refs, got, e, width, M)
  PROVE  KeepsTheirs(d, refs, got)
  <1>1. \A f : (\E k \in DOMAIN refs : f = refs[k]) <=> f \in 0 .. M - 1 /\ Age(e, f, M) < Len(refs)
    BY SlidesSet
  <1>2. Len(refs) \in 1 .. width
    BY DEF Slides
  <1>3. Age(e, e, M) = 0 /\ \A f \in 0 .. M - 1 : Age(e, f, M) \in Nat
    BY Ages DEF Age
  <1>4. ASSUME NEW f \in KeptNumbers(d)
        PROVE  f \in got /\ f \in 0 .. M - 1 /\ Age(e, f, M) < Len(refs)
    <2>1. f \in 0 .. M - 1 /\ Age(e, f, M) < Cardinality(Refs(d)) /\ Cardinality(Refs(d)) \in Nat
      BY <1>4, KeptInLine
    <2>2. f \in got
      BY <1>3, <1>4, <2>1 DEF Matched
    <2>3. Age(e, f, M) < Len(refs) \/ Len(refs) = width
      BY <2>2 DEF Slides
    <2> QED
      BY <1>2, <1>3, <2>1, <2>2, <2>3
  <1>5. ASSUME NEW f \in got, Age(e, f, M) < Len(refs)
        PROVE  f \in KeptNumbers(d)
    <2>1. Age(e, f, M) \in Nat /\ Age(e, f, M) < 0 + width
      BY <1>2, <1>3, <1>5
    <2> QED
      BY <1>3, <1>5, <2>1 DEF Matched
  <1>6. \A f : f \in KeptNumbers(d) <=> f \in got /\ \E k \in DOMAIN refs : f = refs[k]
    BY <1>1, <1>4, <1>5
  <1> QED
    BY <1>6 DEF KeepsTheirs

\* No matter how much else differs.
LEMMA MatchedSame ==
  ASSUME NEW c, NEW d, KeptNumbers(c) = KeptNumbers(d), NEW got, NEW e, NEW r, NEW room, NEW M,
         Matched(d, got, e, r, room, M)
  PROVE  Matched(c, got, e, r, room, M)
  BY DEF Matched

\* A picture that is stored is kept if it is a reference and has a surface.
LEMMA PlusKept ==
  ASSUME NEW d, NEW id, id \notin DOMAIN d, NEW new
  PROVE  /\ Refs(Plus(d, id, new)) = IF IsRef(new) THEN Refs(d) \cup {id} ELSE Refs(d)
         /\ KeptNumbers(Plus(d, id, new))
               = IF IsRef(new) /\ ~new.nonexisting THEN KeptNumbers(d) \cup {new.frameNum}
                 ELSE KeptNumbers(d)
  <1> DEFINE p == Plus(d, id, new)
  <1>1. /\ DOMAIN p = DOMAIN d \cup {id} /\ p[id] = new
        /\ \A i \in DOMAIN d : p[i] = d[i]
    BY DEF Plus
  <1> HIDE DEF p
  <1>2. Refs(p) = IF IsRef(new) THEN Refs(d) \cup {id} ELSE Refs(d)
    BY <1>1 DEF Refs
  <1>3. \A i \in Refs(d) : i \in DOMAIN d /\ i # id /\ p[i] = d[i]
    BY <1>1 DEF Refs
  <1>4. KeptNumbers(p) = IF IsRef(new) /\ ~new.nonexisting THEN KeptNumbers(d) \cup {new.frameNum}
                         ELSE KeptNumbers(d)
    <2>1. CASE IsRef(new) /\ ~new.nonexisting
      BY <1>1, <1>2, <1>3, <2>1 DEF KeptNumbers
    <2>2. CASE IsRef(new) /\ new.nonexisting
      BY <1>1, <1>2, <1>3, <2>2 DEF KeptNumbers
    <2>3. CASE ~IsRef(new)
      BY <1>1, <1>2, <1>3, <2>3 DEF KeptNumbers
    <2> QED
      BY <2>1, <2>2, <2>3
  <1> QED
    BY <1>2, <1>4 DEF p

\* References in line back from r have not the number after r.
LEMMA KeptBefore ==
  ASSUME NEW n \in Nat, NEW d \in EntriesUpTo(n), NEW M \in Nat, M > 1, NEW r \in 0 .. M - 1,
         InLine(d, r, M), NEW f \in KeptNumbers(d)
  PROVE  f \in 0 .. M - 1 /\ f # NumberAfter(r, M)
  <1>1. f \in 0 .. M - 1 /\ Age(r, f, M) < Cardinality(Refs(d)) /\ Cardinality(Refs(d)) \in Nat
        /\ Cardinality(Refs(d)) < M
    BY KeptInLine DEF InLine
  <1>2. Age(r, f, M) \in 0 .. M - 1 /\ (Age(r, f, M) = M - 1 <=> f = NumberAfter(r, M))
    BY <1>1, Ages
  <1> QED
    BY <1>1, <1>2

\* Nothing kept and nothing given match.
LEMMA NothingKept ==
  ASSUME NEW d, Refs(d) = {}
  PROVE  KeptNumbers(d) = {} /\ Cardinality(Refs(d)) = 0
  BY FS_EmptySet DEF KeptNumbers

-----------------------------------------------------------------------------
(* The invariant *)

\* Every window of the scenario has room for a reference: of an encoder without any
\* the decoder keeps one all the same.
Wide(s) == \A sps \in s.sps : sps.maxNumRefFrames > 0

\* Where the line of the decoder's references begins.
Newest ==
    CASE phase = "gap" -> NumberBefore(unused, MaxFrameNum)
      [] phase \in {"picture", "marking"} /\ slice.ref -> NumberBefore(slice.frameNum, MaxFrameNum)
      [] OTHER -> prevRefFrameNum

\* An IDR picture is on the way, or before the DPB is cleared for it.
Due == units # <<>> /\ units[1].picture.idr

\* It is on the way still once its gap is being closed.
Renewing == Due \/ (phase = "gap" /\ slice.idr)

\* The decoder's references are the encoder's that it was given, as far as it has
\* come; there is room for the picture in flight once reference_pic_marking has run.
Matches(width) ==
    LET making == phase = "marking" /\ slice.ref
    IN /\ Cardinality(Refs(dpb.entries)) <= width
       /\ NoneKept /\ ~making => enc.got = {}
       /\ phase = "gap" /\ slice.ref => NoneKept \/ enc.frameNum # Newest
       /\ Matched(dpb.entries, enc.got, enc.frameNum, Newest,
                  IF making THEN width - 1 ELSE width, MaxFrameNum)

\* The decoder is ready for the encoder's pictures, or refuses all of them.
MatchInv ==
    /\ enc.got \subseteq 0 .. MaxFrameNum - 1
    /\ phase \in {"gap", "picture", "marking"} => slice.sps.support = "ok"
    /\ Renewing => enc.got = {}
    /\ ~Refused /\ ~Due => \A sps \in enc.sps : SameFormat(sps)
    /\ ~Refused /\ ~Renewing => \A sps \in enc.sps : Matches(sps.maxNumRefFrames)
    /\ \A sps \in enc.sps :
          Slides(enc.refs, enc.got, enc.frameNum, sps.maxNumRefFrames, MaxFrameNum)

\* With nothing kept and nothing given there is nothing to match.
LEMMA NoneMatches ==
  ASSUME NoneKept', enc'.got = {}, NEW width \in Nat
  PROVE  Matches(width)'
  <1>1. KeptNumbers(dpb'.entries) = {} /\ Cardinality(Refs(dpb'.entries)) = 0
    BY NothingKept DEF NoneKept
  <1>2. \A e, r, room, M : Matched(dpb'.entries, {}, e, r, room, M)
    BY <1>1 DEF Matched
  <1> QED
    BY <1>1, <1>2 DEF Matches, NoneKept

\* What a step that leaves the encoder alone has to keep.
LEMMA MatchOn ==
  ASSUME MatchInv, UNCHANGED <<enc, sequence>>, units = <<>>, units' = <<>>,
         phase' \in {"gap", "picture", "marking"} => slice'.sps.support = "ok",
         ~(phase' = "gap" /\ slice'.idr),
         ~Refused => \A sps \in enc.sps : Matches(sps.maxNumRefFrames)'
  PROVE  MatchInv'
  <1>1. ~Due /\ ~Due' /\ ~Renewing'
    BY DEF Due, Renewing
  <1>2. Refused' = Refused
    BY DEF Refused
  <1> QED
    BY <1>1, <1>2 DEF MatchInv, SameFormat

\* What the parameter sets of a scenario are like.
LEMMA WideSets ==
  ASSUME SenderInv, Steady(scenario), Wide(scenario), NEW sps \in scenario.sps
  PROVE  /\ sps \in SequenceInfo /\ sps.maxNumRefFrames \in 1 .. MaxFrameNum - 1
         /\ WindowLimit(sps.maxNumRefFrames) = sps.maxNumRefFrames
         /\ sps.maxFrameNum = MaxFrameNum
  <1>1. sps \in SequenceInfo
    BY SpsAssumption, ScenarioAssumption DEF SenderInv
  <1>2. sps.maxNumRefFrames \in Nat /\ sps.maxNumRefFrames > 0
    BY <1>1 DEF SequenceInfo, Wide
  <1>3. WindowLimit(sps.maxNumRefFrames) = sps.maxNumRefFrames
    BY <1>2 DEF WindowLimit
  <1>4. sps.maxNumRefFrames < MaxFrameNum /\ sps.maxFrameNum = MaxFrameNum
    BY <1>3 DEF Steady
  <1> QED
    BY <1>1, <1>2, <1>3, <1>4, Counting

\* The line of references begins at Newest.
LEMMA NewestInLine ==
  ASSUME NumberInv(MaxFrameNum), ~(phase = "gap" /\ slice.idr),
         phase \in {"idle", "gap", "picture", "marking", "ready"}
  PROVE  Newest \in 0 .. MaxFrameNum - 1 /\ InLine(dpb.entries, Newest, MaxFrameNum)
  <1>m. PICK M \in Nat : M = MaxFrameNum /\ M > 1
    BY Counting
  <1>1. CASE phase = "gap"
    <2>1. unused \in 0 .. M - 1 /\ InLine(dpb.entries, NumberBefore(unused, M), M)
      BY <1>m, <1>1 DEF NumberInv
    <2>2. Newest = NumberBefore(unused, M)
      BY <1>m, <1>1 DEF Newest
    <2> QED
      BY <1>m, <2>1, <2>2, Ages
  <1>2. CASE phase \in {"picture", "marking"}
    <2>1. /\ slice.frameNum \in 0 .. M - 1 /\ prevRefFrameNum \in 0 .. M - 1
          /\ InLine(dpb.entries,
                    IF slice.ref THEN NumberBefore(slice.frameNum, M) ELSE prevRefFrameNum, M)
      BY <1>m, <1>2 DEF NumberInv
    <2>2. Newest = IF slice.ref THEN NumberBefore(slice.frameNum, M) ELSE prevRefFrameNum
      BY <1>m, <1>2 DEF Newest
    <2> QED
      BY <1>m, <2>1, <2>2, Ages
  <1>3. CASE phase \in {"idle", "ready"}
    <2>1. Newest = prevRefFrameNum
      BY <1>3 DEF Newest
    <2> QED
      BY <1>3, <2>1 DEF NumberInv
  <1> QED
    BY <1>1, <1>2, <1>3

-----------------------------------------------------------------------------
(* The references, step by step *)

\* What the encoder keeps of the picture it codes.
LEMMA EncodeFields ==
  ASSUME NEW c, Encode(c), c.idr => c.ref
  PROVE  /\ enc'.sps = {c.sps}
         /\ enc'.got = IF c.idr THEN {} ELSE IF c.ref THEN enc.got \ {c.frameNum} ELSE enc.got
         /\ c.idr => enc'.refs = <<0>>
         /\ ~c.idr /\ ~c.ref => enc'.refs = enc.refs
         /\ ~c.idr /\ c.ref =>
               enc'.refs = LastOf(Append(enc.refs, c.frameNum), c.sps.maxNumRefFrames)
  <1> DEFINE kept == LastOf(Append(enc.refs, c.frameNum), c.sps.maxNumRefFrames)
             refs == CASE c.idr -> <<0>> [] ~c.ref -> enc.refs [] OTHER -> kept
             got  == IF c.idr THEN {} ELSE IF c.ref THEN enc.got \ {c.frameNum} ELSE enc.got
  <1>1. PICK f, counts : enc' = [frameNum |-> f, counts |-> counts, sps |-> {c.sps},
                                 refs |-> refs, got |-> got]
    BY DEF Encode
  <1>2. PICK k, z : k = kept /\ z = <<0>>
    OBVIOUS
  <1>3. refs = CASE c.idr -> z [] ~c.ref -> enc.refs [] OTHER -> k
    BY <1>2
  <1> HIDE DEF kept, refs
  <1>4. /\ c.idr => refs = z
        /\ ~c.idr /\ ~c.ref => refs = enc.refs
        /\ ~c.idr /\ c.ref => refs = k
    <2>1. c.idr => refs = z
      BY <1>3, Zenon
    <2>2. ~c.idr /\ ~c.ref => refs = enc.refs
      BY <1>3, Zenon
    <2>3. ~c.idr /\ c.ref => refs = k
      BY <1>3, Zenon
    <2> QED
      BY <2>1, <2>2, <2>3
  <1> HIDE DEF got
  <1>5. enc'.sps = {c.sps} /\ enc'.refs = refs /\ enc'.got = got
    BY <1>1
  <1> QED
    BY <1>2, <1>4, <1>5 DEF got, kept

\* A window of one picture.
LEMMA SlidesFirst ==
  ASSUME NEW M \in Nat, M > 1, NEW width \in 1 .. M - 1
  PROVE  Slides(<<0>>, {}, 0, width, M)
  <1>1. <<0>> \in Seq(0 .. M - 1) /\ Len(<<0>>) = 1 /\ <<0>>[1] = 0
    OBVIOUS
  <1>2. Age(0, 0, M) = 0
    BY DEF Age
  <1>3. \A k \in 1 .. Len(<<0>>) : Age(0, <<0>>[k], M) = Len(<<0>>) - k
    BY <1>1, <1>2
  <1> QED
    BY <1>1, <1>3 DEF Slides

\* The encoder's window goes on with the picture it codes.
LEMMA EncodeSlides ==
  ASSUME SenderInv, SentInv, Steady(scenario), Wide(scenario), scenario.markings = {}, MatchInv,
         NEW c \in Coded, Encode(c)
  PROVE  /\ enc'.got \subseteq enc.got
         /\ Slides(enc'.refs, enc'.got, enc'.frameNum, c.sps.maxNumRefFrames, MaxFrameNum)
  <1>1. Follows743(c) /\ c.sps \in scenario.sps
    BY CodedFollows, CodedComing DEF SentInv
  <1>m. PICK M \in Nat : M = MaxFrameNum /\ M > 1
    BY Counting
  <1>w. PICK width \in 1 .. M - 1 : width = c.sps.maxNumRefFrames
    BY <1>1, <1>m, WideSets
  <1>e. PICK e \in 0 .. M - 1 : e = enc.frameNum
    BY <1>m DEF SentInv
  <1>2. ~HasMmco5(c)
    BY <1>1 DEF HasMmco5, Follows743
  <1>3. enc'.frameNum = IF c.ref THEN c.frameNum ELSE enc.frameNum
    BY <1>2 DEF Encode
  <1>4. CASE c.idr
    <2>1. c.ref /\ c.frameNum = 0
      BY <1>1, <1>4 DEF Follows743
    <2> QED
      BY <1>3, <1>4, <1>m, <1>w, <2>1, EncodeFields, SlidesFirst
  <1>5. CASE ~c.idr
    <2>1. c.sps \in enc.sps /\ c.frameNum = NumberAfter(e, M)
      BY <1>1, <1>5, <1>m, <1>e DEF Follows743
    <2>2. Slides(enc.refs, enc.got, e, width, M) /\ enc.got \subseteq 0 .. M - 1
      BY <1>m, <1>e, <1>w, <2>1 DEF MatchInv
    <2>3. CASE c.ref
      <3>1. /\ enc'.refs = LastOf(Append(enc.refs, NumberAfter(e, M)), width)
            /\ enc'.got = enc.got \ {NumberAfter(e, M)} /\ enc'.frameNum = NumberAfter(e, M)
        BY <1>3, <1>5, <1>w, <2>1, <2>3, EncodeFields
      <3>2. PICK refs, got : refs = enc.refs /\ got = enc.got
        OBVIOUS
      <3>3. Slides(refs, got, e, width, M) /\ got \subseteq 0 .. M - 1
        BY <2>2, <3>2
      <3>4. Slides(LastOf(Append(refs, NumberAfter(e, M)), width), got \ {NumberAfter(e, M)},
                   NumberAfter(e, M), width, M)
        BY <1>m, <3>3, SlidesOn
      <3>5. Slides(enc'.refs, enc'.got, enc'.frameNum, width, M)
        BY <3>1, <3>2, <3>4
      <3> QED
        BY <1>m, <1>w, <3>1, <3>5
    <2>4. CASE ~c.ref
      <3>1. enc'.refs = enc.refs /\ enc'.got = enc.got /\ enc'.frameNum = e
        BY <1>3, <1>5, <1>e, <2>4, EncodeFields
      <3> QED
        BY <1>m, <1>w, <2>2, <3>1
    <2> QED
      BY <2>3, <2>4
  <1> QED
    BY <1>4, <1>5

\* The decoder's references match the encoder's after the picture it codes as well.
LEMMA EncodeMatches ==
  ASSUME SenderInv, IInv, SentInv, Steady(scenario), Wide(scenario), scenario.markings = {},
         NumberInv(MaxFrameNum), MatchInv, phase = "idle", units = <<>>,
         NEW c \in Coded, Encode(c), ~c.idr, ~Refused', UNCHANGED <<vars, scenario>>
  PROVE  SameFormat(c.sps)' /\ Matches(c.sps.maxNumRefFrames)'
  <1>1. Follows743(c) /\ c.sps \in scenario.sps
    BY CodedFollows, CodedComing DEF SentInv
  <1>m. PICK M \in Nat : M = MaxFrameNum /\ M > 1
    BY Counting
  <1>w. PICK width \in 1 .. M - 1 : width = c.sps.maxNumRefFrames
    BY <1>1, <1>m, WideSets
  <1>e. PICK e \in 0 .. M - 1 : e = enc.frameNum
    BY <1>m DEF SentInv
  <1>2. c.sps \in enc.sps /\ c.frameNum = NumberAfter(e, M)
    BY <1>1, <1>m, <1>e DEF Follows743
  <1>3. enc'.frameNum = IF c.ref THEN NumberAfter(e, M) ELSE e
    BY <1>1, <1>m, <1>e, EncodeSent DEF SentInv
  <1>4. enc'.got = IF c.ref THEN enc.got \ {NumberAfter(e, M)} ELSE enc.got
    BY <1>2, EncodeFields
  <1>5. ~Refused
    BY <1>2, EncodeFields DEF Refused
  <1>6. ~Due /\ ~Renewing
    BY DEF Due, Renewing
  <1>7. SameFormat(c.sps) /\ Matches(width) /\ enc.got \subseteq 0 .. M - 1
    BY <1>2, <1>5, <1>6, <1>m, <1>w DEF MatchInv
  <1>8. UNCHANGED <<dpb, sequence, phase, slice, unused, prevRefFrameNum>>
    BY DEF vars
  <1>9. PICK r \in 0 .. M - 1 : r = prevRefFrameNum /\ InLine(dpb.entries, r, M)
    BY <1>m DEF NumberInv
  <1>10. Newest = r /\ Newest' = r
    BY <1>8, <1>9 DEF Newest
  <1>11. CASE NoneKept
    <2>1. enc.got = {}
      BY <1>7, <1>11 DEF Matches
    <2>2. enc'.got = {} /\ NoneKept'
      BY <1>4, <1>8, <1>11, <2>1 DEF NoneKept
    <2> QED
      BY <1>7, <1>8, <1>w, <2>2, NoneMatches DEF SameFormat
  <1>12. CASE ~NoneKept
    <2>1. Matched(dpb.entries, enc.got, e, r, width, M) /\ Cardinality(Refs(dpb.entries)) <= width
      BY <1>7, <1>10, <1>m, <1>e DEF Matches
    <2>2. Matched(dpb.entries, enc'.got, enc'.frameNum, r, width, M)
      <3>1. CASE c.ref
        <4>1. r # NumberAfter(e, M)
          <5>1. scenario.lost \in Nat /\ scenario.lost <= M - 2 /\ budget.lost \in 0 .. scenario.lost
            BY <1>m, ScenarioAssumption DEF SenderInv, Steady, SentInv
          <5>4. InStep(FALSE)
            BY DEF SentInv
          <5>2. Age(e, r, M) \in 0 .. scenario.lost - budget.lost
            BY <1>5, <1>9, <1>12, <1>m, <1>e, <5>4 DEF InStep
          <5>3. Age(e, r, M) # M - 1
            BY <5>1, <5>2
          <5> QED
            BY <5>3, Ages
        <4>2. dpb.entries \in EntriesUpTo(pictures) /\ pictures \in Nat
          BY Facts
        <4>3. KeptNumbers(dpb.entries) \subseteq 0 .. M - 1
          BY <1>9, <4>2, KeptBefore
        <4>4. width \in Nat
          OBVIOUS
        <4>5. PICK got, d : got = enc.got /\ d = dpb.entries
          OBVIOUS
        <4>6. /\ Matched(d, got, e, r, width, M) /\ got \subseteq 0 .. M - 1
              /\ KeptNumbers(d) \subseteq 0 .. M - 1
          BY <1>7, <2>1, <4>3, <4>5
        <4>7. Matched(d, got \ {NumberAfter(e, M)}, NumberAfter(e, M), r, width, M)
          BY <1>m, <4>1, <4>4, <4>6, EncodedMatched
        <4> QED
          BY <1>3, <1>4, <3>1, <4>5, <4>7
      <3>2. CASE ~c.ref
        BY <1>3, <1>4, <2>1, <3>2
      <3> QED
        BY <3>1, <3>2
    <2>3. Matches(width)'
      BY <1>8, <1>10, <1>12, <1>m, <2>1, <2>2 DEF Matches, NoneKept
    <2> QED
      BY <1>7, <1>8, <1>w, <2>3 DEF SameFormat
  <1> QED
    BY <1>11, <1>12

\* A picture that is lost.
LEMMA LoseMatch ==
  ASSUME SenderInv, IInv, SentInv, Steady(scenario), Wide(scenario), scenario.markings = {},
         NumberInv(MaxFrameNum), MatchInv, NEW c \in Coded, Lose(c), UNCHANGED scenario
  PROVE  MatchInv'
  <1>1. /\ phase = "idle" /\ units = <<>> /\ ~c.idr /\ Encode(c)
        /\ UNCHANGED <<vars, units, read>>
    BY DEF Lose, Outside, submitVars
  <1>2. enc'.sps = {c.sps}
    BY <1>1, EncodeFields
  <1>3. /\ enc'.got \subseteq enc.got
        /\ Slides(enc'.refs, enc'.got, enc'.frameNum, c.sps.maxNumRefFrames, MaxFrameNum)
    BY <1>1, EncodeSlides
  <1>4. ~Refused' => SameFormat(c.sps)' /\ Matches(c.sps.maxNumRefFrames)'
    BY <1>1, EncodeMatches
  <1>5. phase' = "idle" /\ ~Due' /\ ~Renewing'
    BY <1>1 DEF vars, Due, Renewing
  <1> QED
    BY <1>2, <1>3, <1>4, <1>5 DEF MatchInv

\* The slice of a picture that is sent whole.
LEMMA OneSlice ==
  ASSUME NEW c
  PROVE  /\ Len(Slices(c, <<TRUE>>)) = 1 /\ Slices(c, <<TRUE>>) # <<>>
         /\ Slices(c, <<TRUE>>)[1].picture = c
  <1>1. DOMAIN <<TRUE>> = 1 .. 1
    OBVIOUS
  <1>2. PICK n : n = scenario.coded - budget.coded + 1
    OBVIOUS
  <1>3. Slices(c, <<TRUE>>) = [k \in 1 .. 1 |-> [coded |-> n, picture |-> c, first |-> <<TRUE>>[k]]]
    BY <1>1, <1>2, Zenon DEF Slices
  <1>4. PICK u : u = [k \in 1 .. 1 |-> [coded |-> n, picture |-> c, first |-> <<TRUE>>[k]]]
    OBVIOUS
  <1>5. DOMAIN u = 1 .. 1 /\ u[1].picture = c
    BY <1>4
  <1>6. u \in Seq({u[1]})
    BY <1>4
  <1>7. Len(u) = 1
    BY <1>5, <1>6
  <1>8. u # <<>>
    BY <1>7
  <1> QED
    BY <1>3, <1>4, <1>5, <1>7, <1>8

\* One that is sent: an IDR picture makes a new start.
LEMMA DeliverMatch ==
  ASSUME SenderInv, IInv, SentInv, Steady(scenario), Wide(scenario), scenario.markings = {},
         NumberInv(MaxFrameNum), MatchInv, NEW c \in Coded, Deliver(c), UNCHANGED scenario
  PROVE  MatchInv'
  <1>1. Whole = {<<TRUE>>} /\ Damaged = {}
    BY DEF Whole, Damaged, Steady
  <1>2. Encode(c) /\ Submit(Slices(c, <<TRUE>>))
    BY <1>1, Zenon DEF Deliver
  <1>3. /\ phase = "idle" /\ units = <<>> /\ units' = Slices(c, <<TRUE>>)
        /\ UNCHANGED <<vars, read>>
    BY <1>2 DEF Submit, Outside
  <1>4. units' # <<>> /\ units'[1].picture = c
    BY <1>3, OneSlice
  <1>5. enc'.sps = {c.sps} /\ (c.idr => enc'.got = {})
    <2>1. c.idr => c.ref
      BY CodedFollows DEF SentInv, Follows743
    <2> QED
      BY <1>2, <2>1, EncodeFields
  <1>6. /\ enc'.got \subseteq enc.got
        /\ Slides(enc'.refs, enc'.got, enc'.frameNum, c.sps.maxNumRefFrames, MaxFrameNum)
    BY <1>2, EncodeSlides
  <1>7. ~c.idr /\ ~Refused' => SameFormat(c.sps)' /\ Matches(c.sps.maxNumRefFrames)'
    BY <1>2, <1>3, EncodeMatches
  <1>8. phase' = "idle" /\ (Due' <=> c.idr) /\ (Renewing' <=> c.idr)
    BY <1>3, <1>4 DEF vars, Due, Renewing
  <1> QED
    BY <1>5, <1>6, <1>7, <1>8 DEF MatchInv

\* Renumbering keeps the pictures that are kept.
LEMMA KeptRenumbered ==
  ASSUME NEW n \in Nat, NEW d \in EntriesUpTo(n), AllUsed(d), NEW f \in Nat, NEW M \in Nat
  PROVE  KeptNumbers(UpdatePicNums(d, f, M)) = KeptNumbers(d)
  BY UpdatePicNumsFrom, UpdatePicNumsLined, KeptSame

\* So does bumping.
LEMMA KeptBumped ==
  ASSUME NEW n \in Nat, NEW d \in EntriesUpTo(n), AllUsed(d), NEW S
  PROVE  KeptNumbers(Bump(d, S)) = KeptNumbers(d)
  BY BumpFrom, BumpLined, KeptSame

\* Decoder and encoder agree on the parameter set of the picture in flight.
LEMMA InFlight ==
  ASSUME SenderInv, IInv, SentInv, Steady(scenario), Wide(scenario), MatchInv,
         phase \in {"gap", "picture", "marking"}
  PROVE  /\ enc.sps = {slice.sps} /\ ~Refused
         /\ slice \in CodedPicture /\ slice.sps \in scenario.sps /\ slice.sps \in SequenceInfo
         /\ slice.sps.maxNumRefFrames \in 1 .. MaxFrameNum - 1
         /\ WindowLimit(slice.sps.maxNumRefFrames) = slice.sps.maxNumRefFrames
         /\ slice.sps.maxFrameNum = MaxFrameNum
         /\ Sent(slice)
  <1>1. slice \in CodedPicture /\ slice.sps \in scenario.sps
    BY SliceComes
  <1>2. Sent(slice)
    BY DEF SentInv
  <1>3. enc.sps = {slice.sps} /\ slice.sps.support = "ok"
    BY <1>2 DEF Sent, MatchInv
  <1> QED
    BY <1>1, <1>2, <1>3, WideSets DEF Refused

\* begin_picture keeps the references, or makes the new start of an IDR picture.
LEMMA ReadMatch ==
  ASSUME SenderInv, IInv, SentInv, Steady(scenario), Wide(scenario), NumberInv(MaxFrameNum),
         MatchInv, Inside, ReadSlice, UNCHANGED <<scenario, enc>>
  PROVE  MatchInv'
  <1>1. phase = "idle" /\ units # <<>> /\ Len(units) = 1
    BY DEF ReadSlice, SentInv
  <1>2. PICK c : c = units[1].picture
    OBVIOUS
  <1>3. Sent(c) /\ (c.idr \/ InStep(c.ref)) /\ enc.sps = {c.sps}
    BY <1>1, <1>2 DEF SentInv, Sent
  <1>4. (Due <=> c.idr) /\ (Renewing <=> c.idr)
    BY <1>1, <1>2 DEF Due, Renewing
  <1>a. units \in Seq(Arriving(scenario))
    BY DEF SenderInv, OnTheWay
  <1>5. Head(units) = units[1] /\ Head(units) \in Arriving(scenario) /\ Tail(units) = <<>>
    BY <1>1, <1>a, OnlySlice
  <1>6. BeginPicture(c) /\ units' = <<>>
    BY <1>1, <1>2, <1>5 DEF ReadSlice, BeginWith
  <1>7. c.sps \in scenario.sps /\ c \in CodedPicture
    BY <1>2, <1>5 DEF Arriving, Coming
  <1>8. ~(phase' = "idle" /\ result' = "va")
    BY InsideBudget
  <1>9. ~Due' /\ UNCHANGED Refused
    BY <1>6 DEF Due, Refused
  <1>10. CASE RefuseSps(c.sps)
    <2>1. c.sps.support # "ok" /\ phase' = "idle"
      BY <1>10 DEF RefuseSps, Fail
    <2>2. Refused' /\ ~Renewing'
      BY <1>3, <1>9, <2>1 DEF Refused, Renewing
    <2> QED
      BY <2>1, <2>2 DEF MatchInv
  <1>11. CASE RebuildSequence(c.sps, FALSE) /\ Fail("va")
    BY <1>8, <1>11 DEF Fail
  <1>12. CASE /\ KeepSequence(c.sps) \/ RebuildSequence(c.sps, TRUE)
              /\ prevRefFrameNum' = IF c.idr THEN 0 ELSE prevRefFrameNum
              /\ phase' = "gap"
              /\ slice' = c
              /\ unused' = (prevRefFrameNum' + 1) % c.sps.maxFrameNum
    <2>1. c.sps.support = "ok" /\ ~Refused
      BY <1>3, <1>12 DEF KeepSequence, RebuildSequence, Refused
    <2>2. SameFormat(c.sps)'
      <3>1. CASE KeepSequence(c.sps)
        BY <3>1 DEF KeepSequence, SameFormat
      <3>2. CASE RebuildSequence(c.sps, TRUE)
        BY <3>2, Facts DEF RebuildSequence, SameFormat
      <3> QED
        BY <1>12, <3>1, <3>2
    <2>3. CASE c.idr
      <3>1. enc.got = {} /\ Renewing'
        BY <1>4, <1>12, <2>3 DEF MatchInv, Renewing
      <3> QED
        BY <1>3, <1>9, <1>12, <2>1, <2>2, <3>1 DEF MatchInv
    <2>4. CASE ~c.idr
      <3>1. SameFormat(c.sps) /\ Matches(c.sps.maxNumRefFrames)
        BY <1>3, <1>4, <2>1, <2>4 DEF MatchInv
      <3>2. KeepSequence(c.sps)
        BY <1>12, <3>1 DEF RebuildSequence
      <3>3. dpb'.entries = dpb.entries
        BY <3>2, Facts DEF KeepSequence, SetLimits, DpbUpTo
      <3>m. PICK M \in Nat : M = MaxFrameNum /\ M > 1
        BY Counting
      <3>r. PICK r \in 0 .. M - 1 : r = prevRefFrameNum
        BY <3>m DEF NumberInv
      <3>4. unused' = NumberAfter(r, M) /\ NumberBefore(NumberAfter(r, M), M) = r
        <4>1. c.sps.maxFrameNum = M
          BY <1>7, <3>m DEF Steady
        <4> QED
          BY <1>12, <2>4, <3>m, <3>r, <4>1, NextIsAfter, Ages
      <3>5. Newest = r /\ Newest' = r
        BY <1>1, <1>12, <3>m, <3>r, <3>4 DEF Newest
      <3>6. ~c.ref \/ NoneKept \/ enc.frameNum # r
        <4> SUFFICES ASSUME c.ref, ~NoneKept
                     PROVE  enc.frameNum # r
          OBVIOUS
        <4>1. Age(enc.frameNum, r, M) \in 1 .. scenario.lost - budget.lost + 1
          BY <1>3, <2>1, <2>4, <3>m, <3>r DEF InStep
        <4>2. Age(r, r, M) = 0
          BY DEF Age
        <4> QED
          BY <4>1, <4>2
      <3>7. ~Renewing'
        BY <1>9, <1>12, <2>4 DEF Renewing
      <3>8. Matches(c.sps.maxNumRefFrames)'
        <4>1. Matched(dpb.entries, enc.got, enc.frameNum, r, c.sps.maxNumRefFrames, M)
              /\ Cardinality(Refs(dpb.entries)) <= c.sps.maxNumRefFrames
              /\ (NoneKept => enc.got = {})
          BY <1>1, <3>1, <3>5, <3>m DEF Matches
        <4> QED
          BY <1>12, <3>3, <3>5, <3>6, <3>m, <4>1 DEF Matches, NoneKept
      <3> QED
        BY <1>3, <1>9, <1>12, <2>1, <2>2, <3>7, <3>8 DEF MatchInv
    <2> QED
      BY <2>3, <2>4
  <1> QED
    BY <1>6, <1>10, <1>11, <1>12 DEF BeginPicture

\* A round of the gap moves the line on; what the window lets go the encoder's has
\* let go as well.
LEMMA FillGapMatch ==
  ASSUME SenderInv, IInv, OutputInv, WindowInv, WindowInv', SentInv, Steady(scenario),
         Wide(scenario), NumberInv(MaxFrameNum), FramesFollow(MaxFrameNum), MatchInv, FillGap,
         units = <<>>, units' = <<>>, UNCHANGED <<scenario, enc>>
  PROVE  MatchInv'
  <1> DEFINE new      == NonExisting(unused)
             numbered == UpdatePicNums(dpb.entries, unused, slice.sps.maxFrameNum)
             window   == SlidingWindowMarking(numbered, slice.sps.maxNumRefFrames)
             marked   == [dpb EXCEPT !.entries = window]
             bumped   == BumpedAsNeeded(marked, new)
             room     == [marked EXCEPT !.entries = Bump(@, bumped)]
             W        == slice.sps.maxNumRefFrames
  <1>m. PICK M \in Nat : M = MaxFrameNum /\ M > 1
    BY Counting
  <1>1. phase = "gap" /\ slice \in CodedPicture /\ unused \in Nat
    BY DEF FillGap, IInv, TypeOK
  <1>2. /\ enc.sps = {slice.sps} /\ ~Refused /\ Sent(slice) /\ slice.sps.support = "ok"
        /\ W \in 1 .. M - 1 /\ WindowLimit(W) = W /\ slice.sps.maxFrameNum = M
    BY <1>1, <1>m, InFlight DEF MatchInv
  <1>3. /\ dpb' = Store(room, pictures + 1, new, 0)
        /\ unused' = (unused + 1) % M
        /\ UNCHANGED <<phase, slice, sequence>>
    <2>1. \/ /\ dpb' = Store(room, pictures + 1, new, 0)
             /\ unused' = (unused + 1) % slice.sps.maxFrameNum
             /\ UNCHANGED <<phase, slice>>
          \/ Fail("full")
      BY DEF FillGap
    <2>2. ~Fail("full")
      BY DEF Fail, WindowInv
    <2>3. UNCHANGED sequence
      BY DEF FillGap
    <2> QED
      BY <1>2, <2>1, <2>2, <2>3
  <1>4. /\ slice.frameNum # prevRefFrameNum /\ slice.frameNum # unused
        /\ DOMAIN dpb.entries # {} /\ slice.sps.gapsAllowed
    BY DEF FillGap, GapPending
  <1>5. ~slice.idr /\ slice.ref
    <2>1. slice.idr => prevRefFrameNum = 0 /\ slice.frameNum = 0
      BY <1>1 DEF NumberInv, FramesFollow
    <2>2. slice.ref \/ scenario.nonRefs
      BY <1>2 DEF Sent
    <2>3. ~scenario.nonRefs
      BY <1>1, <1>4, InFlight DEF Steady
    <2> QED
      BY <1>4, <2>1, <2>2, <2>3
  <1>6. PICK u \in 0 .. M - 1 : u = unused
    BY <1>1, <1>m DEF NumberInv
  <1>7. PICK b \in 0 .. M - 1 : b = NumberBefore(u, M) /\ NumberAfter(b, M) = u
                                /\ InLine(dpb.entries, b, M)
    BY <1>1, <1>5, <1>6, <1>m, Ages DEF NumberInv
  <1>8. PICK e \in 0 .. M - 1 : e = enc.frameNum /\ e # u
    BY <1>2, <1>4, <1>5, <1>6, <1>m DEF Sent
  <1>9. dpb.entries \in EntriesUpTo(pictures) /\ AllUsed(dpb.entries) /\ pictures \in Nat
    BY Facts DEF WindowInv
  <1>10. /\ numbered \in EntriesUpTo(pictures) /\ AllUsed(numbered)
         /\ Refs(numbered) = Refs(dpb.entries) /\ KeptNumbers(numbered) = KeptNumbers(dpb.entries)
         /\ InLine(numbered, b, M) /\ Renumbered(numbered, u, M)
    <2>1. numbered \in EntriesUpTo(pictures) /\ AllUsed(numbered)
      BY <1>1, <1>2, <1>9, UpdatePicNumsFrom, UpdatePicNumsUsed
    <2>2. /\ Refs(numbered) = Refs(dpb.entries) /\ RefsFrom(numbered, dpb.entries)
          /\ Renumbered(numbered, unused, M)
      BY <1>1, <1>2, <1>9, UpdatePicNumsLined
    <2>3. KeptNumbers(numbered) = KeptNumbers(dpb.entries)
      BY <1>1, <1>2, <1>9, KeptRenumbered
    <2> HIDE DEF numbered
    <2> QED
      BY <1>6, <1>7, <2>1, <2>2, <2>3, InLineSame
  <1> HIDE DEF new, numbered
  <1>11. /\ window \in EntriesUpTo(pictures) /\ AllUsed(window)
         /\ Cardinality(Refs(window)) < W
    BY <1>2, <1>9, <1>10, SlidingWindowFrom, WindowMakesRoom
  <1>12. \A got \in SUBSET (0 .. M - 1) :
            Matched(numbered, got, e, b, W, M)
               => /\ KeptNumbers(window) \subseteq KeptNumbers(numbered)
                  /\ Matched(window, got, e, b, W - 1, M)
    <2>1. W \in Nat /\ W > 0
      BY <1>2
    <2>2. \A got \in SUBSET (0 .. M - 1) : got \subseteq 0 .. M - 1
      OBVIOUS
    <2> QED
      BY <1>7, <1>9, <1>10, <1>m, <2>1, <2>2, WindowMatched
  <1>13. Refs(numbered) = {} => Refs(window) = {}
    <2>1. RefsFrom(window, numbered)
      BY <1>2, <1>7, <1>9, <1>10, <1>m, WindowLined DEF InLine
    <2> QED
      BY <2>1 DEF RefsFrom
  <1> HIDE DEF window
  <1>14. marked \in DpbUpTo(pictures) /\ marked.entries = window
    BY <1>11, Facts DEF DpbUpTo
  <1> HIDE DEF marked
  <1>15. /\ room \in DpbUpTo(pictures) /\ room.entries \in EntriesUpTo(pictures)
         /\ Refs(room.entries) = Refs(window) /\ KeptNumbers(room.entries) = KeptNumbers(window)
    <2> DEFINE k == Bump(window, bumped)
    <2>1. k \in EntriesUpTo(pictures) /\ Refs(k) = Refs(window) /\ KeptNumbers(k) = KeptNumbers(window)
      BY <1>9, <1>11, BumpFrom, BumpLined, KeptBumped
    <2>2. room = [marked EXCEPT !.entries = k]
      BY <1>14
    <2> HIDE DEF k, room
    <2>3. room \in DpbUpTo(pictures) /\ room.entries = k
      BY <1>14, <2>1, <2>2 DEF DpbUpTo
    <2> QED
      BY <2>1, <2>3
  <1> HIDE DEF room
  <1>16. dpb'.entries = Plus(room.entries, pictures + 1, NewEntry(new, 0))
    BY <1>3, <1>9, <1>15, StorePlus
  <1>17. /\ Refs(dpb'.entries) = Refs(window) \cup {pictures + 1}
         /\ pictures + 1 \notin Refs(window)
         /\ KeptNumbers(dpb'.entries) = KeptNumbers(window)
    <2>1. pictures + 1 \notin DOMAIN room.entries
      BY <1>9, <1>15, EntriesElim
    <2>2. IsRef(NewEntry(new, 0)) /\ NewEntry(new, 0).nonexisting
      BY DEF NewEntry, NonExisting, IsRef, new
    <2>3. pictures + 1 \notin Refs(room.entries)
      BY <2>1 DEF Refs
    <2> QED
      BY <1>15, <1>16, <2>1, <2>2, <2>3, PlusKept
  <1>18. Cardinality(Refs(dpb'.entries)) <= W /\ ~NoneKept'
    <2>1. IsFiniteSet(Refs(window)) /\ Cardinality(Refs(window)) \in Nat
      BY <1>9, <1>11, EntriesFinite, FS_Subset, FS_CardinalityType DEF Refs
    <2>2. Cardinality(Refs(dpb'.entries)) = Cardinality(Refs(window)) + 1
      BY <1>17, <2>1, FS_AddElement
    <2> QED
      BY <1>2, <1>11, <1>17, <2>1, <2>2 DEF NoneKept
  <1>19. Newest = b /\ Newest' = u
    <2>1. unused' = NumberAfter(u, M) /\ NumberBefore(NumberAfter(u, M), M) = u
      BY <1>3, <1>6, <1>m, NextIsAfter, Ages
    <2> QED
      BY <1>1, <1>3, <1>6, <1>7, <1>m, <2>1 DEF Newest
  <1>20. ~Renewing /\ ~Renewing'
    BY <1>3, <1>5 DEF Renewing, Due
  <1>21. PICK got \in SUBSET (0 .. M - 1) :
            /\ got = enc.got
            /\ NoneKept => got = {}
            /\ NoneKept \/ e # b
            /\ Matched(dpb.entries, got, e, b, W, M)
    <2>1. Matches(W) /\ enc.got \subseteq 0 .. M - 1
      BY <1>2, <1>m, <1>20 DEF MatchInv
    <2> QED
      BY <1>1, <1>5, <1>8, <1>19, <1>m, <2>1 DEF Matches
  <1>22. Matched(dpb'.entries, got, e, u, W, M)
    <2>1. CASE NoneKept
      <3>1. got = {} /\ Refs(window) = {}
        BY <1>10, <1>13, <1>21, <2>1 DEF NoneKept
      <3>2. KeptNumbers(dpb'.entries) = {}
        BY <1>17, <3>1, NothingKept
      <3> QED
        BY <3>1, <3>2 DEF Matched
    <2>2. CASE e # b
      <3>1. Matched(numbered, got, e, b, W, M)
        BY <1>10, <1>21, MatchedSame
      <3>2. /\ KeptNumbers(window) \subseteq KeptNumbers(dpb.entries)
            /\ Matched(window, got, e, b, W - 1, M)
        BY <1>10, <1>12, <3>1
      <3>3. \A f \in KeptNumbers(dpb.entries) : f \in 0 .. M - 1 /\ f # u
        BY <1>7, <1>9, <1>m, KeptBefore
      <3>4. PICK d : d = dpb'.entries
        OBVIOUS
      <3>5. KeptNumbers(d) = KeptNumbers(window)
        BY <1>17, <3>4
      <3>6. Matched(d, got, e, b, W - 1, M)
        BY <3>2, <3>5, MatchedSame
      <3>7. \A f \in KeptNumbers(d) : f \in 0 .. M - 1 /\ f # NumberAfter(b, M)
        BY <1>7, <3>2, <3>3, <3>5
      <3>8. W \in Nat /\ got \subseteq 0 .. M - 1
        BY <1>2
      <3>9. Matched(d, got, e, NumberAfter(b, M), W, M)
        BY <1>m, <2>2, <3>6, <3>7, <3>8, SkippedMatched
      <3> QED
        BY <1>7, <3>4, <3>9
    <2> QED
      BY <1>21, <2>1, <2>2
  <1>23. Matches(W)'
    BY <1>1, <1>3, <1>8, <1>18, <1>19, <1>21, <1>22, <1>m DEF Matches
  <1> QED
    BY <1>1, <1>2, <1>3, <1>5, <1>23, MatchOn

\* The picture itself begins where its gap ended.
LEMMA StartPictureMatch ==
  ASSUME SenderInv, IInv, WindowInv, SentInv, Steady(scenario), Wide(scenario),
         NumberInv(MaxFrameNum), FramesFollow(MaxFrameNum), MatchInv, StartPicture(TRUE),
         phase' = "picture", units = <<>>, units' = <<>>, UNCHANGED <<scenario, enc>>
  PROVE  MatchInv'
  <1> DEFINE left == IF slice.idr THEN Clear(dpb) ELSE dpb
             d == UpdatePicNums(left.entries, slice.frameNum, slice.sps.maxFrameNum)
  <1>1. /\ phase = "gap" /\ ~GapPending /\ dpb' = [left EXCEPT !.entries = d]
        /\ UNCHANGED <<slice, prevRefFrameNum, sequence>>
    BY DEF StartPicture, Fail
  <1>s. PICK set : set = slice.sps
    OBVIOUS
  <1> DEFINE W == set.maxNumRefFrames
  <1>m. PICK M \in Nat : M = MaxFrameNum /\ M > 1
    BY Counting
  <1>2. /\ enc.sps = {set} /\ ~Refused /\ set.support = "ok"
        /\ W \in 1 .. M - 1 /\ slice.sps = set /\ slice.sps.maxFrameNum = M /\ slice.frameNum \in Nat
    BY <1>1, <1>m, <1>s, InFlight DEF MatchInv, CodedPicture
  <1>3. /\ left \in DpbUpTo(pictures) /\ AllUsed(left.entries)
        /\ slice.idr => left.entries = NoEntries
        /\ ~slice.idr => left = dpb
    BY Facts, ClearWithin, EmptyUsed DEF Clear, DpbUpTo, WindowInv
  <1>4. left.entries \in EntriesUpTo(pictures) /\ pictures \in Nat
    BY <1>3, Facts DEF DpbUpTo
  <1> HIDE DEF left
  <1>5. Refs(d) = Refs(left.entries) /\ KeptNumbers(d) = KeptNumbers(left.entries)
    BY <1>2, <1>3, <1>4, UpdatePicNumsLined, KeptRenumbered
  <1> HIDE DEF d
  <1>6. dpb'.entries = d
    BY <1>1, <1>3 DEF DpbUpTo
  <1>7. Matches(W)'
    <2>1. CASE slice.idr
      <3>1. NoneKept'
        BY <1>3, <1>5, <1>6, <2>1 DEF NoneKept, Refs, NoEntries
      <3>2. enc'.got = {}
        BY <1>1, <2>1 DEF MatchInv, Renewing
      <3> QED
        BY <1>2, <3>1, <3>2, NoneMatches
    <2>2. CASE ~slice.idr
      <3>1. Matches(W)
        BY <1>1, <1>2, <2>2 DEF MatchInv, Renewing, Due
      <3>2. Refs(dpb'.entries) = Refs(dpb.entries)
            /\ KeptNumbers(dpb'.entries) = KeptNumbers(dpb.entries)
        BY <1>3, <1>5, <1>6, <2>2
      <3>3. CASE NoneKept
        <4>1. NoneKept' /\ enc'.got = {}
          BY <1>1, <3>1, <3>2, <3>3 DEF Matches, NoneKept
        <4> QED
          BY <1>2, <4>1, NoneMatches
      <3>4. CASE ~NoneKept
        <4>1. DOMAIN dpb.entries # {}
          BY <3>4 DEF NoneKept, Refs
        <4>2. slice.ref => slice.frameNum = unused
          BY <1>1, <2>2, <3>4, <4>1 DEF GapPending, FramesFollow, NoneKept
        <4>3. ~slice.ref => NumberBefore(unused, M) = prevRefFrameNum
          <5>1. prevRefFrameNum \in 0 .. M - 1
            BY <1>m DEF NumberInv
          <5>2. ~slice.ref => unused = NumberAfter(prevRefFrameNum, M)
            BY <1>1, <1>m, <2>2 DEF NumberInv
          <5> QED
            BY <1>m, <5>1, <5>2, Ages
        <4>4. PICK r : Newest = r /\ r = NumberBefore(unused, M)
          BY <1>1, <1>m DEF Newest
        <4>5. Newest' = r
          BY <1>1, <1>m, <4>2, <4>3, <4>4 DEF Newest
        <4>6. Matched(dpb.entries, enc.got, enc.frameNum, r, W, M)
              /\ Cardinality(Refs(dpb.entries)) <= W
          BY <1>1, <1>m, <3>1, <4>4 DEF Matches
        <4>7. PICK got, e, c : got = enc.got /\ e = enc.frameNum /\ c = dpb'.entries
          OBVIOUS
        <4>8. Matched(c, got, e, r, W, M)
          BY <3>2, <4>6, <4>7, MatchedSame
        <4> QED
          BY <1>1, <1>m, <3>2, <3>4, <4>5, <4>6, <4>7, <4>8 DEF Matches, NoneKept
      <3> QED
        BY <3>3, <3>4
    <2> QED
      BY <2>1, <2>2
  <1> QED
    BY <1>1, <1>2, <1>7, <1>s, MatchOn

\* reference_pic_marking makes room for the picture.
LEMMA MarkReferenceMatch ==
  ASSUME SenderInv, IInv, WindowInv, SlidingOnly, SentInv, Steady(scenario), Wide(scenario),
         NumberInv(MaxFrameNum), MatchInv, MarkReference,
         units = <<>>, units' = <<>>, UNCHANGED <<scenario, enc>>
  PROVE  MatchInv'
  <1> DEFINE all == MarkAllAsUnusedForRef(dpb.entries)
  <1>1. /\ phase = "picture" /\ phase' = "marking"
        /\ UNCHANGED <<slice, prevRefFrameNum, sequence>>
    BY DEF MarkReference
  <1>s. PICK set : set = slice.sps
    OBVIOUS
  <1> DEFINE W == set.maxNumRefFrames
             window == SlidingWindowMarking(dpb.entries, W)
  <1>m. PICK M \in Nat : M = MaxFrameNum /\ M > 1
    BY Counting
  <1>2. /\ enc.sps = {set} /\ ~Refused /\ set.support = "ok"
        /\ W \in 1 .. M - 1 /\ WindowLimit(W) = W
        /\ slice.ref \in BOOLEAN /\ slice.idr \in BOOLEAN /\ ~slice.longTerm /\ ~slice.adaptive
    BY <1>1, <1>m, <1>s, InFlight DEF MatchInv, CodedPicture, SlidingOnly, WindowOnly
  <1>3. /\ ~slice.ref => dpb' = dpb
        /\ slice.ref /\ slice.idr => dpb' = [dpb EXCEPT !.entries = all]
        /\ slice.ref /\ ~slice.idr => dpb' = [dpb EXCEPT !.entries = window]
    BY <1>2, <1>s, Zenon DEF MarkReference
  <1>4. ~Renewing /\ Matches(W)
    BY <1>1, <1>2 DEF MatchInv, Renewing, Due
  <1>5. Newest' = Newest
    BY <1>1 DEF Newest
  <1>6. NoneKept => enc.got = {}
    BY <1>1, <1>4 DEF Matches
  <1>7. Matches(W)'
    <2>1. CASE ~slice.ref
      BY <1>1, <1>3, <1>4, <1>5, <2>1 DEF Matches, NoneKept
    <2>2. CASE slice.ref /\ slice.idr
      <3>1. DOMAIN all = {} /\ NoneKept
        BY <1>1, <2>2 DEF WindowInv, MarkAllAsUnusedForRef, Unmark, NoneKept, Refs
      <3> HIDE DEF all
      <3>2. dpb'.entries = all
        BY <1>3, <2>2, Facts DEF DpbUpTo
      <3>3. NoneKept' /\ enc'.got = {}
        BY <1>6, <3>1, <3>2 DEF NoneKept, Refs
      <3> QED
        BY <1>2, <3>3, NoneMatches
    <2>3. CASE slice.ref /\ ~slice.idr
      <3>1. PICK f \in 0 .. M - 1 : f = slice.frameNum
        BY <1>1, <1>m DEF NumberInv
      <3>2. PICK b \in 0 .. M - 1 : b = NumberBefore(f, M) /\ NumberAfter(b, M) = f
        BY <1>m, Ages
      <3>3. InLine(dpb.entries, b, M) /\ Renumbered(dpb.entries, f, M) /\ Newest = b
        BY <1>1, <1>m, <2>3, <3>1, <3>2 DEF NumberInv, Newest
      <3>4. PICK e \in 0 .. M - 1 : e = enc.frameNum
        BY <1>m DEF SentInv
      <3>5. PICK got \in SUBSET (0 .. M - 1) : got = enc.got
        BY <1>m DEF MatchInv
      <3>6. Matched(dpb.entries, got, e, b, W, M)
        BY <1>1, <1>4, <1>m, <3>3, <3>4, <3>5 DEF Matches
      <3>7. AllUsed(dpb.entries) /\ dpb.entries \in EntriesUpTo(pictures) /\ pictures \in Nat
        BY Facts DEF WindowInv
      <3>8. W \in Nat /\ W > 0 /\ got \subseteq 0 .. M - 1
        BY <1>2
      <3>9. /\ Matched(window, got, e, b, W - 1, M)
            /\ Cardinality(Refs(window)) < W /\ window \in EntriesUpTo(pictures)
        <4>1. Matched(window, got, e, b, W - 1, M)
          BY <1>m, <3>2, <3>3, <3>6, <3>7, <3>8, WindowMatched
        <4>2. Cardinality(Refs(window)) < W
          BY <1>2, <3>7, <3>8, WindowMakesRoom
        <4>3. window \in EntriesUpTo(pictures)
          BY <3>7, SlidingWindowFrom
        <4> HIDE DEF window
        <4> QED
          BY <4>1, <4>2, <4>3
      <3> HIDE DEF window
      <3>10. Cardinality(Refs(window)) <= W
        BY <1>2, <3>7, <3>9, EntriesFinite, FS_Subset, FS_CardinalityType DEF Refs
      <3>11. dpb'.entries = window
        BY <1>3, <2>3, Facts DEF DpbUpTo
      <3> QED
        BY <1>1, <1>5, <1>m, <2>3, <3>3, <3>4, <3>5, <3>9, <3>10, <3>11 DEF Matches
    <2> QED
      BY <1>2, <2>1, <2>2, <2>3
  <1> QED
    BY <1>1, <1>2, <1>7, <1>s, MatchOn

\* finish_picture keeps the picture, which the encoder keeps as well.
LEMMA StorePictureMatch ==
  ASSUME SenderInv, IInv, OutputInv, WindowInv, WindowInv', SentInv, Steady(scenario),
         Wide(scenario), NumberInv(MaxFrameNum), MatchInv, StorePicture,
         units = <<>>, units' = <<>>, UNCHANGED scenario,
         enc' = IF phase = "marking" /\ phase' = "ready" /\ IsRef(pic)
                THEN [enc EXCEPT !.got = @ \cup {slice.frameNum}] ELSE enc
  PROVE  MatchInv' /\ phase = "marking" /\ phase' = "ready"
  <1> DEFINE bumped == BumpedAsNeeded(dpb, pic)
             d      == Bump(dpb.entries, bumped)
             room   == [dpb EXCEPT !.entries = Bump(@, bumped)]
             new    == NewEntry(pic, sequence.gen)
  <1>1. /\ phase = "marking" /\ ~pic.mmco5 /\ slice \in CodedPicture
        /\ prevRefFrameNum' = IF IsRef(pic) THEN pic.frameNum ELSE prevRefFrameNum
        /\ UNCHANGED sequence
    BY DEF StorePicture, IInv, TypeOK, WindowInv
  <1>m. PICK M \in Nat : M = MaxFrameNum /\ M > 1
    BY Counting
  <1>s. PICK set : set = slice.sps
    OBVIOUS
  <1> DEFINE W == set.maxNumRefFrames
  <1>2. /\ enc.sps = {set} /\ ~Refused /\ set.support = "ok" /\ Sent(slice)
        /\ W \in 1 .. M - 1 /\ WindowLimit(W) = W /\ slice.ref \in BOOLEAN /\ slice.idr \in BOOLEAN
    BY <1>1, <1>m, <1>s, InFlight DEF MatchInv, CodedPicture
  <1>3. /\ dpb' = IF HasEmptyFrameBuffer(room)
                  THEN Store(room, pictures, pic, sequence.gen) ELSE room
        /\ IF HasEmptyFrameBuffer(room) \/ ~IsRef(pic) THEN Submitted ELSE Fail("full")
    BY <1>1 DEF StorePicture
  <1>4. (HasEmptyFrameBuffer(room) \/ ~IsRef(pic)) /\ phase' = "ready"
    <2>1. ~Fail("full")
      BY DEF Fail, WindowInv
    <2> QED
      BY <1>3, <2>1 DEF Submitted
  <1>5. /\ pic.ref = IF slice.ref THEN "ShortTerm" ELSE "None"
        /\ slice.idr => DOMAIN dpb.entries = {}
        /\ slice.ref /\ ~slice.idr => Cardinality(Refs(dpb.entries)) < W
        /\ ~pic.nonexisting /\ pic.frameNum = slice.frameNum
    BY <1>1, <1>2, <1>s DEF WindowInv, NumberInv, IInv, InTheMaking
  <1>6. IsRef(pic) <=> slice.ref
    BY <1>2, <1>5 DEF IsRef
  <1>7. /\ dpb.entries \in EntriesUpTo(pictures - 1) /\ AllUsed(dpb.entries)
        /\ pictures - 1 \in Nat /\ dpb \in DpbUpTo(pictures) /\ pictures \in Nat
    BY <1>1, Facts DEF OutputInv, NewNumber, WindowInv, IInv, InTheMaking
  <1>8. /\ d \in EntriesUpTo(pictures - 1) /\ Refs(d) = Refs(dpb.entries)
        /\ KeptNumbers(d) = KeptNumbers(dpb.entries)
    BY <1>7, BumpFrom, BumpLined, KeptBumped
  <1>9. room \in DpbUpTo(pictures) /\ room.entries = d
    <2>1. d \in EntriesUpTo(pictures)
      BY <1>7, Facts, BumpFrom DEF DpbUpTo
    <2>2. room = [dpb EXCEPT !.entries = d]
      OBVIOUS
    <2> HIDE DEF d, room
    <2> QED
      BY <1>7, <2>1, <2>2 DEF DpbUpTo
  <1> HIDE DEF d, room
  <1>10. pictures \notin DOMAIN d /\ pictures \notin Refs(d)
    BY <1>7, <1>8, EntriesElim DEF Refs
  <1>11. HasEmptyFrameBuffer(room) => dpb'.entries = Plus(d, pictures, new)
    BY <1>3, <1>7, <1>9, StorePlus
  <1>12. ~HasEmptyFrameBuffer(room) => dpb'.entries = d
    BY <1>3, <1>9
  <1>13. new.ref = pic.ref /\ new.frameNum = pic.frameNum /\ new.nonexisting = pic.nonexisting
    BY DEF NewEntry
  <1> HIDE DEF new
  <1>14. IsFiniteSet(Refs(d)) /\ Cardinality(Refs(d)) \in Nat
    BY <1>7, <1>8, EntriesFinite, FS_Subset, FS_CardinalityType DEF Refs
  <1>15. ~Renewing /\ Matches(W)
    BY <1>1, <1>2 DEF MatchInv, Renewing, Due
  <1>16. PICK r \in 0 .. M - 1 : r = Newest /\ InLine(dpb.entries, r, M)
    BY <1>1, <1>m, NewestInLine
  <1>17. PICK got \in SUBSET (0 .. M - 1) : got = enc.got
    BY <1>m DEF MatchInv
  <1>18. PICK e \in 0 .. M - 1 : e = enc.frameNum
    BY <1>m DEF SentInv
  <1>19. Newest' = prevRefFrameNum' /\ ~Due' /\ ~Renewing'
    BY <1>4 DEF Newest, Due, Renewing
  <1>20. CASE slice.ref
    <2>1. dpb'.entries = Plus(d, pictures, new)
      BY <1>4, <1>6, <1>11, <1>20
    <2>2. e = slice.frameNum /\ r = NumberBefore(e, M)
      BY <1>1, <1>2, <1>16, <1>18, <1>20, <1>m DEF Sent, Newest
    <2>3. enc' = [enc EXCEPT !.got = got \cup {e}]
      BY <1>1, <1>4, <1>6, <1>17, <1>20, <2>2
    <2>4. enc'.got = got \cup {e} /\ enc'.frameNum = e /\ enc'.sps = enc.sps /\ enc'.refs = enc.refs
      BY <1>18, <2>3 DEF SenderInv, EncoderTyped
    <2>5. IsRef(new) /\ ~new.nonexisting /\ new.frameNum = e
      BY <1>5, <1>6, <1>13, <1>20, <2>2 DEF IsRef
    <2>6. /\ Refs(dpb'.entries) = Refs(d) \cup {pictures}
          /\ KeptNumbers(dpb'.entries) = KeptNumbers(dpb.entries) \cup {e}
      BY <1>8, <1>10, <2>1, <2>5, PlusKept
    <2>7. Cardinality(Refs(dpb'.entries)) <= W /\ ~NoneKept'
      <3>1. Cardinality(Refs(dpb'.entries)) = Cardinality(Refs(d)) + 1
        BY <1>10, <1>14, <2>6, FS_AddElement
      <3>2. Cardinality(Refs(d)) < W
        <4>1. CASE slice.idr
          <5>1. Refs(d) = {}
            BY <1>5, <1>8, <4>1 DEF Refs
          <5> QED
            BY <1>2, <5>1, FS_EmptySet
        <4> QED
          BY <1>5, <1>8, <1>20, <4>1
      <3> QED
        BY <1>2, <1>14, <2>6, <3>1, <3>2 DEF NoneKept
    <2>8. Matched(dpb.entries, got, e, r, W - 1, M)
      BY <1>1, <1>15, <1>16, <1>17, <1>18, <1>20, <1>m DEF Matches
    <2>9. \A f \in KeptNumbers(dpb.entries) : f \in 0 .. M - 1 /\ f # e
      <3>1. NumberAfter(r, M) = e
        BY <1>m, <2>2, Ages
      <3> QED
        BY <1>7, <1>16, <1>m, <3>1, KeptBefore
    <2>10. PICK c, k : c = dpb.entries /\ k = dpb'.entries
      OBVIOUS
    <2>11. W \in Nat /\ got \subseteq 0 .. M - 1
      BY <1>2
    <2>12. Matched(k, got \cup {e}, e, e, W, M)
      <3>1. KeptNumbers(k) = KeptNumbers(c) \cup {e}
        BY <2>6, <2>10
      <3>2. Matched(c, got, e, NumberBefore(e, M), W - 1, M)
        BY <2>2, <2>8, <2>10
      <3>3. \A f \in KeptNumbers(c) : f \in 0 .. M - 1 /\ f # e
        BY <2>9, <2>10
      <3> QED
        BY <1>m, <2>11, <3>1, <3>2, <3>3, CaughtUpMatched
    <2>13. Newest' = e
      BY <1>1, <1>5, <1>6, <1>19, <1>20, <2>2
    <2>14. Matches(W)'
      BY <1>4, <1>m, <2>4, <2>7, <2>10, <2>12, <2>13 DEF Matches
    <2>15. Slides(enc'.refs, enc'.got, enc'.frameNum, W, M)
      <3>1. PICK refs : refs = enc.refs
        OBVIOUS
      <3>2. Slides(refs, got, e, W, M)
        BY <1>2, <1>17, <1>18, <1>m, <3>1 DEF MatchInv
      <3>3. Age(e, e, M) = 0 /\ Len(refs) \in Nat /\ Len(refs) > 0
        BY <3>2 DEF Age, Slides
      <3>4. \A f \in got \cup {e} : Age(e, f, M) < Len(refs) \/ Len(refs) = W
        BY <3>2, <3>3 DEF Slides
      <3>5. Slides(refs, got \cup {e}, e, W, M)
        BY <3>2, <3>4 DEF Slides
      <3> QED
        BY <2>4, <3>1, <3>5
    <2>16. enc'.got \subseteq 0 .. M - 1 /\ enc'.sps = {set}
      BY <1>2, <2>4
    <2>17. SameFormat(set)'
      BY <1>1, <1>2, <1>15 DEF MatchInv, SameFormat, Due
    <2> QED
      BY <1>1, <1>4, <1>19, <1>m, <2>14, <2>15, <2>16, <2>17 DEF MatchInv
  <1>21. CASE ~slice.ref
    <2>1. enc' = enc
      BY <1>6, <1>21
    <2>2. ~IsRef(new)
      BY <1>6, <1>13, <1>21 DEF IsRef
    <2>3. Refs(dpb'.entries) = Refs(dpb.entries) /\ KeptNumbers(dpb'.entries) = KeptNumbers(dpb.entries)
      BY <1>8, <1>10, <1>11, <1>12, <2>2, PlusKept
    <2>4. Newest' = r
      BY <1>1, <1>6, <1>16, <1>19, <1>21 DEF Newest
    <2>5. Matched(dpb.entries, got, e, r, W, M)
      BY <1>1, <1>15, <1>16, <1>17, <1>18, <1>21, <1>m DEF Matches
    <2>6. PICK k : k = dpb'.entries
      OBVIOUS
    <2>7. Matched(k, got, e, r, W, M)
      BY <2>3, <2>5, <2>6, MatchedSame
    <2>8. Matches(W)'
      BY <1>1, <1>4, <1>15, <1>17, <1>18, <1>21, <1>m, <2>1, <2>3, <2>4, <2>6, <2>7
         DEF Matches, NoneKept
    <2>9. MatchInv'
      BY <1>1, <1>2, <1>4, <2>1, <2>8, MatchOn
    <2> QED
      BY <1>1, <1>4, <2>9
  <1> QED
    BY <1>2, <1>20, <1>21

\* What leaves the decoder and the encoder alone.
LEMMA MatchStays ==
  ASSUME MatchInv,
         UNCHANGED <<enc, phase, slice, units, dpb, unused, prevRefFrameNum, sequence>>
  PROVE  MatchInv'
  BY DEF MatchInv, Renewing, Due, Refused, SameFormat, Matches, NoneKept, Newest

\* A gap that the parameter set rules out has no reference to be missed.
LEMMA RefuseGapMatch ==
  ASSUME SenderInv, IInv, SentInv, Steady(scenario), Wide(scenario), NumberInv(MaxFrameNum),
         MatchInv, RefuseGap, units = <<>>, units' = <<>>, UNCHANGED <<scenario, enc>>
  PROVE  MatchInv'
  <1>1. phase = "gap" /\ phase' = "idle" /\ UNCHANGED <<dpb, sequence>> /\ NoneKept'
    BY RefuseGapSent DEF RefuseGap
  <1>2. PICK set : set = slice.sps
    OBVIOUS
  <1>3. enc.sps = {set} /\ set.maxNumRefFrames \in Nat /\ ~Refused
    BY <1>1, <1>2, InFlight
  <1>4. enc'.got = {}
    <2>1. CASE Renewing
      BY <2>1 DEF MatchInv
    <2>2. CASE ~Renewing
      BY <1>1, <1>3, <2>2 DEF MatchInv, Matches, NoneKept
    <2> QED
      BY <2>1, <2>2
  <1>5. Matches(set.maxNumRefFrames)'
    BY <1>1, <1>3, <1>4, NoneMatches
  <1> QED
    BY <1>1, <1>3, <1>5, MatchOn

\* flush() leaves nothing, and the encoder's references are not given again.
LEMMA ResetMatch ==
  ASSUME SenderInv, IInv, Steady(scenario), Wide(scenario), MatchInv, MCReset, UNCHANGED scenario
  PROVE  MatchInv'
  <1>1. /\ phase = "idle" /\ units = <<>> /\ units' = <<>> /\ phase' = "ready"
        /\ dpb' = Clear(dpb) /\ sequence' = sequence /\ enc' = [enc EXCEPT !.got = {}]
    BY DEF MCReset, Outside, Reset
  <1>2. enc'.got = {} /\ enc'.sps = enc.sps /\ enc'.refs = enc.refs /\ enc'.frameNum = enc.frameNum
    BY <1>1 DEF SenderInv, EncoderTyped
  <1>3. dpb'.entries = NoEntries
    BY <1>1, Facts DEF Clear, DpbUpTo
  <1>4. NoneKept'
    BY <1>3 DEF NoneKept, Refs, NoEntries
  <1>5. ~Due /\ ~Due' /\ ~Renewing' /\ Refused' = Refused
    BY <1>1, <1>2 DEF Due, Renewing, Refused
  <1>6. \A sps \in enc.sps : sps.maxNumRefFrames \in Nat
    BY WideSets DEF SenderInv, EncoderTyped
  <1>7. \A sps \in enc.sps : Matches(sps.maxNumRefFrames)'
    BY <1>2, <1>4, <1>6, NoneMatches
  <1>8. \A sps \in enc.sps :
           Slides(enc'.refs, enc'.got, enc'.frameNum, sps.maxNumRefFrames, MaxFrameNum)
    BY <1>2 DEF MatchInv, Slides
  <1> QED
    BY <1>1, <1>2, <1>5, <1>7, <1>8 DEF MatchInv, SameFormat

\* The frames are taken between pictures.
LEMMA TakeMatch ==
  ASSUME MatchInv, Take, UNCHANGED <<scenario, enc>>
  PROVE  MatchInv'
  <1>1. /\ phase \in {"idle", "ready"} /\ phase' \in {"idle", "ready"}
        /\ units = <<>> /\ units' = <<>>
        /\ UNCHANGED <<dpb, prevRefFrameNum, sequence>>
    BY DEF Take, TakeFrames, SubmitParameterSets
  <1>2. Newest' = Newest /\ ~Renewing
    BY <1>1 DEF Newest, Renewing, Due
  <1>3. ASSUME NEW sps \in enc.sps, ~Refused
        PROVE  Matches(sps.maxNumRefFrames)'
    <2>1. Matches(sps.maxNumRefFrames)
      BY <1>2, <1>3 DEF MatchInv
    <2> QED
      BY <1>1, <1>2, <2>1 DEF Matches, NoneKept
  <1> QED
    BY <1>1, <1>3, MatchOn

\* So every step keeps the references matched.
LEMMA NextMatch ==
  ASSUME SenderInv, IInv, OutputInv, WindowInv, WindowInv', SlidingOnly, SentInv,
         Steady(scenario), Wide(scenario), scenario.markings = {}, NumberInv(MaxFrameNum),
         FramesFollow(MaxFrameNum), MatchInv, MCStep, UNCHANGED scenario
  PROVE  MatchInv'
  <1>1. ASSUME NEW c \in Coded, Lose(c) \/ Deliver(c) \/ Continue(c)
        PROVE  MatchInv'
    <2>1. ~Continue(c)
      BY DEF Continue, Steady
    <2> QED
      BY <1>1, <2>1, LoseMatch, DeliverMatch
  <1>2. CASE Inside
    <2>1. ~(phase' = "idle" /\ result' = "va")
      BY <1>2, InsideBudget
    <2>2. CASE ReadSlice /\ UNCHANGED enc
      BY <1>2, <2>2, ReadMatch
    <2>3. CASE NextPicture
      BY <2>3 DEF NextPicture, SentInv
    <2>4. CASE Abandon
      BY <2>1, <2>4 DEF Abandon, AbandonPicture, Fail
    <2>5. CASE /\ Proceed
               /\ enc' = IF phase = "marking" /\ phase' = "ready" /\ IsRef(pic)
                         THEN [enc EXCEPT !.got = @ \cup {slice.frameNum}] ELSE enc
      <3>1. phase # "idle"
        BY <2>5 DEF Proceed, RefuseGap, FillGap, StartPicture, Mmco, StorePicture
      <3>2. units = <<>> /\ units' = <<>>
        BY <2>5, <3>1 DEF Proceed, RestOfUnit, SentInv
      <3>3. CASE RefuseGap
        <4>1. enc' = enc
          BY <2>5, <3>3 DEF RefuseGap
        <4> QED
          BY <3>2, <3>3, <4>1, RefuseGapMatch
      <3>4. CASE FillGap
        <4>1. enc' = enc
          BY <2>5, <3>4 DEF FillGap
        <4> QED
          BY <3>2, <3>4, <4>1, FillGapMatch
      <3>5. ASSUME NEW allocated \in BOOLEAN, StartPicture(allocated)
            PROVE  MatchInv'
        <4>1. StartPicture(TRUE) /\ phase' = "picture" /\ phase = "gap"
          BY <2>1, <3>5 DEF StartPicture, Fail
        <4>2. enc' = enc
          BY <2>5, <4>1
        <4> QED
          BY <3>2, <4>1, <4>2, StartPictureMatch
      <3>6. CASE Mmco
        BY <3>6 DEF Mmco, WindowInv
      <3>7. CASE StorePicture
        BY <2>5, <3>2, <3>7, StorePictureMatch
      <3> QED
        BY <2>5, <3>3, <3>4, <3>5, <3>6, <3>7 DEF Proceed
    <2> QED
      BY <1>2, <2>2, <2>3, <2>4, <2>5 DEF Inside
  <1>3. CASE (DecodeSlice \/ EndUnit \/ Take) /\ UNCHANGED <<enc, budget>>
    <2>1. CASE DecodeSlice
      BY <1>3, <2>1, MatchStays DEF DecodeSlice, vars
    <2>2. CASE EndUnit
      BY <1>3, <2>2, MarkReferenceMatch DEF EndUnit
    <2>3. CASE Take
      BY <1>3, <2>3, TakeMatch
    <2> QED
      BY <1>3, <2>1, <2>2, <2>3
  <1>4. CASE MCReset
    BY <1>4, ResetMatch
  <1> QED
    BY <1>1, <1>2, <1>3, <1>4 DEF MCStep

\* A picture that is stored is the encoder's last reference, or beside it.
LEMMA StoreCaughtUp ==
  ASSUME SenderInv, IInv, OutputInv, WindowInv, WindowInv', SentInv, Steady(scenario),
         NumberInv(MaxFrameNum), StorePicture, enc'.frameNum = enc.frameNum
  PROVE  NoneKept' \/ enc'.frameNum = prevRefFrameNum'
  <1>1. /\ phase = "marking"
        /\ prevRefFrameNum' = IF IsRef(pic) THEN pic.frameNum ELSE prevRefFrameNum
    BY DEF StorePicture
  <1>2. Sent(slice) /\ Fits(slice) /\ slice.sps \in scenario.sps
    BY <1>1, SliceComes DEF SentInv
  <1>3. /\ pic.ref = IF slice.ref THEN "ShortTerm" ELSE "None"
        /\ pic.frameNum = slice.frameNum
    BY <1>1 DEF WindowInv, NumberInv
  <1>4. CASE slice.ref
    BY <1>1, <1>2, <1>3, <1>4 DEF IsRef, Sent
  <1>5. CASE ~slice.ref
    <2>1. ~slice.idr /\ ~slice.sps.gapsAllowed
      BY <1>2, <1>5 DEF Sent, Steady
    <2>2. CASE NoneKept
      BY <1>5, <2>2, StoreBeside
    <2>3. CASE slice.frameNum = NumberAfter(prevRefFrameNum, MaxFrameNum)
      <3>1. NumberBefore(slice.frameNum, MaxFrameNum) = prevRefFrameNum
        BY <2>3, Ages, Counting DEF NumberInv
      <3> QED
        BY <1>1, <1>2, <1>3, <1>5, <3>1 DEF IsRef, Sent
    <2> QED
      BY <1>2, <2>1, <2>2, <2>3 DEF Fits
  <1> QED
    BY <1>4, <1>5

\* Once the decoder has caught up, it keeps what the encoder does, of what it got.
Agree ==
    phase = "ready" /\ units = <<>> /\ enc.sps # {} /\ ~Refused
       /\ (NoneKept \/ enc.frameNum = prevRefFrameNum)
    => KeptNumbers(dpb.entries) = {enc.refs[k] : k \in DOMAIN enc.refs} \cap enc.got

\* It follows from what is matched.
LEMMA MatchAgrees ==
  ASSUME SenderInv, IInv, SentInv, Steady(scenario), Wide(scenario), NumberInv(MaxFrameNum), MatchInv
  PROVE  Agree
  <1> SUFFICES ASSUME phase = "ready", units = <<>>, enc.sps # {}, ~Refused,
                      NoneKept \/ enc.frameNum = prevRefFrameNum
               PROVE  KeptNumbers(dpb.entries) = {enc.refs[k] : k \in DOMAIN enc.refs} \cap enc.got
    BY DEF Agree
  <1>1. PICK sps \in enc.sps : TRUE
    OBVIOUS
  <1>2. ~Renewing
    BY DEF Renewing, Due
  <1>m. PICK M \in Nat : M = MaxFrameNum /\ M > 1
    BY Counting
  <1>3. PICK W \in 1 .. M - 1 : W = sps.maxNumRefFrames
    BY <1>1, <1>m, WideSets DEF SenderInv, EncoderTyped
  <1>4. Matches(W) /\ enc.got \subseteq 0 .. M - 1 /\ Slides(enc.refs, enc.got, enc.frameNum, W, M)
    BY <1>1, <1>2, <1>3, <1>m DEF MatchInv
  <1>5. PICK refs, got : refs = enc.refs /\ got = enc.got
    OBVIOUS
  <1>6. CASE NoneKept
    <2>1. got = {} /\ KeptNumbers(dpb.entries) = {}
      BY <1>4, <1>5, <1>6, NothingKept DEF Matches, NoneKept
    <2>2. {refs[k] : k \in DOMAIN refs} \cap {} = {}
      OBVIOUS
    <2> QED
      BY <1>5, <2>1, <2>2
  <1>7. CASE enc.frameNum = prevRefFrameNum
    <2>1. PICK e \in 0 .. M - 1 : e = enc.frameNum /\ InLine(dpb.entries, e, M)
      BY <1>7, <1>m DEF NumberInv
    <2>2. Newest = e
      BY <1>7, <2>1 DEF Newest
    <2>3. PICK d : d = dpb.entries
      OBVIOUS
    <2>4. Matched(d, got, e, e, W, M) /\ Cardinality(Refs(d)) <= W
      BY <1>4, <1>5, <1>m, <2>1, <2>2, <2>3 DEF Matches
    <2>5. PICK n \in Nat : d \in EntriesUpTo(n)
      BY <2>3, Facts
    <2>6. /\ Slides(refs, got, e, W, M) /\ got \subseteq 0 .. M - 1 /\ W \in Nat
          /\ Lined(d, e, M) /\ M \in Nat /\ M > 1
      BY <1>3, <1>4, <1>5, <1>m, <2>1, <2>3 DEF InLine
    <2>7. KeepsTheirs(d, refs, got)
      BY <1>m, <2>4, <2>5, <2>6, MatchedSets
    <2>8. KeptNumbers(d) = {refs[k] : k \in DOMAIN refs} \cap got
      BY <2>7 DEF KeepsTheirs
    <2> QED
      BY <1>5, <2>3, <2>8
  <1> QED
    BY <1>6, <1>7

\* What the references depend on in a scenario whose windows all have room for one.
MatchPlain == Plain /\ Wide(scenario) => MatchInv

\* And the agreement that follows.
AgreePlain == Plain /\ Wide(scenario) => Agree

\* At the start nothing is given and no parameter set active.
LEMMA InitMatch == MCInit => MatchPlain
  <1> SUFFICES ASSUME MCInit
               PROVE  MatchInv
    BY DEF MatchPlain
  <1>1. enc.got = {} /\ enc.sps = {} /\ phase = "idle"
    BY DEF MCInit, SubmitInit, Init
  <1> QED
    BY <1>1 DEF MatchInv

\* Every step keeps the references matched.
LEMMA NextMatchPlain ==
  IInv /\ OutputInv /\ SenderInv /\ SlidingInv /\ SlidingInv' /\ SentPlain /\ NumberPlain
     /\ FollowPlain /\ MatchPlain /\ [MCNext]_mcvars
  => MatchPlain'
  <1> SUFFICES ASSUME IInv, OutputInv, SenderInv, SlidingInv, SlidingInv', SentPlain, NumberPlain,
                      FollowPlain, MatchPlain, [MCNext]_mcvars, Plain', Wide(scenario)'
               PROVE  MatchInv'
    BY DEF MatchPlain
  <1>1. UNCHANGED scenario
    BY DEF MCNext, mcvars
  <1>2. Plain /\ Steady(scenario) /\ scenario.markings = {} /\ Wide(scenario)
    BY <1>1 DEF Plain, Steady, Wide
  <1>3. /\ WindowInv /\ WindowInv' /\ SlidingOnly /\ SentInv /\ NumberInv(MaxFrameNum)
        /\ FramesFollow(MaxFrameNum) /\ MatchInv
    BY <1>1, <1>2, ScenarioSlides
       DEF SlidingInv, SentPlain, NumberPlain, FollowPlain, MatchPlain, Plain
  <1>4. CASE UNCHANGED mcvars
    BY <1>3, <1>4, MatchStays DEF mcvars, submitVars, vars
  <1>5. CASE MCStep
    BY <1>1, <1>2, <1>3, <1>5, NextMatch
  <1> QED
    BY <1>4, <1>5 DEF MCNext

\* Matched references agree once the decoder has caught up.
LEMMA AgreeFollows ==
  IInv /\ SenderInv /\ SentPlain /\ NumberPlain /\ MatchPlain => AgreePlain
  BY MatchAgrees DEF AgreePlain, SentPlain, NumberPlain, MatchPlain, Plain

\* The scenario is one throughout.
LEMMA ScenarioStays ==
  Steady(scenario) /\ Wide(scenario) /\ [MCNext]_mcvars => (Steady(scenario) /\ Wide(scenario))'
  BY DEF MCNext, mcvars, Steady, Wide

\* Only a picture that is stored ends the marking, and with it the decoder has
\* caught up.
LEMMA StoredAgrees ==
  ASSUME SenderInv, IInv, OutputInv, SlidingInv, SlidingInv', SentPlain, NumberPlain, MatchPlain,
         AgreePlain', Steady(scenario), Wide(scenario), MCNext,
         scenario.markings = {}, phase = "marking", phase' = "ready"
  PROVE  {dpb'.entries[i].frameNum : i \in {j \in Refs(dpb'.entries) : ~dpb'.entries[j].nonexisting}}
              = {enc'.refs[k] : k \in DOMAIN enc'.refs} \cap enc'.got
  <1>1. UNCHANGED scenario /\ MCStep
    BY DEF MCNext
  <1>2. Plain /\ Plain' /\ Wide(scenario)'
    BY <1>1 DEF Plain, Steady, Wide
  <1>3. /\ WindowInv /\ WindowInv' /\ SentInv /\ NumberInv(MaxFrameNum) /\ MatchInv
        /\ Agree'
    BY <1>1, <1>2 DEF SlidingInv, SentPlain, NumberPlain, MatchPlain, AgreePlain, Plain
  <1>4. Inside
    <2>1. ~\E c \in Coded : Lose(c) \/ Deliver(c) \/ Continue(c)
      BY DEF Lose, Deliver, Submit, Continue, Outside, vars
    <2>2. ~(DecodeSlice \/ EndUnit \/ Take)
      BY DEF DecodeSlice, EndUnit, MarkReference, Take, TakeFrames, SubmitParameterSets
    <2>3. ~MCReset
      BY DEF MCReset, Outside
    <2> QED
      BY <1>1, <2>1, <2>2, <2>3 DEF MCStep
  <1>5. /\ Proceed
        /\ enc' = IF phase = "marking" /\ phase' = "ready" /\ IsRef(pic)
                  THEN [enc EXCEPT !.got = @ \cup {slice.frameNum}] ELSE enc
    <2>1. ~ReadSlice /\ ~NextPicture
      BY DEF ReadSlice, NextPicture
    <2>2. ~Abandon
      BY DEF Abandon, AbandonPicture, Fail
    <2> QED
      BY <1>4, <2>1, <2>2 DEF Inside
  <1>6. StorePicture
    <2>1. ~Mmco
      BY <1>3 DEF Mmco, WindowInv
    <2> QED
      BY <1>5, <2>1 DEF Proceed, RefuseGap, FillGap, StartPicture
  <1>7. units' = <<>>
    BY <1>3, <1>5 DEF Proceed, RestOfUnit, SentInv
  <1>8. enc'.sps = enc.sps /\ enc'.frameNum = enc.frameNum
    BY <1>5 DEF SenderInv, EncoderTyped
  <1>9. enc.sps = {slice.sps} /\ ~Refused
    BY <1>3, InFlight
  <1>10. enc'.sps # {} /\ ~Refused'
    BY <1>8, <1>9 DEF Refused
  <1>11. NoneKept' \/ enc'.frameNum = prevRefFrameNum'
    BY <1>3, <1>6, <1>8, StoreCaughtUp
  <1> QED
    BY <1>3, <1>7, <1>10, <1>11 DEF Agree, KeptNumbers

\* The references the DPB keeps are the encoder's, less those that never arrived: in
\* a steady scenario whose windows all have room for a reference, whatever is lost
\* that handle_frame_num_gap makes up for, and across flushes, IDR pictures and the
\* wrap of frame_num.
THEOREM ReferencesAgree == MCSpec /\ Steady(scenario) /\ Wide(scenario) => RefsAreEncoders
<1>1. MCInit => IInv /\ OutputInv
  BY InitIInv, InitOutput DEF MCInit, SubmitInit
<1>2. IInv /\ OutputInv /\ SenderInv /\ SlidingInv /\ [MCNext]_mcvars
         => (IInv /\ OutputInv /\ SenderInv /\ SlidingInv)'
  BY NextIInv, NextOutput, SenderStep, NextSliding
<1>3. /\ IInv /\ OutputInv /\ SenderInv /\ SlidingInv /\ SlidingInv' /\ SentPlain /\ NumberPlain
      /\ MatchPlain /\ AgreePlain' /\ Steady(scenario) /\ Wide(scenario) /\ [MCNext]_mcvars
      => [scenario.markings = {} /\ phase = "marking" /\ phase' = "ready" =>
            {dpb'.entries[i].frameNum : i \in {j \in Refs(dpb'.entries) : ~dpb'.entries[j].nonexisting}}
                = {enc'.refs[k] : k \in DOMAIN enc'.refs} \cap enc'.got]_mcvars
  BY StoredAgrees
<1> QED
  BY <1>1, <1>2, <1>3, SenderInit, InitSliding, InitPlain, SentFollows, NextPlain, NextNumberPlain,
     InitMatch, NextMatchPlain, AgreeFollows, ScenarioStays, PTL DEF MCSpec, RefsAreEncoders
=============================================================================
