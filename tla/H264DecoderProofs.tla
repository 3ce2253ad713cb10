------------------------- MODULE H264DecoderProofs -------------------------
(***************************************************************************)
(* The safety of H264Decoder for any stream of coded pictures and any      *)
(* parameter sets: lossy, non-conforming and refused ones included.        *)
(***************************************************************************)
EXTENDS H264Decoder, H264DpbProofs

-----------------------------------------------------------------------------
(* The operators of H264Dpb *)

\* No memory management operation changes a picture's surface.
LEMMA MmcoFrom ==
  ASSUME NEW n \in Nat, NEW d \in EntriesUpTo(n), NEW cur, NEW op \in MmcoOp
  PROVE  MmcoEntries(d, cur, op) \in EntriesUpTo(n) /\ From(MmcoEntries(d, cur, op), d)
  <1> DEFINE S == MmcoTarget(d, cur, op)
             H == HolderOf(d, op.idx)
             L == {i \in LongTerm(d) : d[i].longTermFrameIdx >= op.maxIdxPlus1}
  <1>1. op.idx \in Nat
    BY DEF MmcoOp
  <1>2. MmcoEntries(d, cur, op) \in
           {Unmark(d, S), AssignLongTerm(Unmark(d, H), S, op.idx), Unmark(d, L),
            Unmark(d, DOMAIN d), Unmark(d, H), d}
    BY DEF MmcoEntries, MarkAllAsUnusedForRef
  <1>3. From(d, d)
    BY DEF From
  <1> HIDE DEF S, H, L
  <1>4. /\ AssignLongTerm(Unmark(d, H), S, op.idx) \in EntriesUpTo(n)
        /\ From(AssignLongTerm(Unmark(d, H), S, op.idx), d)
    BY <1>1, UnmarkFrom, AssignLongTermFrom, FromTransitive
  <1> QED
    BY <1>2, <1>3, <1>4, UnmarkFrom

-----------------------------------------------------------------------------
(* The invariant *)

\* What DpbWithinSequence says of entries d and sequence s.
Within(d, s) ==
    /\ \A i \in DOMAIN d : d[i].gen = IF d[i].nonexisting THEN 0 ELSE s.gen
    /\ Cardinality(DOMAIN d) <= s.maxDpbFrames

\* While a picture is in the making the DPB's limit is the one its sequence
\* was built for, and the picture has a surface and a number.
InTheMaking ==
    /\ phase \in {"gap", "picture", "marking"} => dpb.maxNumPics = sequence.maxDpbFrames
    /\ phase \in {"picture", "marking"} => ~pic.nonexisting /\ pictures > 0

IInv == TypeOK /\ InTheMaking /\ Within(dpb.entries, sequence)

\* The type invariant's first conjunct, with the union in place of the quantifier.
LEMMA DpbType ==
  ASSUME NEW b, NEW n
  PROVE  b \in DpbUpTo(n) <=>
            \E D \in SUBSET (1 .. n) :
               b \in [entries : [D -> Entry], maxNumPics : Nat, maxReorder : Nat]
  BY DEF DpbUpTo, EntriesUpTo

\* Fewer pictures stay within the limit, each with its surface.
LEMMA WithinFrom ==
  ASSUME NEW n \in Nat, NEW d \in EntriesUpTo(n), NEW e, From(e, d),
         NEW s, s.maxDpbFrames \in Nat, Within(d, s)
  PROVE  Within(e, s)
  <1>1. Cardinality(DOMAIN e) \in Nat /\ Cardinality(DOMAIN e) <= Cardinality(DOMAIN d)
    BY EntriesFinite, FS_Subset, FS_CardinalityType DEF From
  <1> QED
    BY <1>1, EntriesFinite DEF Within, From

\* A DPB without pictures is within every sequence (clear).
LEMMA ClearWithin ==
  ASSUME NEW n \in Nat, NEW b \in DpbUpTo(n), NEW s, s.maxDpbFrames \in Nat
  PROVE  /\ Clear(b) \in DpbUpTo(n) /\ Clear(b).maxNumPics = b.maxNumPics
         /\ Within(Clear(b).entries, s)
  <1>1. NoEntries \in EntriesUpTo(n) /\ DOMAIN NoEntries = {}
    <2>1. DOMAIN NoEntries = {} /\ NoEntries = [i \in DOMAIN NoEntries |-> NoEntries[i]]
      BY DEF NoEntries
    <2> QED
      BY <2>1, EntriesIntro
  <1>2. Cardinality({}) = 0
    BY FS_EmptySet
  <1>3. /\ Clear(b).entries = NoEntries
        /\ Clear(b) \in DpbUpTo(n) /\ Clear(b).maxNumPics = b.maxNumPics
    BY <1>1 DEF Clear, DpbUpTo
  <1> QED
    BY <1>1, <1>2, <1>3 DEF Within

\* A new picture number takes the DPB's type along.
LEMMA MorePictures ==
  ASSUME NEW n \in Nat
  PROVE  /\ DpbUpTo(n) \subseteq DpbUpTo(n + 1)
         /\ Seq(1 .. n) \subseteq Seq(1 .. n + 1)
  <1>1. 1 .. n \subseteq 1 .. n + 1
    OBVIOUS
  <1>2. EntriesUpTo(n) \subseteq EntriesUpTo(n + 1)
    BY <1>1 DEF EntriesUpTo
  <1> QED
    BY <1>1, <1>2 DEF DpbUpTo

\* Storing a picture of the sequence's pool, or one without surface, where the
\* limit allows it (store_picture).
LEMMA StoreWithin ==
  ASSUME NEW n \in Nat, NEW b \in DpbUpTo(n), NEW id \in 1 .. n, NEW gen \in Nat,
         NEW p, p.poc \in Int, p.frameNum \in Nat, p.picNum \in Int, p.ref \in Marks,
         p.longTermFrameIdx \in Nat, p.nonexisting \in BOOLEAN,
         NEW s, s.maxDpbFrames \in Nat, Within(b.entries, s),
         b.maxNumPics = s.maxDpbFrames, HasEmptyFrameBuffer(b),
         gen = IF p.nonexisting THEN 0 ELSE s.gen
  PROVE  /\ Store(b, id, p, gen) \in DpbUpTo(n)
         /\ Store(b, id, p, gen).maxNumPics = b.maxNumPics
         /\ Within(Store(b, id, p, gen).entries, s)
  <1> DEFINE new == [poc |-> p.poc, frameNum |-> p.frameNum, picNum |-> p.picNum,
                     ref |-> p.ref, longTermFrameIdx |-> p.longTermFrameIdx,
                     longTermPicNum |-> 0, nonexisting |-> p.nonexisting,
                     needed |-> ~p.nonexisting, gen |-> gen]
             e == [i \in DOMAIN b.entries \cup {id} |-> IF i = id THEN new ELSE b.entries[i]]
  <1>1. b.entries \in EntriesUpTo(n)
    BY DEF DpbUpTo
  <1>2. /\ DOMAIN b.entries \subseteq 1 .. n
        /\ \A i \in DOMAIN b.entries : b.entries[i] \in Entry
    BY <1>1, EntriesElim
  <1>3. new \in Entry /\ new.gen = gen /\ new.nonexisting = p.nonexisting
    BY DEF Entry
  <1>4. Store(b, id, p, gen) = [b EXCEPT !.entries = e]
    BY DEF Store
  <1> HIDE DEF new
  <1>5. e \in EntriesUpTo(n) /\ DOMAIN e = DOMAIN b.entries \cup {id}
    BY <1>2, <1>3, EntriesIntro
  <1>6. Cardinality(DOMAIN e) <= s.maxDpbFrames
    <2>1. Cardinality(DOMAIN e) \in {Cardinality(DOMAIN b.entries), Cardinality(DOMAIN b.entries) + 1}
      BY <1>1, <1>5, EntriesFinite, FS_AddElement
    <2>2. Cardinality(DOMAIN b.entries) \in Nat
      BY <1>1, EntriesFinite
    <2>3. Cardinality(DOMAIN b.entries) < s.maxDpbFrames
      BY DEF HasEmptyFrameBuffer
    <2> QED
      BY <2>1, <2>2, <2>3
  <1>7. \A i \in DOMAIN e : e[i].gen = IF e[i].nonexisting THEN 0 ELSE s.gen
    BY <1>3, <1>5 DEF Within
  <1>8. Within(e, s)
    BY <1>6, <1>7 DEF Within
  <1> HIDE DEF e
  <1>9. /\ [b EXCEPT !.entries = e] \in DpbUpTo(n)
        /\ [b EXCEPT !.entries = e].maxNumPics = b.maxNumPics
        /\ [b EXCEPT !.entries = e].entries = e
    BY <1>5 DEF DpbUpTo
  <1> QED
    BY <1>4, <1>8, <1>9

\* The initial decoder: no sequence, an empty DPB whose limits are 0.
LEMMA InitIInv == Init => IInv
  <1> SUFFICES ASSUME Init PROVE IInv
    OBVIOUS
  <1>1. /\ EmptyDpb \in DpbUpTo(0)
        /\ EmptyDpb.entries = NoEntries
        /\ DOMAIN NoEntries = {}
    <2>1. DOMAIN NoEntries = {} /\ NoEntries = [i \in DOMAIN NoEntries |-> NoEntries[i]]
      BY DEF NoEntries
    <2>2. NoEntries \in EntriesUpTo(0)
      BY <2>1, EntriesIntro
    <2> QED
      BY <2>1, <2>2 DEF EmptyDpb, DpbUpTo
  <1>2. TypeOK
    BY <1>1, DpbType DEF Init, TypeOK, NoSequence
  <1>3. InTheMaking
    BY DEF Init, InTheMaking
  <1>4. Within(dpb.entries, sequence)
    BY <1>1, FS_EmptySet DEF Init, Within, NoSequence
  <1> QED
    BY <1>2, <1>3, <1>4 DEF IInv

-----------------------------------------------------------------------------
(* begin_picture *)

\* The invariant, where the next steps need it.
LEMMA Facts ==
  ASSUME IInv
  PROVE  /\ dpb \in DpbUpTo(pictures)
         /\ dpb.entries \in EntriesUpTo(pictures)
         /\ sequence \in [gen : Nat, shape : Nat, maxDpbFrames : Nat]
         /\ pictures \in Nat
         /\ Within(dpb.entries, sequence)
  <1>1. dpb \in DpbUpTo(pictures)
    BY DpbType DEF IInv, TypeOK
  <1> QED
    BY <1>1 DEF IInv, TypeOK, DpbUpTo

\* A set that is refused leaves no call in progress; the DPB keeps its
\* pictures, perhaps over its new limit (va_profile).
LEMMA RefuseSpsIInv ==
  ASSUME IInv, NEW sps \in SpsSet, RefuseSps(sps),
         UNCHANGED <<prevRefFrameNum, maxLongTerm, pictures, taken, discarded>>
  PROVE  IInv'
  <1>1. /\ phase' = "idle" /\ result' = "sps"
        /\ slice' = NoPicture /\ pic' = NoPicture /\ todo' = <<>> /\ unused' = 0
        /\ UNCHANGED <<sequence, ready>>
    BY DEF RefuseSps, Fail
  <1>2. sps \in SequenceInfo /\ ReorderLimit(sps) \in Nat
    BY SpsAssumption DEF SequenceInfo, ReorderLimit
  <1>3. dpb' \in DpbUpTo(pictures) /\ dpb'.entries = dpb.entries
    BY <1>2, Facts DEF RefuseSps, SetLimits, DpbUpTo, SequenceInfo
  <1>4. TypeOK'
    BY <1>1, <1>3, DpbType DEF IInv, TypeOK
  <1> QED
    BY <1>1, <1>3, <1>4 DEF IInv, InTheMaking, Within

\* The sequence stays: its limit is the one the new set has as well.
LEMMA KeepSequenceDpb ==
  ASSUME IInv, NEW sps \in SpsSet, KeepSequence(sps)
  PROVE  /\ dpb' \in DpbUpTo(pictures) /\ dpb'.entries = dpb.entries
         /\ dpb'.maxNumPics = sequence'.maxDpbFrames
         /\ UNCHANGED <<sequence, ready>>
  <1>1. sps \in SequenceInfo /\ ReorderLimit(sps) \in Nat
    BY SpsAssumption DEF SequenceInfo, ReorderLimit
  <1> QED
    BY <1>1, Facts DEF KeepSequence, SameFormat, SetLimits, DpbUpTo, SequenceInfo

\* The new sequence begins with an empty DPB of its limit (Sequence::new).
LEMMA RebuildSequenceDpb ==
  ASSUME IInv, NEW sps \in SpsSet, NEW built \in BOOLEAN, RebuildSequence(sps, built)
  PROVE  /\ dpb' \in DpbUpTo(pictures)
         /\ Within(dpb'.entries, sequence')
         /\ sequence' \in [gen : Nat, shape : Nat, maxDpbFrames : Nat]
         /\ built => dpb'.maxNumPics = sequence'.maxDpbFrames
         /\ ready' \in Seq(1 .. pictures)
  <1> DEFINE b == SetLimits(dpb, sps.maxDpbFrames, ReorderLimit(sps))
  <1>1. sps \in SequenceInfo /\ ReorderLimit(sps) \in Nat
    BY SpsAssumption DEF SequenceInfo, ReorderLimit
  <1>2. b \in DpbUpTo(pictures) /\ b.maxNumPics = sps.maxDpbFrames
    BY <1>1, Facts DEF SetLimits, DpbUpTo, SequenceInfo
  <1>3. sequence' = IF built
                    THEN [gen |-> sequence.gen + 1, shape |-> sps.shape,
                          maxDpbFrames |-> sps.maxDpbFrames]
                    ELSE sequence
    BY DEF RebuildSequence
  <1>4. sequence' \in [gen : Nat, shape : Nat, maxDpbFrames : Nat]
    BY <1>1, <1>3, Facts DEF SequenceInfo
  <1>5. dpb' = Clear(b)
    BY DEF RebuildSequence
  <1> HIDE DEF b
  <1>6. /\ dpb' \in DpbUpTo(pictures) /\ dpb'.maxNumPics = sps.maxDpbFrames
        /\ Within(dpb'.entries, sequence')
    BY <1>2, <1>4, <1>5, Facts, ClearWithin
  <1>7. PICK out \in Drained(dpb) : ready' = ready \o out
    BY DEF RebuildSequence
  <1>8. out \in Seq(1 .. pictures)
    BY Facts, OutputOrdersType DEF Drained, Waiting
  <1>9. ready' \in Seq(1 .. pictures)
    BY <1>7, <1>8 DEF IInv, TypeOK
  <1> QED
    BY <1>3, <1>4, <1>6, <1>9

\* begin_picture up to the frame_num check keeps the invariant.
LEMMA BeginPictureIInv ==
  ASSUME IInv, NEW c \in CodedPicture, BeginPicture(c)
  PROVE  IInv'
  <1>1. /\ c.sps \in SpsSet
        /\ UNCHANGED <<maxLongTerm, pictures, taken, discarded>>
    BY DEF BeginPicture, CodedPicture
  <1>2. CASE RefuseSps(c.sps) /\ UNCHANGED prevRefFrameNum
    BY <1>1, <1>2, RefuseSpsIInv
  <1>3. CASE RebuildSequence(c.sps, FALSE) /\ Fail("va") /\ UNCHANGED prevRefFrameNum
    <2>1. /\ dpb' \in DpbUpTo(pictures)
          /\ Within(dpb'.entries, sequence')
          /\ sequence' \in [gen : Nat, shape : Nat, maxDpbFrames : Nat]
          /\ ready' \in Seq(1 .. pictures)
      BY <1>1, <1>3, RebuildSequenceDpb
    <2>2. /\ phase' = "idle" /\ result' = "va"
          /\ slice' = NoPicture /\ pic' = NoPicture /\ todo' = <<>> /\ unused' = 0
      BY <1>3 DEF Fail
    <2>3. TypeOK'
      BY SMTT(60), <1>1, <1>3, <2>1, <2>2, DpbType DEF IInv, TypeOK
    <2> QED
      BY <2>1, <2>2, <2>3 DEF IInv, InTheMaking
  <1>4. CASE /\ KeepSequence(c.sps) \/ RebuildSequence(c.sps, TRUE)
             /\ prevRefFrameNum' = IF c.idr THEN 0 ELSE prevRefFrameNum
             /\ phase' = "gap"
             /\ slice' = c
             /\ unused' = (prevRefFrameNum' + 1) % c.sps.maxFrameNum
             /\ result' = "ok"
             /\ UNCHANGED <<pic, todo>>
    <2>1. /\ dpb' \in DpbUpTo(pictures)
          /\ Within(dpb'.entries, sequence')
          /\ sequence' \in [gen : Nat, shape : Nat, maxDpbFrames : Nat]
          /\ dpb'.maxNumPics = sequence'.maxDpbFrames
          /\ ready' \in Seq(1 .. pictures)
      <3>1. CASE KeepSequence(c.sps)
        <4>1. ready \in Seq(1 .. pictures)
          BY DEF IInv, TypeOK
        <4> QED
          BY <1>1, <3>1, <4>1, KeepSequenceDpb, Facts DEF Within
      <3>2. CASE RebuildSequence(c.sps, TRUE)
        BY <1>1, <3>2, RebuildSequenceDpb
      <3> QED
        BY <1>4, <3>1, <3>2
    <2>2. prevRefFrameNum' \in Nat /\ unused' \in Nat
      <3>1. prevRefFrameNum' \in Nat
        BY <1>4 DEF IInv, TypeOK
      <3>2. c.sps.maxFrameNum \in Nat \ {0}
        BY <1>1, SpsAssumption DEF SequenceInfo
      <3> QED
        BY <1>4, <3>1, <3>2
    <2>3. pic = NoPicture
      BY DEF BeginPicture, IInv, TypeOK
    <2>4. TypeOK'
      BY <1>1, <1>4, <2>1, <2>2, <2>3, DpbType DEF IInv, TypeOK
    <2> QED
      BY <1>4, <2>1, <2>4 DEF IInv, InTheMaking
  <1> QED
    BY <1>2, <1>3, <1>4 DEF BeginPicture

\* An error that leaves the DPB alone keeps the invariant.
LEMMA FailIInv ==
  ASSUME IInv, NEW why \in {"ok", "sps", "va", "gap", "mmco", "full"}, Fail(why),
         UNCHANGED <<dpb, sequence, prevRefFrameNum, maxLongTerm, ready, pictures, taken, discarded>>
  PROVE  IInv'
  <1>1. /\ phase' = "idle" /\ result' = why
        /\ slice' = NoPicture /\ pic' = NoPicture /\ todo' = <<>> /\ unused' = 0
    BY DEF Fail
  <1>2. TypeOK'
    BY <1>1 DEF IInv, TypeOK
  <1> QED
    BY <1>1, <1>2 DEF IInv, InTheMaking, Within

\* What the sliding window and the bumping leave, before a picture is stored.
LEMMA RoomWithin ==
  ASSUME NEW n \in Nat, NEW b \in DpbUpTo(n), NEW d \in EntriesUpTo(n), From(d, b.entries),
         NEW S, NEW s, s.maxDpbFrames \in Nat, Within(b.entries, s)
  PROVE  /\ [b EXCEPT !.entries = Bump(d, S)] \in DpbUpTo(n)
         /\ [b EXCEPT !.entries = Bump(d, S)].maxNumPics = b.maxNumPics
         /\ Within([b EXCEPT !.entries = Bump(d, S)].entries, s)
  <1>1. Bump(d, S) \in EntriesUpTo(n) /\ From(Bump(d, S), d)
    BY BumpFrom
  <1>2. b.entries \in EntriesUpTo(n)
    BY DEF DpbUpTo
  <1>3. Within(Bump(d, S), s)
    BY <1>1, <1>2, FromTransitive, WithinFrom
  <1> QED
    BY <1>1, <1>3 DEF DpbUpTo

\* A round of handle_frame_num_gap stores a picture without a surface, or finds
\* no room for it.
LEMMA FillGapIInv ==
  ASSUME IInv, FillGap
  PROVE  IInv'
  <1> DEFINE new      == NonExisting(unused)
             numbered == UpdatePicNums(dpb.entries, unused, slice.sps.maxFrameNum)
             window   == SlidingWindowMarking(numbered, slice.sps.maxNumRefFrames)
             marked   == [dpb EXCEPT !.entries = window]
             bumped   == BumpedAsNeeded(marked, new)
             room     == [marked EXCEPT !.entries = Bump(@, bumped)]
  <1>1. /\ phase = "gap" /\ slice \in CodedPicture /\ pic = NoPicture
        /\ unused \in Nat
        /\ slice.sps \in SequenceInfo
        /\ dpb.maxNumPics = sequence.maxDpbFrames
    BY SpsAssumption DEF FillGap, IInv, TypeOK, InTheMaking, CodedPicture
  <1>2. slice.sps.maxFrameNum \in Nat \ {0} /\ (unused + 1) % slice.sps.maxFrameNum \in Nat
    BY <1>1 DEF SequenceInfo
  <1>3. /\ UNCHANGED <<sequence, prevRefFrameNum, maxLongTerm, taken, discarded>>
        /\ \E out \in OutputOrders(window, bumped) : ready' = ready \o out
        /\ \/ /\ HasEmptyFrameBuffer(room)
              /\ dpb' = Store(room, pictures + 1, new, 0)
              /\ pictures' = pictures + 1
              /\ unused' = (unused + 1) % slice.sps.maxFrameNum
              /\ UNCHANGED <<phase, result, slice, pic, todo>>
           \/ /\ dpb' = room
              /\ Fail("full")
              /\ UNCHANGED pictures
    BY Facts DEF FillGap, DpbUpTo
  <1>4. /\ numbered \in EntriesUpTo(pictures) /\ From(numbered, dpb.entries)
    BY <1>1, <1>2, Facts, UpdatePicNumsFrom
  <1>5. bumped \subseteq DOMAIN window
    BY Facts DEF BumpedAsNeeded, Waiting, DpbUpTo
  <1>6. new.poc = 0 /\ new.frameNum = unused /\ new.picNum = unused
        /\ new.ref = "ShortTerm" /\ new.longTermFrameIdx = 0 /\ new.nonexisting = TRUE
    BY DEF NonExisting
  <1> HIDE DEF numbered, bumped, new
  <1>7. window \in EntriesUpTo(pictures) /\ From(window, dpb.entries)
    BY <1>4, Facts, SlidingWindowFrom, FromTransitive
  <1>room. room = [dpb EXCEPT !.entries = Bump(window, bumped)]
    BY Facts DEF DpbUpTo
  <1> HIDE DEF window, room
  <1>8. /\ room \in DpbUpTo(pictures) /\ room.maxNumPics = sequence.maxDpbFrames
        /\ Within(room.entries, sequence)
    <2>1. sequence.maxDpbFrames \in Nat
      BY Facts
    <2> QED
      BY <1>1, <1>7, <1>room, <2>1, Facts, RoomWithin
  <1>9. ready' \in Seq(1 .. pictures)
    <2>1. PICK out \in OutputOrders(window, bumped) : ready' = ready \o out
      BY <1>3
    <2>2. out \in Seq(1 .. pictures)
      BY <1>5, <1>7, <2>1, Facts, OutputOrdersType
    <2> QED
      BY <2>1, <2>2 DEF IInv, TypeOK
  <1>10. CASE /\ HasEmptyFrameBuffer(room)
              /\ dpb' = Store(room, pictures + 1, new, 0)
              /\ pictures' = pictures + 1
              /\ unused' = (unused + 1) % slice.sps.maxFrameNum
              /\ UNCHANGED <<phase, result, slice, pic, todo>>
    <2>1. room \in DpbUpTo(pictures + 1) /\ pictures + 1 \in Nat /\ pictures + 1 \in 1 .. pictures + 1
      BY <1>8, Facts, MorePictures
    <2>2. /\ dpb' \in DpbUpTo(pictures')
          /\ dpb'.maxNumPics = sequence.maxDpbFrames
          /\ Within(dpb'.entries, sequence)
      <3>1. /\ new.poc \in Int /\ new.frameNum \in Nat /\ new.picNum \in Int
            /\ new.ref \in Marks /\ new.longTermFrameIdx \in Nat
        BY <1>1, <1>6 DEF Marks
      <3>4. /\ new.nonexisting \in BOOLEAN
            /\ 0 = IF new.nonexisting THEN 0 ELSE sequence.gen
        BY <1>6, Zenon
      <3>2. sequence.maxDpbFrames \in Nat /\ 0 \in Nat /\ HasEmptyFrameBuffer(room)
        BY <1>10, Facts
      <3>3. LET b == Store(room, pictures + 1, new, 0)
            IN  /\ b \in DpbUpTo(pictures + 1)
                /\ b.maxNumPics = room.maxNumPics
                /\ Within(b.entries, sequence)
        BY <1>8, <2>1, <3>1, <3>2, <3>4, StoreWithin
      <3> QED
        BY <1>8, <1>10, <3>3
    <2>3. /\ ready' \in Seq(1 .. pictures') /\ taken' \in Seq(1 .. pictures')
          /\ discarded' \subseteq 1 .. pictures'
      BY SMTT(60), <1>3, <1>9, <1>10, Facts, MorePictures DEF IInv, TypeOK
    <2>4. TypeOK'
      BY <1>1, <1>2, <1>3, <1>10, <2>1, <2>2, <2>3, DpbType DEF IInv, TypeOK
    <2> QED
      BY <1>1, <1>3, <1>10, <2>2, <2>4 DEF IInv, InTheMaking
  <1>11. CASE dpb' = room /\ Fail("full") /\ UNCHANGED pictures
    <2>1. /\ phase' = "idle" /\ result' = "full"
          /\ slice' = NoPicture /\ pic' = NoPicture /\ todo' = <<>> /\ unused' = 0
      BY <1>11 DEF Fail
    <2>2. TypeOK'
      BY SMTT(60), <1>3, <1>8, <1>9, <1>11, <2>1, DpbType DEF IInv, TypeOK
    <2> QED
      BY <1>3, <1>8, <1>11, <2>1, <2>2 DEF IInv, InTheMaking
  <1> QED
    BY <1>3, <1>10, <1>11

\* init_current_pic drains or clears the DPB for an IDR picture, and numbers
\* the pictures of another.
LEMMA StartPictureIInv ==
  ASSUME IInv, NEW allocated \in BOOLEAN, StartPicture(allocated)
  PROVE  IInv'
  <1> DEFINE left == IF slice.idr THEN Clear(dpb) ELSE dpb
             numbered == UpdatePicNums(left.entries, slice.frameNum, slice.sps.maxFrameNum)
             coded == [poc |-> slice.poc, frameNum |-> slice.frameNum, picNum |-> slice.frameNum,
                       ref |-> IF slice.ref THEN "ShortTerm" ELSE "None",
                       longTermFrameIdx |-> 0, nonexisting |-> FALSE,
                       idr |-> slice.idr, mmco5 |-> FALSE]
  <1>1. /\ phase = "gap" /\ slice \in CodedPicture
        /\ slice.sps \in SequenceInfo /\ slice.frameNum \in Nat
        /\ dpb.maxNumPics = sequence.maxDpbFrames
    BY SpsAssumption DEF StartPicture, IInv, TypeOK, InTheMaking, CodedPicture
  <1>2. slice.sps.maxFrameNum \in Nat
    BY <1>1 DEF SequenceInfo
  <1>3. coded \in Picture
    BY <1>1 DEF CodedPicture, Picture, Marks
  <1>surface. coded.nonexisting = FALSE
    OBVIOUS
  <1>4. /\ left \in DpbUpTo(pictures) /\ left.maxNumPics = sequence.maxDpbFrames
        /\ Within(left.entries, sequence)
    BY <1>1, Facts, ClearWithin
  <1>5. /\ UNCHANGED <<sequence, prevRefFrameNum, maxLongTerm, taken>>
        /\ ready' = ready \/ \E out \in Drained(dpb) : ready' = ready \o out
        /\ discarded' \subseteq discarded \cup DOMAIN dpb.entries
        /\ dpb' = [left EXCEPT !.entries = numbered]
    BY DEF StartPicture, Waiting
  <1>6. \/ /\ pictures' = pictures + 1 /\ phase' = "picture" /\ pic' = coded /\ unused' = 0
           /\ UNCHANGED <<result, slice, todo>>
        \/ Fail("va") /\ UNCHANGED pictures
    BY DEF StartPicture
  <1> HIDE DEF left, coded
  <1>7. left.entries \in EntriesUpTo(pictures)
    BY <1>4 DEF DpbUpTo
  <1>8. numbered \in EntriesUpTo(pictures) /\ From(numbered, left.entries)
    BY <1>1, <1>2, <1>7, Facts, UpdatePicNumsFrom
  <1> HIDE DEF numbered
  <1>9. /\ dpb' \in DpbUpTo(pictures) /\ dpb'.maxNumPics = sequence.maxDpbFrames
        /\ Within(dpb'.entries, sequence)
    BY <1>4, <1>5, <1>7, <1>8, Facts, WithinFrom DEF DpbUpTo
  <1>10. ready' \in Seq(1 .. pictures) /\ discarded' \subseteq 1 .. pictures
    <2>1. \A out \in Drained(dpb) : out \in Seq(1 .. pictures)
      BY Facts, OutputOrdersType DEF Drained, Waiting
    <2>2. DOMAIN dpb.entries \subseteq 1 .. pictures
      BY Facts, EntriesElim
    <2>3. ready \in Seq(1 .. pictures) /\ discarded \subseteq 1 .. pictures
      BY DEF IInv, TypeOK
    <2>4. CASE ready' = ready
      BY <2>2, <2>3, <2>4, <1>5
    <2>5. ASSUME NEW out \in Drained(dpb), ready' = ready \o out
          PROVE  ready' \in Seq(1 .. pictures)
      <3>1. out \in Seq(1 .. pictures)
        BY <2>1
      <3> QED
        BY <2>3, <2>5, <3>1
    <2> QED
      BY <1>5, <2>2, <2>3, <2>4, <2>5
  <1>11. CASE /\ pictures' = pictures + 1 /\ phase' = "picture" /\ pic' = coded /\ unused' = 0
              /\ UNCHANGED <<result, slice, todo>>
    <2>1. /\ dpb' \in DpbUpTo(pictures')
          /\ ready' \in Seq(1 .. pictures') /\ taken' \in Seq(1 .. pictures')
          /\ discarded' \subseteq 1 .. pictures'
      BY SMTT(60), <1>5, <1>9, <1>10, <1>11, Facts, MorePictures DEF IInv, TypeOK
    <2>2. /\ sequence' \in [gen : Nat, shape : Nat, maxDpbFrames : Nat]
          /\ prevRefFrameNum' \in Nat /\ maxLongTerm' \in Nat /\ unused' \in Nat
          /\ pictures' \in Nat
          /\ todo' \in Seq(MmcoOp)
          /\ result' \in {"ok", "sps", "va", "gap", "mmco", "full"}
      BY SMTT(60), <1>5, <1>11, Facts DEF IInv, TypeOK
    <2>3. phase' = "picture" /\ slice' \in CodedPicture /\ pic' \in Picture
      BY <1>1, <1>3, <1>11
    <2>4. TypeOK'
      BY <2>1, <2>2, <2>3, DpbType DEF TypeOK
    <2> QED
      BY <1>surface, <1>5, <1>9, <1>11, <2>4, Facts DEF IInv, InTheMaking
  <1>12. CASE Fail("va") /\ UNCHANGED pictures
    <2>1. /\ phase' = "idle" /\ result' = "va"
          /\ slice' = NoPicture /\ pic' = NoPicture /\ todo' = <<>> /\ unused' = 0
      BY <1>12 DEF Fail
    <2>2. TypeOK'
      BY SMTT(60), <1>5, <1>9, <1>10, <1>12, <2>1, DpbType DEF IInv, TypeOK
    <2> QED
      BY <1>5, <1>9, <2>1, <2>2 DEF IInv, InTheMaking
  <1> QED
    BY <1>6, <1>11, <1>12

-----------------------------------------------------------------------------
(* finish_picture *)

\* The current picture becomes a long-term reference (an IDR picture, or
\* operation 6) with the surface it has.
LEMMA BecomeLongTerm ==
  ASSUME NEW p \in Picture, NEW idx \in Nat
  PROVE  LET l == [p EXCEPT !.ref = "LongTerm", !.longTermFrameIdx = idx]
         IN  l \in Picture /\ l.nonexisting = p.nonexisting
  BY DEF Picture, Marks

\* Operations 5 and 6 leave the current picture its surface.
LEMMA MmcoPictureType ==
  ASSUME NEW p \in Picture, NEW op \in MmcoOp
  PROVE  MmcoPicture(p, op) \in Picture /\ MmcoPicture(p, op).nonexisting = p.nonexisting
  <1> DEFINE l == [p EXCEPT !.ref = "LongTerm", !.longTermFrameIdx = op.idx]
             f == [p EXCEPT !.mmco5 = TRUE, !.frameNum = 0, !.poc = 0]
  <1>1. l \in Picture /\ l.nonexisting = p.nonexisting
    BY BecomeLongTerm DEF MmcoOp
  <1>2. f \in Picture /\ f.nonexisting = p.nonexisting
    <2> DEFINE a == [p EXCEPT !.mmco5 = TRUE]
               b == [a EXCEPT !.frameNum = 0]
    <2>1. a \in Picture /\ a.nonexisting = p.nonexisting
      BY DEF Picture
    <2> HIDE DEF a
    <2>2. b \in Picture /\ b.nonexisting = p.nonexisting
      BY <2>1 DEF Picture
    <2> HIDE DEF b
    <2>3. [b EXCEPT !.poc = 0] \in Picture /\ [b EXCEPT !.poc = 0].nonexisting = p.nonexisting
      BY <2>2 DEF Picture
    <2> QED
      BY <2>3 DEF a, b
  <1>3. MmcoPicture(p, op) = l \/ MmcoPicture(p, op) = f \/ MmcoPicture(p, op) = p
    BY DEF MmcoPicture
  <1> HIDE DEF l, f
  <1> QED
    BY <1>1, <1>2, <1>3

\* Reference marking unmarks pictures and may make the current one long-term.
LEMMA MarkReferenceIInv ==
  ASSUME IInv, MarkReference
  PROVE  IInv'
  <1>1. /\ phase = "picture" /\ phase' = "marking"
        /\ slice \in CodedPicture /\ pic \in Picture /\ ~pic.nonexisting
        /\ dpb.maxNumPics = sequence.maxDpbFrames
        /\ UNCHANGED <<sequence, prevRefFrameNum, ready, slice, unused, pictures, result,
                       taken, discarded>>
    BY DEF MarkReference, IInv, TypeOK, InTheMaking
  <1>2. /\ \/ dpb' = dpb
           \/ dpb' = [dpb EXCEPT !.entries = MarkAllAsUnusedForRef(@)]
           \/ dpb' = [dpb EXCEPT !.entries = SlidingWindowMarking(@, slice.sps.maxNumRefFrames)]
        /\ pic' = pic \/ pic' = [pic EXCEPT !.ref = "LongTerm", !.longTermFrameIdx = 0]
        /\ maxLongTerm' \in {0, 1, maxLongTerm}
        /\ todo' \in {todo, slice.mmco}
    BY DEF MarkReference
  <1>3. /\ dpb' \in DpbUpTo(pictures) /\ dpb'.maxNumPics = dpb.maxNumPics
        /\ Within(dpb'.entries, sequence)
    <2>1. CASE dpb' = dpb
      BY <2>1, Facts
    <2>2. ASSUME NEW e \in EntriesUpTo(pictures), From(e, dpb.entries),
                 dpb' = [dpb EXCEPT !.entries = e]
          PROVE  /\ dpb' \in DpbUpTo(pictures) /\ dpb'.maxNumPics = dpb.maxNumPics
                 /\ Within(dpb'.entries, sequence)
      BY <2>2, Facts, WithinFrom DEF DpbUpTo
    <2> QED
      BY <1>2, <2>1, <2>2, Facts, UnmarkFrom, SlidingWindowFrom DEF MarkAllAsUnusedForRef
  <1>4. pic' \in Picture /\ pic'.nonexisting = pic.nonexisting
    BY ZenonT(60), <1>1, <1>2, BecomeLongTerm
  <1>5. todo' \in Seq(MmcoOp) /\ maxLongTerm' \in Nat
    BY <1>1, <1>2 DEF IInv, TypeOK, CodedPicture
  <1>6. TypeOK'
    BY <1>1, <1>3, <1>4, <1>5, DpbType DEF IInv, TypeOK
  <1> QED
    BY <1>1, <1>3, <1>4, <1>6 DEF IInv, InTheMaking

\* A memory management operation keeps every surface where it is.
LEMMA MmcoIInv ==
  ASSUME IInv, Mmco
  PROVE  IInv'
  <1> DEFINE op == Head(todo)
  <1>1. /\ phase = "marking" /\ pic \in Picture /\ ~pic.nonexisting
        /\ slice \in CodedPicture
        /\ dpb.maxNumPics = sequence.maxDpbFrames
        /\ UNCHANGED <<sequence, prevRefFrameNum, ready, pictures, taken, discarded>>
    BY DEF Mmco, IInv, TypeOK, InTheMaking
  <1>2. op \in MmcoOp /\ Tail(todo) \in Seq(MmcoOp)
    BY DEF Mmco, IInv, TypeOK
  <1>3. \/ Fail("mmco") /\ UNCHANGED <<dpb, maxLongTerm>>
        \/ /\ dpb' = [dpb EXCEPT !.entries = MmcoEntries(@, pic, op)]
           /\ pic' = MmcoPicture(pic, op)
           /\ maxLongTerm' \in {op.maxIdxPlus1, 0, maxLongTerm}
           /\ todo' = Tail(todo)
           /\ UNCHANGED <<phase, result, slice, unused>>
    BY DEF Mmco
  <1> HIDE DEF op
  <1>4. CASE Fail("mmco") /\ UNCHANGED <<dpb, maxLongTerm>>
    BY <1>1, <1>4, FailIInv
  <1>5. CASE /\ dpb' = [dpb EXCEPT !.entries = MmcoEntries(@, pic, op)]
             /\ pic' = MmcoPicture(pic, op)
             /\ maxLongTerm' \in {op.maxIdxPlus1, 0, maxLongTerm}
             /\ todo' = Tail(todo)
             /\ UNCHANGED <<phase, result, slice, unused>>
    <2>1. /\ MmcoEntries(dpb.entries, pic, op) \in EntriesUpTo(pictures)
          /\ From(MmcoEntries(dpb.entries, pic, op), dpb.entries)
      BY <1>2, Facts, MmcoFrom
    <2>2. /\ dpb' \in DpbUpTo(pictures) /\ dpb'.maxNumPics = dpb.maxNumPics
          /\ Within(dpb'.entries, sequence)
      BY <1>5, <2>1, Facts, WithinFrom DEF DpbUpTo
    <2>3. op.idx \in Nat /\ op.maxIdxPlus1 \in Nat
      BY <1>2 DEF MmcoOp
    <2>4. pic' \in Picture /\ pic'.nonexisting = pic.nonexisting
      BY <1>1, <1>2, <1>5, MmcoPictureType
    <2>5. maxLongTerm' \in Nat
      BY SMTT(60), <1>5, <2>3 DEF IInv, TypeOK
    <2>6. TypeOK'
      BY <1>1, <1>2, <1>5, <2>2, <2>4, <2>5, DpbType DEF IInv, TypeOK
    <2> QED
      BY <1>1, <1>5, <2>2, <2>4, <2>6 DEF IInv, InTheMaking
  <1> QED
    BY <1>3, <1>4, <1>5

\* finish_picture stores the picture where there is room, or hands it out, or
\* refuses it; at operation 5 it drains the DPB first.
LEMMA StorePictureIInv ==
  ASSUME IInv, StorePicture
  PROVE  IInv'
  <1> DEFINE drained == IF pic.mmco5 THEN Clear(dpb) ELSE dpb
             bumped  == BumpedAsNeeded(drained, pic)
             room    == [drained EXCEPT !.entries = Bump(@, bumped)]
             direct  == ~HasEmptyFrameBuffer(room) /\ ~IsRef(pic)
  <1>1. /\ phase = "marking" /\ pic \in Picture /\ ~pic.nonexisting
        /\ slice \in CodedPicture /\ pictures \in 1 .. pictures
        /\ dpb.maxNumPics = sequence.maxDpbFrames
        /\ UNCHANGED <<sequence, maxLongTerm, pictures, taken, discarded>>
    BY DEF StorePicture, IInv, TypeOK, InTheMaking
  <1>2. /\ prevRefFrameNum' = IF IsRef(pic) THEN pic.frameNum ELSE prevRefFrameNum
        /\ \E first  \in IF pic.mmco5 THEN Drained(dpb) ELSE {<<>>},
              second \in OutputOrders(drained.entries, bumped) :
              ready' = ready \o first \o second \o IF direct THEN <<pictures>> ELSE <<>>
        /\ dpb' = IF HasEmptyFrameBuffer(room)
                  THEN Store(room, pictures, pic, sequence.gen) ELSE room
        /\ Submitted \/ Fail("full")
    BY DEF StorePicture
  <1>3. bumped \subseteq DOMAIN drained.entries
    BY DEF BumpedAsNeeded, Waiting
  <1>4. /\ drained \in DpbUpTo(pictures) /\ drained.maxNumPics = sequence.maxDpbFrames
        /\ Within(drained.entries, sequence)
    BY <1>1, Facts, ClearWithin
  <1> HIDE DEF drained, bumped
  <1>5. drained.entries \in EntriesUpTo(pictures) /\ From(drained.entries, drained.entries)
    BY <1>4 DEF DpbUpTo, From
  <1>6. /\ room \in DpbUpTo(pictures) /\ room.maxNumPics = sequence.maxDpbFrames
        /\ Within(room.entries, sequence)
    <2>1. room = [drained EXCEPT !.entries = Bump(drained.entries, bumped)]
      OBVIOUS
    <2>2. sequence.maxDpbFrames \in Nat
      BY Facts
    <2> HIDE DEF room
    <2> QED
      BY <1>4, <1>5, <2>1, <2>2, Facts, RoomWithin
  <1> HIDE DEF room, direct
  <1>7. ready' \in Seq(1 .. pictures)
    <2>1. PICK first \in IF pic.mmco5 THEN Drained(dpb) ELSE {<<>>},
               second \in OutputOrders(drained.entries, bumped) :
               ready' = ready \o first \o second \o IF direct THEN <<pictures>> ELSE <<>>
      BY <1>2
    <2>2. first \in Seq(1 .. pictures)
      <3>1. \A out \in Drained(dpb) : out \in Seq(1 .. pictures)
        BY Facts, OutputOrdersType DEF Drained, Waiting
      <3>2. first \in Drained(dpb) \/ first = <<>>
        OBVIOUS
      <3>3. <<>> \in Seq(1 .. pictures)
        OBVIOUS
      <3> QED
        BY <3>1, <3>2, <3>3, Zenon
    <2>3. second \in Seq(1 .. pictures)
      BY <1>3, <1>5, Facts, OutputOrdersType
    <2>4. (IF direct THEN <<pictures>> ELSE <<>>) \in Seq(1 .. pictures)
      <3>1. <<pictures>> \in Seq(1 .. pictures) /\ <<>> \in Seq(1 .. pictures)
        BY <1>1
      <3> QED
        BY <3>1, Zenon
    <2>5. ready \in Seq(1 .. pictures)
      BY DEF IInv, TypeOK
    <2> QED
      BY <2>1, <2>2, <2>3, <2>4, <2>5
  <1>8. /\ dpb' \in DpbUpTo(pictures) /\ Within(dpb'.entries, sequence)
    <2>1. CASE HasEmptyFrameBuffer(room)
      <3>1. /\ pic.poc \in Int /\ pic.frameNum \in Nat /\ pic.picNum \in Int
            /\ pic.ref \in Marks /\ pic.longTermFrameIdx \in Nat
        BY <1>1 DEF Picture
      <3>2. pic.nonexisting \in BOOLEAN
        BY <1>1 DEF Picture
      <3>3. sequence.gen = IF pic.nonexisting THEN 0 ELSE sequence.gen
        BY <1>1
      <3>4. sequence.gen \in Nat /\ sequence.maxDpbFrames \in Nat /\ pictures \in Nat
        BY Facts
      <3>5. LET b == Store(room, pictures, pic, sequence.gen)
            IN  b \in DpbUpTo(pictures) /\ Within(b.entries, sequence)
        BY <1>1, <1>6, <2>1, <3>1, <3>2, <3>3, <3>4, StoreWithin
      <3> QED
        BY <1>2, <2>1, <3>5
    <2>2. CASE ~HasEmptyFrameBuffer(room)
      BY <1>2, <1>6, <2>2
    <2> QED
      BY <2>1, <2>2
  <1>9. /\ sequence' \in [gen : Nat, shape : Nat, maxDpbFrames : Nat]
        /\ prevRefFrameNum' \in Nat /\ maxLongTerm' \in Nat /\ pictures' \in Nat
        /\ dpb' \in DpbUpTo(pictures') /\ ready' \in Seq(1 .. pictures')
        /\ taken' \in Seq(1 .. pictures') /\ discarded' \subseteq 1 .. pictures'
    BY <1>1, <1>2, <1>7, <1>8, Facts DEF IInv, TypeOK, Picture
  <1>10. /\ phase' \in {"idle", "ready"} /\ slice' = NoPicture /\ pic' = NoPicture
         /\ unused' \in Nat /\ todo' \in Seq(MmcoOp)
         /\ result' \in {"ok", "sps", "va", "gap", "mmco", "full"}
    <2>1. CASE Submitted
      BY <2>1 DEF Submitted, IInv, TypeOK
    <2>2. CASE Fail("full")
      BY <2>2 DEF Fail
    <2> QED
      BY <1>2, <2>1, <2>2
  <1>11. TypeOK'
    BY <1>9, <1>10, DpbType DEF TypeOK
  <1> QED
    BY <1>1, <1>8, <1>10, <1>11 DEF IInv, InTheMaking

-----------------------------------------------------------------------------
(* The rest of the public calls, and the theorems *)

\* flush empties the DPB.
LEMMA ResetIInv ==
  ASSUME IInv, Reset
  PROVE  IInv'
  <1>1. /\ phase = "idle" /\ phase' = "ready" /\ dpb' = Clear(dpb)
        /\ prevRefFrameNum' = 0 /\ maxLongTerm' = 0 /\ result' = "ok"
        /\ UNCHANGED <<sequence, slice, unused, pic, todo, pictures, taken, discarded>>
    BY DEF Reset
  <1>2. dpb' \in DpbUpTo(pictures) /\ Within(dpb'.entries, sequence)
    BY <1>1, Facts, ClearWithin
  <1>3. ready' \in Seq(1 .. pictures)
    <2>1. PICK out \in Drained(dpb) : ready' = ready \o out
      BY DEF Reset
    <2>2. out \in Seq(1 .. pictures)
      BY Facts, OutputOrdersType DEF Drained, Waiting
    <2> QED
      BY <2>1, <2>2 DEF IInv, TypeOK
  <1>4. TypeOK'
    BY <1>1, <1>2, <1>3, DpbType DEF IInv, TypeOK
  <1> QED
    BY <1>1, <1>2, <1>4 DEF IInv, InTheMaking

\* Taking the queue, or submitting no picture, leaves the DPB alone.
LEMMA CallIInv ==
  ASSUME IInv, TakeFrames \/ SubmitParameterSets
  PROVE  IInv'
  <1>1. /\ phase \in {"idle", "ready"} /\ phase' \in {"idle", "ready"}
        /\ result' \in {result, "ok"}
        /\ ready' \in {ready, <<>>} /\ taken' \in {taken, taken \o ready}
        /\ UNCHANGED <<dpb, sequence, prevRefFrameNum, maxLongTerm, slice, unused, pic, todo,
                       pictures, discarded>>
    BY DEF TakeFrames, SubmitParameterSets
  <1>2. ready' \in Seq(1 .. pictures) /\ taken' \in Seq(1 .. pictures)
    <2>1. ready \in Seq(1 .. pictures) /\ taken \in Seq(1 .. pictures)
      BY DEF IInv, TypeOK
    <2>2. taken \o ready \in Seq(1 .. pictures) /\ <<>> \in Seq(1 .. pictures)
      BY <2>1
    <2> QED
      BY <1>1, <2>1, <2>2
  <1>3. TypeOK'
    BY <1>1, <1>2 DEF IInv, TypeOK
  <1> QED
    BY <1>1, <1>3 DEF IInv, InTheMaking, Within

\* Every step of the decoder keeps the invariant.
LEMMA NextIInv == IInv /\ [Next]_vars => IInv'
  <1> SUFFICES ASSUME IInv, [Next]_vars PROVE IInv'
    OBVIOUS
  <1>1. ASSUME NEW c \in CodedPicture, BeginPicture(c) PROVE IInv'
    BY <1>1, BeginPictureIInv
  <1>2. CASE RefuseGap
    BY <1>2, FailIInv DEF RefuseGap
  <1>3. CASE FillGap
    BY <1>3, FillGapIInv
  <1>4. ASSUME NEW allocated \in BOOLEAN, StartPicture(allocated) PROVE IInv'
    BY <1>4, StartPictureIInv
  <1>5. CASE AbandonPicture
    BY <1>5, FailIInv DEF AbandonPicture
  <1>6. CASE MarkReference
    BY <1>6, MarkReferenceIInv
  <1>7. CASE Mmco
    BY <1>7, MmcoIInv
  <1>8. CASE StorePicture
    BY <1>8, StorePictureIInv
  <1>9. CASE SubmitParameterSets \/ TakeFrames
    BY <1>9, CallIInv
  <1>10. CASE Reset
    BY <1>10, ResetIInv
  <1>11. CASE UNCHANGED vars
    BY <1>11 DEF vars, IInv, TypeOK, InTheMaking, Within
  <1> QED
    BY <1>1, <1>2, <1>3, <1>4, <1>5, <1>6, <1>7, <1>8, <1>9, <1>10, <1>11 DEF Next

\* The invariant holds in every behaviour, of any stream.
THEOREM Inductive == Spec => []IInv
  BY InitIInv, NextIInv, PTL DEF Spec

\* Type correctness: in each phase of a call the decoder has what that phase
\* needs, after any sequence of failed calls.
THEOREM TypeCorrect == Spec => []TypeOK
  <1>1. IInv => TypeOK
    BY DEF IInv
  <1> QED
    BY <1>1, Inductive, PTL

\* The DPB holds surfaces of the active sequence only, and no more of them than
\* that sequence was built for (apply_sps, store_picture).
THEOREM SequenceKept == Spec => []DpbWithinSequence
  <1>1. IInv => DpbWithinSequence
    BY DEF IInv, Within, DpbWithinSequence
  <1> QED
    BY <1>1, Inductive, PTL

-----------------------------------------------------------------------------
(* Long-term indices *)

\* e has no long-term picture that d has not, with the same index.
LongFrom(e, d) ==
    \A i \in LongTerm(e) : i \in LongTerm(d) /\ e[i].longTermFrameIdx = d[i].longTermFrameIdx

\* No picture of d has the index idx.
Unassigned(d, idx) == \A i \in LongTerm(d) : d[i].longTermFrameIdx # idx

\* No two pictures of d have the same index.
IndicesApart(d) ==
    \A i, j \in LongTerm(d) : d[i].longTermFrameIdx = d[j].longTermFrameIdx => i = j

\* The list of operations of a picture gives no other picture the index it gave
\* the current one before: no operation 3 takes the index of an operation 6.
IndexKept ==
    phase = "marking" /\ todo # <<>> /\ pic.ref = "LongTerm" /\ Head(todo).op = 3
        => Head(todo).idx # pic.longTermFrameIdx

\* The indices are apart, and apart from the one of the picture in the making.
LongInv ==
    /\ IndicesApart(dpb.entries)
    /\ phase = "picture" => pic.ref # "LongTerm"
    /\ phase = "marking" /\ pic.ref = "LongTerm"
          => Unassigned(dpb.entries, pic.longTermFrameIdx)

\* A change that makes no picture long-term keeps the indices apart.
LEMMA LongFromKeeps ==
  ASSUME NEW d, NEW e, LongFrom(e, d)
  PROVE  /\ IndicesApart(d) => IndicesApart(e)
         /\ \A idx : Unassigned(d, idx) => Unassigned(e, idx)
  BY DEF LongFrom, IndicesApart, Unassigned

\* One such change after another is one.
LEMMA LongFromTransitive ==
  ASSUME NEW d, NEW e, NEW f, LongFrom(f, e), LongFrom(e, d)
  PROVE  LongFrom(f, d)
  BY DEF LongFrom

\* Unmarking, removing, bumping and clearing make no picture long-term.
LEMMA LongFromOperators ==
  ASSUME NEW n \in Nat, NEW d \in EntriesUpTo(n), NEW S
  PROVE  /\ LongFrom(d, d)
         /\ LongFrom(Unmark(d, S), d)
         /\ LongFrom(RemoveUnused(d), d)
         /\ LongFrom(Bump(d, S), d)
         /\ LongFrom(NoEntries, d)
  <1>1. \A i \in DOMAIN d : d[i] \in Entry
    BY EntriesElim
  <1>2. LongFrom(d, d) /\ LongFrom(NoEntries, d)
    BY DEF LongFrom, LongTerm, NoEntries
  <1>3. LongFrom(Unmark(d, S), d)
    <2> DEFINE u == Unmark(d, S)
    <2>1. /\ DOMAIN u = DOMAIN d
          /\ \A i \in DOMAIN d : u[i] = IF i \in S THEN [d[i] EXCEPT !.ref = "None"] ELSE d[i]
      BY DEF Unmark
    <2>2. \A i \in DOMAIN d : i \in S => u[i].ref = "None"
      BY <1>1, <2>1 DEF Entry
    <2> HIDE DEF u
    <2>3. \A i \in LongTerm(u) : i \in DOMAIN d /\ u[i] = d[i] /\ u[i].ref = "LongTerm"
      BY <2>1, <2>2 DEF LongTerm
    <2>4. \A i \in LongTerm(u) : i \in LongTerm(d)
      BY <2>3 DEF LongTerm
    <2> QED
      BY <2>3, <2>4 DEF u, LongFrom
  <1>4. ASSUME NEW e, DOMAIN e = DOMAIN d,
               \A i \in DOMAIN d : /\ e[i].ref = d[i].ref
                                   /\ e[i].longTermFrameIdx = d[i].longTermFrameIdx
        PROVE  LongFrom(RemoveUnused(e), d)
    <2>1. \A i \in DOMAIN RemoveUnused(e) : i \in DOMAIN e /\ RemoveUnused(e)[i] = e[i]
      BY DEF RemoveUnused, Restrict
    <2> QED
      BY <1>4, <2>1 DEF LongFrom, LongTerm
  <1>5. LongFrom(RemoveUnused(d), d)
    BY <1>4
  <1>6. LongFrom(Bump(d, S), d)
    <2> DEFINE b == [i \in DOMAIN d |-> [d[i] EXCEPT !.needed = @ /\ i \notin S]]
    <2>1. /\ DOMAIN b = DOMAIN d
          /\ \A i \in DOMAIN d : /\ b[i].ref = d[i].ref
                                 /\ b[i].longTermFrameIdx = d[i].longTermFrameIdx
      BY <1>1 DEF Entry
    <2> HIDE DEF b
    <2>2. LongFrom(RemoveUnused(b), d)
      BY <1>4, <2>1
    <2> QED
      BY <1>2, <2>2 DEF Bump, b
  <1> QED
    BY <1>2, <1>3, <1>5, <1>6

\* Numbering the pictures changes neither marks nor indices.
LEMMA UpdatePicNumsLong ==
  ASSUME NEW n \in Nat, NEW d \in EntriesUpTo(n), NEW frameNum, NEW max
  PROVE  LongFrom(UpdatePicNums(d, frameNum, max), d)
  <1> DEFINE u == UpdatePicNums(d, frameNum, max)
  <1>1. \A i \in DOMAIN d : d[i] \in Entry
    BY EntriesElim
  <1>2. DOMAIN u = DOMAIN d
    BY DEF UpdatePicNums
  <1>3. \A i \in DOMAIN d : /\ u[i].ref = d[i].ref
                            /\ u[i].longTermFrameIdx = d[i].longTermFrameIdx
    <2> TAKE i \in DOMAIN d
    <2>1. \/ u[i] = d[i]
          \/ u[i] = [d[i] EXCEPT !.longTermPicNum = d[i].longTermFrameIdx]
          \/ \E k : u[i] = [d[i] EXCEPT !.picNum = k]
      BY DEF UpdatePicNums
    <2> HIDE DEF u
    <2> QED
      BY <1>1, <2>1 DEF Entry
  <1> HIDE DEF u
  <1>4. LongTerm(u) = LongTerm(d) /\ LongTerm(d) \subseteq DOMAIN d
    BY <1>2, <1>3 DEF LongTerm
  <1> QED
    BY <1>3, <1>4 DEF u, LongFrom

\* Neither does the sliding window.
LEMMA SlidingWindowLong ==
  ASSUME NEW n \in Nat, NEW d \in EntriesUpTo(n), NEW max
  PROVE  LongFrom(SlidingWindowMarking(d, max), d)
  <1>1. \/ SlidingWindowMarking(d, max) = d
        \/ \E S : SlidingWindowMarking(d, max) = RemoveUnused(Unmark(d, S))
    BY DEF SlidingWindowMarking
  <1>2. ASSUME NEW S PROVE LongFrom(RemoveUnused(Unmark(d, S)), d)
    <2>1. Unmark(d, S) \in EntriesUpTo(n)
      BY UnmarkFrom
    <2> QED
      BY <2>1, LongFromOperators, LongFromTransitive
  <1> QED
    BY <1>1, <1>2, LongFromOperators

\* The former holder of an index loses it: that is all of them, when the
\* indices are apart.
LEMMA HolderUnmarked ==
  ASSUME NEW n \in Nat, NEW d \in EntriesUpTo(n), NEW idx, IndicesApart(d)
  PROVE  Unassigned(Unmark(d, HolderOf(d, idx)), idx)
  <1> DEFINE S == HolderOf(d, idx)
  <1>1. DOMAIN d \subseteq 1 .. n /\ \A i \in DOMAIN d : d[i] \in Entry
    BY EntriesElim
  <1>2. \A i \in LongTerm(d) : d[i].longTermFrameIdx = idx => i \in S
    BY <1>1 DEF HolderOf, First, IndicesApart, LongTerm
  <1> HIDE DEF S
  <1>3. /\ DOMAIN Unmark(d, S) = DOMAIN d
        /\ \A i \in DOMAIN d : i \in S => Unmark(d, S)[i].ref = "None"
    BY <1>1 DEF Unmark, Entry
  <1>4. \A i \in LongTerm(Unmark(d, S)) : i \notin S
    BY <1>3 DEF LongTerm
  <1>5. LongFrom(Unmark(d, S), d)
    BY LongFromOperators
  <1> QED
    BY <1>2, <1>4, <1>5 DEF S, LongFrom, Unassigned

\* An operation that does not fail keeps the indices apart, and apart from the
\* picture's, unless it is an operation 3 that takes the picture's.
LEMMA MmcoLong ==
  ASSUME NEW n \in Nat, NEW d \in EntriesUpTo(n), NEW p \in Picture, NEW op \in MmcoOp,
         IndicesApart(d),
         p.ref = "LongTerm" => Unassigned(d, p.longTermFrameIdx),
         p.ref = "LongTerm" /\ op.op = 3 => op.idx # p.longTermFrameIdx
  PROVE  /\ IndicesApart(MmcoEntries(d, p, op))
         /\ MmcoPicture(p, op).ref = "LongTerm"
               => Unassigned(MmcoEntries(d, p, op), MmcoPicture(p, op).longTermFrameIdx)
  <1> DEFINE e == MmcoEntries(d, p, op)
             q == MmcoPicture(p, op)
             held == Unmark(d, HolderOf(d, op.idx))
  <1>1. op.op \in 1 .. 6
    BY DEF MmcoOp
  <1>2. held \in EntriesUpTo(n) /\ LongFrom(held, d) /\ Unassigned(held, op.idx)
    BY UnmarkFrom, LongFromOperators, HolderUnmarked
  <1>3. CASE op.op \notin {3, 6}
    <2>1. q.ref = p.ref /\ q.longTermFrameIdx = p.longTermFrameIdx
      BY <1>3 DEF MmcoPicture, Picture
    <2>2. \E S : e = Unmark(d, S)
      BY <1>1, <1>3 DEF MmcoEntries, MarkAllAsUnusedForRef
    <2>3. LongFrom(e, d)
      BY <2>2, LongFromOperators
    <2> HIDE DEF e, q
    <2> QED
      BY <2>1, <2>3, LongFromKeeps DEF e, q
  <1>4. CASE op.op = 3
    <2> DEFINE S == MmcoTarget(d, p, op)
    <2>1. q = p /\ e = AssignLongTerm(held, S, op.idx)
      BY <1>4 DEF MmcoPicture, MmcoEntries
    <2>2. DOMAIN d \subseteq 1 .. n
      BY EntriesElim
    <2>3. \A i, j \in S : i = j
      BY <1>4, <2>2 DEF MmcoTarget, FindShortTerm, First, ShortTerm
    <2>4. \A i \in DOMAIN held : held[i] \in Entry
      BY <1>2, EntriesElim
    <2> HIDE DEF S, held, e, q
    <2>5. \A i \in LongTerm(e) :
             /\ i \in S => e[i].longTermFrameIdx = op.idx
             /\ i \notin S => i \in LongTerm(held) /\ e[i] = held[i]
      BY <2>1, <2>4 DEF AssignLongTerm, LongTerm, Entry
    <2>6. IndicesApart(e)
      BY <1>2, <2>3, <2>5, LongFromKeeps DEF IndicesApart, Unassigned
    <2>7. ASSUME p.ref = "LongTerm" PROVE Unassigned(e, p.longTermFrameIdx)
      BY <1>2, <1>4, <2>5, <2>7, LongFromKeeps DEF Unassigned
    <2> QED
      BY <2>1, <2>6, <2>7 DEF e, q
  <1>5. CASE op.op = 6
    <2>1. e = held /\ q = [p EXCEPT !.ref = "LongTerm", !.longTermFrameIdx = op.idx]
      BY <1>5 DEF MmcoEntries, MmcoPicture
    <2>2. q.longTermFrameIdx = op.idx
      BY <2>1 DEF Picture
    <2> HIDE DEF e, q, held
    <2> QED
      BY <1>2, <2>1, <2>2, LongFromKeeps DEF e, q
  <1> QED
    BY <1>3, <1>4, <1>5

\* A picture is stored with an index no other has, or with none.
LEMMA StoreLong ==
  ASSUME NEW n \in Nat, NEW b \in DpbUpTo(n), NEW id, NEW p, NEW gen,
         IndicesApart(b.entries),
         p.ref = "LongTerm" => Unassigned(b.entries, p.longTermFrameIdx)
  PROVE  IndicesApart(Store(b, id, p, gen).entries)
  <1> DEFINE e == Store(b, id, p, gen).entries
  <1>1. /\ DOMAIN e = DOMAIN b.entries \cup {id}
        /\ e[id].ref = p.ref /\ e[id].longTermFrameIdx = p.longTermFrameIdx
        /\ \A i \in DOMAIN b.entries : i # id => e[i] = b.entries[i]
    BY DEF Store, DpbUpTo
  <1> HIDE DEF e
  <1>2. \A i \in LongTerm(e) :
           \/ i = id /\ p.ref = "LongTerm" /\ e[i].longTermFrameIdx = p.longTermFrameIdx
           \/ i # id /\ i \in LongTerm(b.entries) /\ e[i] = b.entries[i]
    BY <1>1 DEF LongTerm
  <1> QED
    BY <1>2 DEF e, IndicesApart, Unassigned

\* The rounds of a gap store short-term pictures.
LEMMA FillGapLong ==
  ASSUME IInv, LongInv, FillGap
  PROVE  LongInv'
  <1> DEFINE new      == NonExisting(unused)
             numbered == UpdatePicNums(dpb.entries, unused, slice.sps.maxFrameNum)
             window   == SlidingWindowMarking(numbered, slice.sps.maxNumRefFrames)
             marked   == [dpb EXCEPT !.entries = window]
             bumped   == BumpedAsNeeded(marked, new)
             room     == [marked EXCEPT !.entries = Bump(@, bumped)]
  <1>1. /\ phase = "gap" /\ slice \in CodedPicture
        /\ unused \in Nat /\ slice.sps \in SequenceInfo
    BY SpsAssumption DEF FillGap, IInv, TypeOK, CodedPicture
  <1>2. /\ phase' \in {"gap", "idle"}
        /\ dpb' = room \/ dpb' = Store(room, pictures + 1, new, 0)
    BY <1>1 DEF FillGap, Fail
  <1>3. new.ref = "ShortTerm"
    BY DEF NonExisting
  <1>4. numbered \in EntriesUpTo(pictures) /\ LongFrom(numbered, dpb.entries)
    BY <1>1, Facts, UpdatePicNumsFrom, UpdatePicNumsLong DEF SequenceInfo
  <1> HIDE DEF numbered, bumped, new
  <1>5. window \in EntriesUpTo(pictures) /\ LongFrom(window, numbered)
    BY <1>4, Facts, SlidingWindowFrom, SlidingWindowLong
  <1> HIDE DEF window
  <1>6. /\ Bump(window, bumped) \in EntriesUpTo(pictures)
        /\ LongFrom(Bump(window, bumped), window)
    BY <1>5, Facts, BumpFrom, LongFromOperators
  <1>7. /\ room \in DpbUpTo(pictures) /\ room.entries = Bump(window, bumped)
    BY <1>6, Facts DEF DpbUpTo
  <1> HIDE DEF room
  <1>8. IndicesApart(room.entries)
    BY <1>4, <1>5, <1>6, <1>7, LongFromKeeps DEF LongInv
  <1>9. IndicesApart(dpb'.entries)
    BY <1>2, <1>3, <1>7, <1>8, StoreLong, Facts
  <1> QED
    BY <1>2, <1>9 DEF LongInv

\* A new picture is no long-term reference yet.
LEMMA StartPictureLong ==
  ASSUME IInv, LongInv, NEW allocated \in BOOLEAN, StartPicture(allocated)
  PROVE  LongInv'
  <1> DEFINE left == IF slice.idr THEN Clear(dpb) ELSE dpb
             e == UpdatePicNums(left.entries, slice.frameNum, slice.sps.maxFrameNum)
  <1>1. /\ phase = "gap" /\ slice \in CodedPicture
        /\ slice.frameNum \in Nat /\ slice.sps \in SequenceInfo
    BY SpsAssumption DEF StartPicture, IInv, TypeOK, CodedPicture
  <1>2. left \in DpbUpTo(pictures) /\ LongFrom(left.entries, dpb.entries)
    BY Facts, ClearWithin, LongFromOperators DEF Clear, DpbUpTo
  <1>3. left.entries \in EntriesUpTo(pictures)
    BY <1>2 DEF DpbUpTo
  <1>4. dpb' = [left EXCEPT !.entries = e]
    BY DEF StartPicture
  <1>5. /\ phase' \in {"picture", "idle"}
        /\ phase' = "picture" => pic'.ref # "LongTerm"
    BY DEF StartPicture, Fail
  <1> HIDE DEF left
  <1>6. e \in EntriesUpTo(pictures) /\ LongFrom(e, left.entries)
    BY <1>1, <1>3, Facts, UpdatePicNumsFrom, UpdatePicNumsLong DEF SequenceInfo
  <1>7. dpb'.entries = e
    BY <1>2, <1>4 DEF DpbUpTo
  <1> HIDE DEF e
  <1>8. IndicesApart(dpb'.entries)
    BY <1>2, <1>6, <1>7, LongFromKeeps DEF LongInv
  <1> QED
    BY <1>5, <1>8 DEF LongInv

\* Only an IDR picture becomes long-term here, when no other is.
LEMMA MarkReferenceLong ==
  ASSUME IInv, LongInv, MarkReference
  PROVE  LongInv'
  <1>1. /\ phase = "picture" /\ phase' = "marking"
        /\ slice \in CodedPicture /\ pic \in Picture
    BY DEF MarkReference, IInv, TypeOK
  <1>2. pic.ref # "LongTerm"
    BY <1>1 DEF LongInv
  <1>3. CASE pic' = pic /\ dpb' = dpb
    BY <1>1, <1>2, <1>3 DEF LongInv
  <1>4. CASE /\ pic' = pic
             /\ dpb' = [dpb EXCEPT !.entries =
                           SlidingWindowMarking(@, slice.sps.maxNumRefFrames)]
    <2>1. dpb'.entries = SlidingWindowMarking(dpb.entries, slice.sps.maxNumRefFrames)
      BY <1>4, Facts DEF DpbUpTo
    <2>2. LongFrom(dpb'.entries, dpb.entries)
      BY <2>1, Facts, SlidingWindowLong
    <2> QED
      BY <1>1, <1>2, <1>4, <2>2, LongFromKeeps DEF LongInv
  <1>5. CASE dpb' = [dpb EXCEPT !.entries = MarkAllAsUnusedForRef(@)]
    <2>1. dpb'.entries = Unmark(dpb.entries, DOMAIN dpb.entries)
      BY <1>5, Facts DEF DpbUpTo, MarkAllAsUnusedForRef
    <2>2. \A i \in DOMAIN dpb.entries : dpb.entries[i] \in Entry
      BY Facts, EntriesElim
    <2>3. LongTerm(dpb'.entries) = {}
      BY <2>1, <2>2 DEF LongTerm, Unmark, Entry
    <2> QED
      BY <1>1, <2>3 DEF LongInv, IndicesApart, Unassigned
  <1> QED
    BY <1>3, <1>4, <1>5 DEF MarkReference

\* Operations 3 and 6 take an index from its holder first.
LEMMA MmcoStepLong ==
  ASSUME IInv, LongInv, IndexKept, Mmco
  PROVE  LongInv'
  <1> DEFINE op == Head(todo)
  <1>1. /\ phase = "marking" /\ pic \in Picture /\ todo # <<>>
        /\ op \in MmcoOp
    BY DEF Mmco, IInv, TypeOK
  <1>2. CASE Fail("mmco") /\ UNCHANGED dpb
    BY <1>2 DEF Fail, LongInv
  <1>3. CASE /\ dpb' = [dpb EXCEPT !.entries = MmcoEntries(@, pic, op)]
             /\ pic' = MmcoPicture(pic, op)
             /\ UNCHANGED phase
    <2>1. pic.ref = "LongTerm" /\ op.op = 3 => op.idx # pic.longTermFrameIdx
      BY <1>1 DEF IndexKept
    <2>2. dpb'.entries = MmcoEntries(dpb.entries, pic, op)
      BY <1>3, Facts DEF DpbUpTo
    <2> HIDE DEF op
    <2> QED
      BY <1>1, <1>3, <2>1, <2>2, Facts, MmcoLong DEF LongInv
  <1> QED
    BY <1>2, <1>3 DEF Mmco

\* The picture joins the DPB with the index it took.
LEMMA StorePictureLong ==
  ASSUME IInv, LongInv, StorePicture
  PROVE  LongInv'
  <1> DEFINE drained == IF pic.mmco5 THEN Clear(dpb) ELSE dpb
             bumped  == BumpedAsNeeded(drained, pic)
             room    == [drained EXCEPT !.entries = Bump(@, bumped)]
  <1>1. phase = "marking" /\ phase' \in {"idle", "ready"}
    BY DEF StorePicture, Submitted, Fail
  <1>2. dpb' = room \/ dpb' = Store(room, pictures, pic, sequence.gen)
    BY DEF StorePicture
  <1>3. drained \in DpbUpTo(pictures) /\ LongFrom(drained.entries, dpb.entries)
    BY Facts, ClearWithin, LongFromOperators DEF Clear, DpbUpTo
  <1>4. drained.entries \in EntriesUpTo(pictures)
    BY <1>3 DEF DpbUpTo
  <1> HIDE DEF drained, bumped
  <1>5. /\ Bump(drained.entries, bumped) \in EntriesUpTo(pictures)
        /\ LongFrom(Bump(drained.entries, bumped), drained.entries)
    BY <1>4, Facts, BumpFrom, LongFromOperators
  <1>6. room \in DpbUpTo(pictures) /\ LongFrom(room.entries, dpb.entries)
    BY <1>3, <1>5, LongFromTransitive DEF DpbUpTo
  <1> HIDE DEF room
  <1>7. IndicesApart(dpb'.entries)
    BY <1>1, <1>2, <1>6, Facts, LongFromKeeps, StoreLong DEF LongInv
  <1> QED
    BY <1>1, <1>7 DEF LongInv

\* Every step keeps the indices apart.
LEMMA NextLong == LongInv /\ IInv /\ IndexKept /\ [Next]_vars => LongInv'
  <1> SUFFICES ASSUME LongInv, IInv, IndexKept, [Next]_vars PROVE LongInv'
    OBVIOUS
  <1>1. ASSUME NEW e, dpb'.entries = e, LongFrom(e, dpb.entries),
               phase' \notin {"picture", "marking"}
        PROVE  LongInv'
    BY <1>1, LongFromKeeps DEF LongInv
  <1>2. LongFrom(dpb.entries, dpb.entries) /\ LongFrom(NoEntries, dpb.entries)
    BY Facts, LongFromOperators
  <1>3. ASSUME NEW c \in CodedPicture, BeginPicture(c) PROVE LongInv'
    <2>1. phase' \notin {"picture", "marking"}
      BY <1>3 DEF BeginPicture, RefuseSps, Fail
    <2>2. \A b \in {dpb, SetLimits(dpb, c.sps.maxDpbFrames, ReorderLimit(c.sps))} :
             b.entries = dpb.entries /\ Clear(b).entries = NoEntries
      BY Facts DEF SetLimits, Clear, DpbUpTo
    <2>3. dpb'.entries \in {dpb.entries, NoEntries}
      BY <1>3, <2>2 DEF BeginPicture, RefuseSps, KeepSequence, RebuildSequence
    <2> QED
      BY <1>1, <1>2, <2>1, <2>3
  <1>4. CASE FillGap
    BY <1>4, FillGapLong
  <1>5. ASSUME NEW allocated \in BOOLEAN, StartPicture(allocated) PROVE LongInv'
    BY <1>5, StartPictureLong
  <1>6. CASE RefuseGap \/ AbandonPicture \/ SubmitParameterSets \/ TakeFrames
    BY <1>1, <1>2, <1>6 DEF RefuseGap, AbandonPicture, SubmitParameterSets, TakeFrames, Fail
  <1>7. CASE MarkReference
    BY <1>7, MarkReferenceLong
  <1>8. CASE Mmco
    BY <1>8, MmcoStepLong
  <1>9. CASE StorePicture
    BY <1>9, StorePictureLong
  <1>10. CASE Reset
    <2>1. phase' = "ready" /\ dpb' = Clear(dpb)
      BY <1>10 DEF Reset
    <2>2. dpb'.entries = NoEntries
      BY <2>1, Facts DEF Clear, DpbUpTo
    <2> QED
      BY <1>1, <1>2, <2>1, <2>2
  <1>11. CASE UNCHANGED vars
    BY <1>11 DEF vars, LongInv
  <1> QED
    BY <1>3, <1>4, <1>5, <1>6, <1>7, <1>8, <1>9, <1>10, <1>11 DEF Next

\* Whatever operations assign indices, in whatever order and with whatever
\* failures between them (mmco_op_3, mmco_op_6, IDR), no two pictures of the DPB
\* have the same, provided a picture's list does not give the index it took for
\* itself to another: then the picture is stored beside the one it was given to.
THEOREM LongTermApart == Spec /\ []IndexKept => []LongTermFrameIdxUnique
  <1>1. Init => LongInv
    BY DEF Init, LongInv, IndicesApart, LongTerm, EmptyDpb, NoEntries
  <1>2. LongInv => LongTermFrameIdxUnique
    BY DEF LongInv, IndicesApart, LongTermFrameIdxUnique
  <1> QED
    BY <1>1, <1>2, NextLong, Inductive, PTL DEF Spec
=============================================================================
