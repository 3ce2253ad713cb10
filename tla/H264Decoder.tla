---------------------------- MODULE H264Decoder ----------------------------
(***************************************************************************)
(* The H.264 decoder of src/src/decode.rs: struct H264 and the public      *)
(* Decoder calls around it.                                                *)
(*                                                                         *)
(* Decoder::decode is submit() then take_frames(); submit() runs           *)
(* begin_picture, decode_slice and finish_picture for each coded picture   *)
(* of the access unit.  `phase` is where the call in progress stands:      *)
(*                                                                         *)
(*   idle     no call in progress                                          *)
(*   gap      in begin_picture, at the frame_num check and the loop of     *)
(*            handle_frame_num_gap                                         *)
(*   picture  between begin_picture and finish_picture                     *)
(*   marking  in finish_picture, in handle_memory_management_ops           *)
(*   ready    submit (or reset) is done, the ready queue is to be taken    *)
(*                                                                         *)
(* The two loops whose iterations can return early with the iterations     *)
(* before them done take one step per iteration.  The methods hold         *)
(* &mut self, so no other call can run in between, and the phases allow    *)
(* none.  Any other method is one step.                                    *)
(***************************************************************************)
EXTENDS H264Dpb

CONSTANT SpsSet \* the sequence parameter sets the stream can activate

\* SequenceInfo, with what the parser derives from the set.
SequenceInfo ==
    [shape : Nat, support : {"ok", "no_profile", "refused"},
     maxDpbFrames : Nat, maxNumOrderFrames : Nat, maxNumRefFrames : Nat,
     gapsAllowed : BOOLEAN, maxFrameNum : Nat \ {0}]

ASSUME SpsAssumption == SpsSet \subseteq SequenceInfo

\* RefPicMarkingInner; a field its operation does not read is 0.
MmcoOp == [op : 1 .. 6, diff : Nat, picNum : Nat, idx : Nat, maxIdxPlus1 : Nat]

\* What the slice header says of the picture, with the order count
\* compute_pic_order_count derives.
CodedPicture ==
    [idr : BOOLEAN, ref : BOOLEAN, frameNum : Nat, poc : Int, sps : SpsSet,
     noOutput : BOOLEAN, longTerm : BOOLEAN, adaptive : BOOLEAN, mmco : Seq(MmcoOp)]

VARIABLES
    dpb,              \* H264::dpb
    sequence,         \* H264::sequence: gen 0 is None
    prevRefFrameNum,  \* H264::prev_ref_pic_info.frame_num
    maxLongTerm,      \* H264::max_long_term_frame_idx, plus one
    ready,            \* H264::ready, as picture numbers
    phase,            \* where the call in progress stands
    slice,            \* the coded picture begin_picture was called for
    unused,           \* handle_frame_num_gap: unused
    pic,              \* CurrentPicture::pic, with its surface's sequence
    todo,             \* the memory management operations still to run
    pictures,         \* how many pictures were started or invented
    result,           \* what the last submit returned
    taken,            \* history: the picture numbers taken from `ready`
    discarded         \* history: the pictures no_output_of_prior_pics_flag dropped

vars == <<dpb, sequence, prevRefFrameNum, maxLongTerm, ready, phase, slice, unused,
          pic, todo, pictures, result, taken, discarded>>

NoPicture == [none |-> TRUE]
NoSequence == [gen |-> 0, shape |-> 0, maxDpbFrames |-> 0]

Init ==
    /\ dpb = EmptyDpb
    /\ sequence = NoSequence
    /\ prevRefFrameNum = 0
    /\ maxLongTerm = 0
    /\ ready = <<>>
    /\ phase = "idle"
    /\ slice = NoPicture
    /\ unused = 0
    /\ pic = NoPicture
    /\ todo = <<>>
    /\ pictures = 0
    /\ result = "ok"
    /\ taken = <<>>
    /\ discarded = {}

\* Mutant: the slice of the failed call is still there for the next.
FailInFlight(why) ==
    /\ phase' = "idle"
    /\ result' = why
    /\ slice' = slice
    /\ pic' = NoPicture
    /\ todo' = <<>>
    /\ unused' = 0

\* submit() returns an error: whatever was in flight is dropped.
Fail(why) ==
    /\ phase' = "idle"
    /\ result' = why
    /\ slice' = NoPicture
    /\ pic' = NoPicture
    /\ todo' = <<>>
    /\ unused' = 0

\* finish_picture is done, and submit() with it unless another picture follows.
Submitted ==
    /\ phase' = "ready"
    /\ slice' = NoPicture
    /\ pic' = NoPicture
    /\ UNCHANGED <<result, todo, unused>>

-----------------------------------------------------------------------------
(* begin_picture *)

\* max_num_reorder_frames, as apply_sps passes it to set_limits.
ReorderLimit(sps) ==
    IF sps.maxNumOrderFrames > sps.maxDpbFrames THEN 0 ELSE sps.maxNumOrderFrames

SameFormat(sps) ==
    /\ sequence.gen > 0
    /\ sequence.shape = sps.shape
    /\ sequence.maxDpbFrames = sps.maxDpbFrames

\* apply_sps refuses the stream before or after it has set the DPB's limits.
RefuseSps(sps) ==
    /\ \/ sps.support = "refused" /\ UNCHANGED dpb
       \/ /\ sps.support = "no_profile"
          /\ dpb' = SetLimits(dpb, sps.maxDpbFrames, ReorderLimit(sps))
    /\ Fail("sps")
    /\ UNCHANGED <<sequence, ready>>

\* The format is that of the active sequence: only the limits change.
KeepSequence(sps) ==
    /\ sps.support = "ok"
    /\ SameFormat(sps)
    /\ dpb' = SetLimits(dpb, sps.maxDpbFrames, ReorderLimit(sps))
    /\ UNCHANGED <<sequence, ready>>

\* Mutant: the DPB survives the change of format.
RebuildSequenceUndrained(sps, built) ==
    /\ sps.support = "ok"
    /\ ~SameFormat(sps)
    /\ dpb' = SetLimits(dpb, sps.maxDpbFrames, ReorderLimit(sps))
    /\ UNCHANGED ready
    /\ sequence' = IF built
                   THEN [gen |-> sequence.gen + 1, shape |-> sps.shape,
                         maxDpbFrames |-> sps.maxDpbFrames]
                   ELSE sequence

\* The format changes: drain, then build the new VA state, or fail to.
RebuildSequence(sps, built) ==
    /\ sps.support = "ok"
    /\ ~SameFormat(sps)
    /\ dpb' = Clear(SetLimits(dpb, sps.maxDpbFrames, ReorderLimit(sps)))
    /\ \E out \in Drained(dpb) : ready' = ready \o out
    /\ sequence' = IF built
                   THEN [gen |-> sequence.gen + 1, shape |-> sps.shape,
                         maxDpbFrames |-> sps.maxDpbFrames]
                   ELSE sequence

\* begin_picture up to the frame_num check.
BeginPicture(c) ==
    /\ phase \in {"idle", "ready"}
    /\ \/ /\ RefuseSps(c.sps)
          /\ UNCHANGED prevRefFrameNum
       \/ /\ RebuildSequence(c.sps, FALSE)
          /\ Fail("va")
          /\ UNCHANGED prevRefFrameNum
       \/ /\ KeepSequence(c.sps) \/ RebuildSequence(c.sps, TRUE)
          /\ prevRefFrameNum' = IF c.idr THEN 0 ELSE prevRefFrameNum
          /\ phase' = "gap"
          /\ slice' = c
          /\ unused' = (prevRefFrameNum' + 1) % c.sps.maxFrameNum
          /\ result' = "ok"
          /\ UNCHANGED <<pic, todo>>
    /\ UNCHANGED <<maxLongTerm, pictures, taken, discarded>>

\* handle_frame_num_gap has pictures to invent before the slice's picture.
GapPending ==
    /\ slice.frameNum # prevRefFrameNum
    /\ slice.frameNum # unused
    /\ DOMAIN dpb.entries # {}

NonExisting(frameNum) ==
    [poc |-> 0, frameNum |-> frameNum, picNum |-> frameNum, ref |-> "ShortTerm",
     longTermFrameIdx |-> 0, nonexisting |-> TRUE, idr |-> FALSE, mmco5 |-> FALSE]

\* handle_frame_num_gap when the SPS rules gaps out.
RefuseGap ==
    /\ phase = "gap"
    /\ GapPending
    /\ ~slice.sps.gapsAllowed
    /\ Fail("gap")
    /\ UNCHANGED <<dpb, sequence, prevRefFrameNum, maxLongTerm, ready, pictures, taken, discarded>>

\* Mutant: every picture of the gap takes the number the gap began at.
FillGapUnnumbered ==
    /\ phase = "gap"
    /\ GapPending
    /\ slice.sps.gapsAllowed
    /\ LET new      == NonExisting(prevRefFrameNum)
           numbered == UpdatePicNums(dpb.entries, unused, slice.sps.maxFrameNum)
           marked   == [dpb EXCEPT !.entries =
                           SlidingWindowMarking(numbered, slice.sps.maxNumRefFrames)]
           bumped   == BumpedAsNeeded(marked, new)
           room     == [marked EXCEPT !.entries = Bump(@, bumped)]
       IN  /\ \E out \in OutputOrders(marked.entries, bumped) : ready' = ready \o out
           /\ dpb' = Store(room, pictures + 1, new, 0)
           /\ pictures' = pictures + 1
           /\ unused' = (unused + 1) % slice.sps.maxFrameNum
           /\ UNCHANGED <<phase, result, slice, pic, todo>>
    /\ UNCHANGED <<sequence, prevRefFrameNum, maxLongTerm, taken, discarded>>

\* One round of the loop of handle_frame_num_gap.
FillGap ==
    /\ phase = "gap"
    /\ GapPending
    /\ slice.sps.gapsAllowed
    /\ LET new      == NonExisting(unused)
           numbered == UpdatePicNums(dpb.entries, unused, slice.sps.maxFrameNum)
           marked   == [dpb EXCEPT !.entries =
                           SlidingWindowMarking(numbered, slice.sps.maxNumRefFrames)]
           bumped   == BumpedAsNeeded(marked, new)
           room     == [marked EXCEPT !.entries = Bump(@, bumped)]
       IN  /\ \E out \in OutputOrders(marked.entries, bumped) : ready' = ready \o out
           /\ IF HasEmptyFrameBuffer(room)
              THEN /\ dpb' = Store(room, pictures + 1, new, 0)
                   /\ pictures' = pictures + 1
                   /\ unused' = (unused + 1) % slice.sps.maxFrameNum
                   /\ UNCHANGED <<phase, result, slice, pic, todo>>
              ELSE /\ dpb' = room
                   /\ Fail("full")
                   /\ UNCHANGED pictures
    /\ UNCHANGED <<sequence, prevRefFrameNum, maxLongTerm, taken, discarded>>

\* init_current_pic, and the surface and the buffers of the new picture,
\* which the driver may refuse once everything else is done.
StartPicture(allocated) ==
    /\ phase = "gap"
    /\ ~GapPending
    /\ LET discard == slice.idr /\ slice.noOutput
           left    == IF slice.idr THEN Clear(dpb) ELSE dpb
       IN  /\ IF slice.idr /\ ~discard
              THEN \E out \in Drained(dpb) : ready' = ready \o out
              ELSE UNCHANGED ready
           /\ discarded' = IF discard THEN discarded \cup Waiting(dpb.entries) ELSE discarded
           /\ dpb' = [left EXCEPT !.entries =
                         UpdatePicNums(@, slice.frameNum, slice.sps.maxFrameNum)]
    /\ \/ /\ allocated
          /\ pictures' = pictures + 1
          /\ phase' = "picture"
          /\ pic' = [poc |-> slice.poc, frameNum |-> slice.frameNum, picNum |-> slice.frameNum,
                     ref |-> IF slice.ref THEN "ShortTerm" ELSE "None",
                     longTermFrameIdx |-> 0, nonexisting |-> FALSE,
                     idr |-> slice.idr, mmco5 |-> FALSE]
          /\ unused' = 0
          /\ UNCHANGED <<result, slice, todo>>
       \/ /\ ~allocated
          /\ Fail("va")
          /\ UNCHANGED pictures
    /\ UNCHANGED <<sequence, prevRefFrameNum, maxLongTerm, taken>>

-----------------------------------------------------------------------------
(* decode_slice and finish_picture *)

\* A later slice is refused, or the driver fails to run the picture.
AbandonPicture ==
    /\ phase = "picture"
    /\ Fail("va")
    /\ UNCHANGED <<dpb, sequence, prevRefFrameNum, maxLongTerm, ready, pictures, taken, discarded>>

\* run() succeeded: reference_pic_marking, or its loop is left to run.
MarkReference ==
    /\ phase = "picture"
    /\ phase' = "marking"
    /\ CASE ~slice.ref ->
              UNCHANGED <<dpb, pic, todo, maxLongTerm>>
         [] slice.ref /\ slice.idr ->
              /\ dpb' = [dpb EXCEPT !.entries = MarkAllAsUnusedForRef(@)]
              /\ pic' = IF slice.longTerm
                        THEN [pic EXCEPT !.ref = "LongTerm", !.longTermFrameIdx = 0]
                        ELSE pic
              /\ maxLongTerm' = IF slice.longTerm THEN 1 ELSE 0
              /\ UNCHANGED todo
         [] slice.ref /\ ~slice.idr /\ ~slice.adaptive ->
              /\ dpb' = [dpb EXCEPT !.entries =
                            SlidingWindowMarking(@, slice.sps.maxNumRefFrames)]
              /\ UNCHANGED <<pic, todo, maxLongTerm>>
         [] OTHER ->
              /\ todo' = slice.mmco
              /\ UNCHANGED <<dpb, pic, maxLongTerm>>
    /\ UNCHANGED <<sequence, prevRefFrameNum, ready, slice, unused, pictures, result,
                   taken, discarded>>

\* One round of the loop of handle_memory_management_ops.
Mmco ==
    /\ phase = "marking"
    /\ todo # <<>>
    /\ LET op == Head(todo)
       IN  IF MmcoFails(dpb.entries, pic, op)
           THEN /\ Fail("mmco")
                /\ UNCHANGED <<dpb, maxLongTerm>>
           ELSE /\ dpb' = [dpb EXCEPT !.entries = MmcoEntries(@, pic, op)]
                /\ pic' = MmcoPicture(pic, op)
                /\ maxLongTerm' = CASE op.op = 4 -> op.maxIdxPlus1
                                    [] op.op = 5 -> 0
                                    [] OTHER     -> maxLongTerm
                /\ todo' = Tail(todo)
                /\ UNCHANGED <<phase, result, slice, unused>>
    /\ UNCHANGED <<sequence, prevRefFrameNum, ready, pictures, taken, discarded>>

\* The rest of finish_picture: the order count state, bumping and storing.
\* `drained`, `bumped` and `room` are the DPB between its three calls.
StorePicture ==
    /\ phase = "marking"
    /\ todo = <<>>
    /\ prevRefFrameNum' = IF IsRef(pic) THEN pic.frameNum ELSE prevRefFrameNum
    /\ LET drained == IF pic.mmco5 THEN Clear(dpb) ELSE dpb
           bumped  == BumpedAsNeeded(drained, pic)
           room    == [drained EXCEPT !.entries = Bump(@, bumped)]
           direct  == ~HasEmptyFrameBuffer(room) /\ ~IsRef(pic)
       IN  /\ \E first  \in IF pic.mmco5 THEN Drained(dpb) ELSE {<<>>},
                 second \in OutputOrders(drained.entries, bumped) :
                 ready' = ready \o first \o second \o IF direct THEN <<pictures>> ELSE <<>>
           /\ dpb' = IF HasEmptyFrameBuffer(room)
                     THEN Store(room, pictures, pic, sequence.gen) ELSE room
           /\ IF HasEmptyFrameBuffer(room) \/ direct THEN Submitted ELSE Fail("full")
    /\ UNCHANGED <<sequence, maxLongTerm, pictures, taken, discarded>>

-----------------------------------------------------------------------------
(* The rest of the public calls *)

\* An access unit with no slice: submit has nothing to do.
SubmitParameterSets ==
    /\ phase = "idle"
    /\ phase' = "ready"
    /\ result' = "ok"
    /\ UNCHANGED <<dpb, sequence, prevRefFrameNum, maxLongTerm, ready, slice, unused, pic, todo,
                   pictures, taken, discarded>>

\* Decoder::flush up to take_frames.
Reset ==
    /\ phase = "idle"
    /\ phase' = "ready"
    /\ \E out \in Drained(dpb) : ready' = ready \o out
    /\ dpb' = Clear(dpb)
    /\ prevRefFrameNum' = 0
    /\ maxLongTerm' = 0
    /\ result' = "ok"
    /\ UNCHANGED <<sequence, slice, unused, pic, todo, pictures, taken, discarded>>

\* take_frames and take_exported empty the queue before the first download or
\* export, so a failure of one of them leaves none behind either.
TakeFrames ==
    /\ phase = "ready"
    /\ phase' = "idle"
    /\ taken' = taken \o ready
    /\ ready' = <<>>
    /\ UNCHANGED <<dpb, sequence, prevRefFrameNum, maxLongTerm, slice, unused, pic, todo,
                   pictures, result, discarded>>

Next ==
    \/ \E c \in CodedPicture : BeginPicture(c)
    \/ RefuseGap
    \/ FillGap
    \/ \E allocated \in BOOLEAN : StartPicture(allocated)
    \/ AbandonPicture
    \/ MarkReference
    \/ Mmco
    \/ StorePicture
    \/ SubmitParameterSets
    \/ Reset
    \/ TakeFrames

Spec == Init /\ [][Next]_vars

-----------------------------------------------------------------------------
(* Properties *)

Picture ==
    [poc : Int, frameNum : Nat, picNum : Int, ref : Marks, longTermFrameIdx : Nat,
     nonexisting : BOOLEAN, idr : BOOLEAN, mmco5 : BOOLEAN]

\* The state of the decoder is well formed in each phase of a call: numbers
\* already given out, a slice while begin_picture or finish_picture runs, a
\* picture once begin_picture is done.
TypeOK ==
    /\ \E D \in SUBSET (1 .. pictures) :
          dpb \in [entries : [D -> Entry], maxNumPics : Nat, maxReorder : Nat]
    /\ sequence \in [gen : Nat, shape : Nat, maxDpbFrames : Nat]
    /\ prevRefFrameNum \in Nat
    /\ maxLongTerm \in Nat
    /\ ready \in Seq(1 .. pictures)
    /\ phase \in {"idle", "gap", "picture", "marking", "ready"}
    /\ slice \in IF phase \in {"gap", "picture", "marking"} THEN CodedPicture ELSE {NoPicture}
    /\ pic \in IF phase \in {"picture", "marking"} THEN Picture ELSE {NoPicture}
    /\ unused \in Nat
    /\ todo \in Seq(MmcoOp)
    /\ pictures \in Nat
    /\ result \in {"ok", "sps", "va", "gap", "mmco", "full"}
    /\ taken \in Seq(1 .. pictures)
    /\ discarded \subseteq 1 .. pictures

\* Every surface the DPB holds was allocated from the pool of the active
\* sequence, which is the one the next picture is rendered in: a reference is
\* never of another size, nor of another VA context.  And the DPB is within
\* the limit that sequence was built for, so with the picture in flight the
\* decoder holds at most the surfaces its pool keeps (Sequence::new).
DpbWithinSequence ==
    /\ \A i \in DOMAIN dpb.entries :
          dpb.entries[i].gen = IF dpb.entries[i].nonexisting THEN 0 ELSE sequence.gen
    /\ Cardinality(DOMAIN dpb.entries) <= sequence.maxDpbFrames

\* A long-term frame index names at most one picture, whatever sequence of
\* memory management operations assigned it (mmco_op_3, mmco_op_6, IDR), so
\* mmco_op_2 and list modification find the picture the stream means.
LongTermFrameIdxUnique ==
    \A i, j \in LongTerm(dpb.entries) :
        dpb.entries[i].longTermFrameIdx = dpb.entries[j].longTermFrameIdx => i = j

\* A picture refused for lack of room found every frame buffer in use, by a
\* reference or by a picture that waits for output.
\* finish_picture: "a reference picture is bumped until a frame buffer is
\* free, then stored".
RefusedOnlyWhenInUse ==
    result = "full" =>
        \A i \in DOMAIN dpb.entries : IsRef(dpb.entries[i]) \/ dpb.entries[i].needed

\* A stream that keeps to the sliding window never finds the DPB full: the
\* limits apply_sps sets, the marking and the bumping agree.
NeverRefused == result # "full"

\* Picture numbers name at most one short-term reference, which mmco_op_1,
\* mmco_op_3 and short_term_modification rely on.
ShortTermFrameNumUnique ==
    \A i, j \in ShortTerm(dpb.entries) :
        dpb.entries[i].frameNum = dpb.entries[j].frameNum => i = j

\* Access units that follow a flush, or a start in the middle of a stream, do
\* decode.  Decoder::flush: "distorted pictures until its next IDR rather
\* than an error".
MidStreamDecodes == result # "gap"

\* The pictures that wait, each with its picture order count.
WaitingCounts(d) == [i \in Waiting(d) |-> d[i].poc]

\* What the decoder promises of its output, of the pictures as it numbers
\* them: finish_picture is what decodes one.
Reorder == INSTANCE OutputReorder WITH
    number  <- pictures,
    count   <- IF phase = "marking" THEN pic.poc ELSE 0,
    waiting <- WaitingCounts(dpb.entries),
    out     <- taken \o ready

\* The pictures come due in output order, each at most once, and only an IDR
\* that asks for it drops any: decode() and flush() return "the pictures that
\* came due, in output order", over every call.
OutputInOrder == Reorder!Spec
=============================================================================
