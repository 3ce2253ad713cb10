-------------------------- MODULE H264PicOrderCnt --------------------------
(***************************************************************************)
(* The picture order count of H.264 frames (8.2.1): compute_pic_order_count *)
(* of src/src/decode.rs and what it remembers of the pictures before.      *)
(*                                                                         *)
(* A picture that fails or never arrives is no step: finish_picture fills  *)
(* both memories once the picture has run.                                 *)
(***************************************************************************)
EXTENDS Integers, Sequences

\* What the derivation reads of a sequence parameter set; `cycle` is
\* offset_for_ref_frame.
PocSps ==
    [type : 0 .. 2, maxLsb : Nat \ {0}, maxFrameNum : Nat \ {0}, cycle : Seq(Int),
     nonRef : Int, topToBottom : Int]

\* ... and of a slice header; `bottom` is delta_pic_order_cnt_bottom.
PocPicture ==
    [idr : BOOLEAN, ref : BOOLEAN, mmco5 : BOOLEAN, frameNum : Nat, lsb : Nat, bottom : Int,
     delta : Int \X Int]

VARIABLES
    prevRef, \* PrevReferencePicInfo
    prevPic  \* PrevPicInfo

pocVars == <<prevRef, prevPic>>

NoPrevRef == [mmco5 |-> FALSE, top |-> 0, msb |-> 0, lsb |-> 0]
NoPrevPic == [frameNum |-> 0, offset |-> 0, mmco5 |-> FALSE]

PocInit ==
    /\ prevRef = NoPrevRef
    /\ prevPic = NoPrevPic

Smaller(a, b) == IF a < b THEN a ELSE b

Counts(top, bottom) == [top |-> top, bottom |-> bottom, poc |-> Smaller(top, bottom)]

\* Type 0 (8.2.1.1): prevPicOrderCntMsb and prevPicOrderCntLsb.
PrevCounts(p) ==
    CASE p.idr         -> [msb |-> 0, lsb |-> 0]
      [] prevRef.mmco5 /\ ~p.idr -> [msb |-> 0, lsb |-> prevRef.top]
      [] OTHER         -> [msb |-> prevRef.msb, lsb |-> prevRef.lsb]

\* Mutant: a difference of half the modulus goes the other way.
MsbHalf(sps, p) ==
    LET prev == PrevCounts(p)
    IN  CASE p.lsb < prev.lsb /\ prev.lsb - p.lsb > sps.maxLsb \div 2 -> prev.msb + sps.maxLsb
          [] p.lsb > prev.lsb /\ p.lsb - prev.lsb > sps.maxLsb \div 2 -> prev.msb - sps.maxLsb
          [] OTHER -> prev.msb

Msb(sps, p) ==
    LET prev == PrevCounts(p)
    IN  CASE p.lsb < prev.lsb /\ prev.lsb - p.lsb >= sps.maxLsb \div 2 -> prev.msb + sps.maxLsb
          [] p.lsb > prev.lsb /\ p.lsb - prev.lsb > sps.maxLsb \div 2  -> prev.msb - sps.maxLsb
          [] OTHER -> prev.msb

\* Types 1 and 2 (8.2.1.2, 8.2.1.3): FrameNumOffset.
Offset(sps, p) ==
    LET before == IF prevPic.mmco5 THEN 0 ELSE prevPic.offset
    IN  CASE p.idr -> 0
          [] ~p.idr /\ prevPic.frameNum > p.frameNum -> before + sps.maxFrameNum
          [] OTHER -> before

\* Type 1: absFrameNum, then the offsets of whole cycles and of the part of the
\* last up to this frame.
AbsFrameNum(sps, p) ==
    LET frames == IF sps.cycle = <<>> THEN 0 ELSE Offset(sps, p) + p.frameNum
    IN  IF ~p.ref /\ frames > 0 THEN frames - 1 ELSE frames

\* The sum of the first n.
OffsetsOf(cycle, n) ==
    LET sum[i \in 0 .. n] == IF i = 0 THEN 0 ELSE sum[i - 1] + cycle[i]
    IN  sum[n]

Expected(sps, p) ==
    LET frames == AbsFrameNum(sps, p)
        length == Len(sps.cycle)
    IN  (IF frames = 0 THEN 0
         ELSE ((frames - 1) \div length) * OffsetsOf(sps.cycle, length)
              + OffsetsOf(sps.cycle, ((frames - 1) % length) + 1))
        + (IF p.ref THEN 0 ELSE sps.nonRef)

\* compute_pic_order_count
PicOrderCounts(sps, p) ==
    CASE sps.type = 0 ->
           LET top == Msb(sps, p) + p.lsb IN Counts(top, top + p.bottom)
      [] sps.type = 1 ->
           LET top == Expected(sps, p) + p.delta[1]
           IN  Counts(top, top + sps.topToBottom + p.delta[2])
      [] sps.type = 2 ->
           LET count == CASE p.idr  -> 0
                          [] ~p.idr /\ p.ref -> 2 * (Offset(sps, p) + p.frameNum)
                          [] OTHER -> 2 * (Offset(sps, p) + p.frameNum) - 1
           IN  Counts(count, count)

\* mmco_op_5 takes the counts of the picture back to 0, and its frame_num.
AfterMmco5(counts) == Counts(counts.top - counts.poc, counts.bottom - counts.poc)

\* Both memories, as finish_picture fills them.
Remember(sps, p) ==
    LET counts == PicOrderCounts(sps, p)
    IN  /\ prevRef' = IF ~p.ref THEN prevRef
                      ELSE [mmco5 |-> p.mmco5,
                            top   |-> IF p.mmco5 THEN AfterMmco5(counts).top ELSE counts.top,
                            msb   |-> IF sps.type = 0 THEN Msb(sps, p) ELSE 0,
                            lsb   |-> p.lsb]
        /\ prevPic' = [frameNum |-> IF p.mmco5 THEN 0 ELSE p.frameNum,
                       offset   |-> IF sps.type = 0 THEN 0 ELSE Offset(sps, p),
                       mmco5    |-> p.mmco5]

\* H264::reset
Forget ==
    /\ prevRef' = NoPrevRef
    /\ prevPic' = NoPrevPic
=============================================================================
