------------------------------ MODULE Encoder ------------------------------
(***************************************************************************)
(* The encoder of src/src/encode.rs and src/src/encode/h265.rs: IPPP       *)
(* pictures, each predicting from the one before it, on two reconstructed  *)
(* surfaces.                                                               *)
(*                                                                         *)
(* A call is one step, since the methods hold &mut self; `failed` names    *)
(* the call within it that fails, "none" being success.  The driver is the *)
(* one the calls describe: it writes the reconstruction when a picture     *)
(* ends, and may have written it when the end, the sync or the reading of  *)
(* the coded buffer fails.  Input frames come through the video processor  *)
(* when they cannot be encoded in place.                                   *)
(***************************************************************************)
EXTENDS VideoProcessor, Sequences

CONSTANTS
    Gop,        \* Config::gop
    Limit,      \* LIMIT, the modulus of frame_num
    PocLsb,     \* 2 ^ (LOG2_MAX_POC_LSB_MINUS4 + 4), of the H.265 order counts
    Rates,      \* the bitrates set_bitrate is asked for, and the initial one
    MinCoded,   \* the least size of the coded buffer
    EncodeSize  \* Config::width and height, a size of destinations

ASSUME EncoderAssumption ==
    /\ {Gop, Limit, PocLsb} \subseteq Nat \ {0}
    /\ PocLsb > 1
    /\ Rates \subseteq Nat
    /\ MinCoded \in Nat

VARIABLES
    codec,            \* Config::codec
    counter,          \* Encoder::counter
    reference,        \* Encoder::reference, or NoReference
    processor,        \* whether Encoder::processor is open
    resetRateControl, \* Encoder::reset_rate_control
    bitrate,          \* Config::bitrate
    codedSize,        \* Encoder::coded_size
    recon,            \* the reconstructed surfaces: the number of the picture each shows
    attempts,         \* how many pictures were put together, the number of the last
    owed,             \* history: an IDR failed, and no picture was returned since
    returned          \* history: the pictures returned

encoderVars == <<codec, counter, reference, processor, resetRateControl, bitrate, codedSize,
                 recon, attempts, owed, returned>>
vars == <<vppVars, encoderVars>>

NoReference == [none |-> TRUE]

\* coded_size: two seconds at the bitrate.
CodedSize(rate) == IF rate \div 4 > MinCoded THEN rate \div 4 ELSE MinCoded

Init ==
    /\ VppInit
    /\ codec \in {"H264", "H265"}
    /\ counter = 0
    /\ reference = NoReference
    /\ processor = FALSE
    /\ resetRateControl = FALSE
    /\ bitrate \in Rates \ {0}
    /\ codedSize = CodedSize(bitrate)
    /\ recon = [i \in 0 .. 1 |-> 0]
    /\ attempts = 0
    /\ owed = FALSE
    /\ returned = <<>>

-----------------------------------------------------------------------------
(* encode_surface *)

\* Where encode_surface can fail: the packed headers and the buffers, the four
\* calls of the picture, and the reading of the coded buffer.
EncodeFailures == {"buffers", "begin", "render", "end", "sync", "read"}

\* Mutant: the low bits of H.264 wrap with frame_num.
LsbOfFrameNum(count) == IF codec = "H264" THEN (2 * count) % Limit ELSE count % PocLsb

\* The low bits of the order count: those of H.264 have a bit more than
\* frame_num has.
Lsb(count) == IF codec = "H264" THEN (2 * count) % (2 * Limit) ELSE count % PocLsb

\* FrameMeta::new and the slice headers.  An H.265 picture has no frame_num,
\* and refers to the one an order count before it.
Picture(idr, count, ref) ==
    [number   |-> attempts + 1,
     idr      |-> idr,
     count    |-> count,
     frameNum |-> count % Limit,
     lsb      |-> Lsb(count),
     predicts |-> ref # NoReference,
     from     |-> IF ref = NoReference THEN 0 ELSE recon[ref.index],
     fromPoc  |-> IF ref = NoReference THEN 0
                  ELSE IF codec = "H264" THEN 2 * ref.count ELSE count - 1,
     idrPicId |-> 0,
     rate     |-> bitrate,
     reset    |-> resetRateControl,
     owed     |-> owed]

\* Mutant: one key frame every Gop + 1 pictures.
IsIdrLate(keyframe) == keyframe \/ counter % (Gop + 1) = 0

IsIdr(keyframe) == keyframe \/ counter % Gop = 0

\* An IDR restarts the count and drops the reference, before anything can fail.
Count(keyframe) == IF IsIdr(keyframe) THEN 0 ELSE counter
Ref(keyframe) == IF IsIdr(keyframe) THEN NoReference ELSE reference

\* Mutant: every picture is reconstructed on the first surface.
ReconIndexFirst(count) == 0

\* Mutant: a surface for each count.
ReconIndexOfCount(count) == count

ReconIndex(count) == count % 2

\* The surfaces as a picture leaves them.
Reconstructed(count, failed) ==
    (IF failed = "none" THEN {} ELSE {recon})
    \cup (IF failed \in {"none", "end", "sync", "read"}
          THEN {[recon EXCEPT ![ReconIndex(count)] = attempts + 1]} ELSE {})

\* Mutant: the count restarts only with an IDR that was returned.
CounterAfterLate(keyframe, failed) == IF failed = "none" THEN Count(keyframe) + 1 ELSE counter

CounterAfter(keyframe, failed) == IF failed = "none" THEN Count(keyframe) + 1 ELSE Count(keyframe)

\* Mutant: the request for a reset goes with the picture that carried it,
\* returned or not.
ResetAfterAny(failed) == FALSE

ResetAfter(failed) == resetRateControl /\ failed # "none"

\* encode_surface on a source that holds the frame.
EncodeSurface(keyframe, failed) ==
    LET count == Count(keyframe)
    IN  /\ attempts' = attempts + 1
        /\ recon' \in Reconstructed(count, failed)
        /\ counter' = CounterAfter(keyframe, failed)
        /\ resetRateControl' = ResetAfter(failed)
        /\ IF failed = "none"
           THEN /\ returned' = Append(returned, Picture(IsIdr(keyframe), count, Ref(keyframe)))
                /\ reference' = [index |-> ReconIndex(count), count |-> count]
                /\ owed' = FALSE
           ELSE /\ reference' = Ref(keyframe)
                /\ owed' = (owed \/ IsIdr(keyframe))
                /\ UNCHANGED returned
        /\ UNCHANGED <<codec, bitrate, codedSize>>

-----------------------------------------------------------------------------
(* The public calls.  One that is refused before it changes anything (a    *)
(* short frame, a failed upload or import, a processor that does not open) *)
(* is no step.                                                             *)

\* encode_nv12, and encode_dmabuf of a buffer that is encoded in place.
EncodeFrame(keyframe, failed) ==
    /\ EncodeSurface(keyframe, failed)
    /\ UNCHANGED <<vppVars, processor>>

\* Where a conversion can fail: both its surfaces are of the display.
ConvertFailures == BlitFailures \ {"display"}

\* encode_dmabuf of a buffer the processor converts first.
ConvertFrame(keyframe, blit, failed) ==
    /\ processor' = TRUE
    /\ Blit(EncodeSize, blit)
    /\ IF blit = "none"
       THEN EncodeSurface(keyframe, failed)
       ELSE UNCHANGED <<codec, counter, reference, resetRateControl, bitrate, codedSize, recon,
                        attempts, owed, returned>>

Grown(rate) == IF CodedSize(rate) > codedSize THEN CodedSize(rate) ELSE codedSize

\* set_bitrate: refused for zero, and when a larger coded buffer cannot be had.
SetBitrate(rate) ==
    /\ rate # 0
    /\ codedSize' = Grown(rate)
    /\ resetRateControl' = (resetRateControl \/ rate # bitrate)
    /\ bitrate' = rate
    /\ UNCHANGED <<vppVars, codec, counter, reference, processor, recon, attempts, owed, returned>>

Next ==
    \/ \E keyframe \in BOOLEAN, failed \in EncodeFailures \cup {"none"} :
          \/ EncodeFrame(keyframe, failed)
          \/ \E blit \in ConvertFailures \cup {"none"} : ConvertFrame(keyframe, blit, failed)
    \/ \E rate \in Rates : SetBitrate(rate)

Spec == Init /\ [][Next]_vars

-----------------------------------------------------------------------------
(* Properties *)

PictureInfo ==
    [number : Nat, idr : BOOLEAN, count : Nat, frameNum : Nat, lsb : Nat, predicts : BOOLEAN,
     from : Nat, fromPoc : Int, idrPicId : Nat, rate : Nat, reset : BOOLEAN, owed : BOOLEAN]

TypeOK ==
    /\ codec \in {"H264", "H265"}
    /\ counter \in Nat
    /\ reference \in [index : 0 .. 1, count : Nat] \cup {NoReference}
    /\ processor \in BOOLEAN
    /\ resetRateControl \in BOOLEAN
    /\ bitrate \in Rates \ {0}
    /\ codedSize \in Nat
    /\ recon \in [0 .. 1 -> Nat]
    /\ attempts \in Nat
    /\ owed \in BOOLEAN
    /\ returned \in Seq(PictureInfo)

\* The full order count of a picture.
Poc(picture) == IF codec = "H264" THEN 2 * picture.count ELSE picture.count

\* Every returned picture but an IDR predicts from the one returned before it,
\* as the surface it reads still shows it and by the order count it is named
\* with; an IDR predicts from nothing.  Failed calls leave no gap in frame_num,
\* nor in the order counts.
StreamContinues ==
    \A n \in DOMAIN returned :
        IF returned[n].idr
        THEN ~returned[n].predicts /\ returned[n].frameNum = 0 /\ returned[n].lsb = 0
        ELSE /\ n > 1
             /\ returned[n].predicts
             /\ returned[n].from = returned[n - 1].number
             /\ returned[n].fromPoc = Poc(returned[n - 1])
             /\ returned[n].frameNum = (returned[n - 1].frameNum + 1) % Limit
             /\ returned[n].count = returned[n - 1].count + 1

\* After an IDR that failed, the next picture returned is an IDR, whatever was
\* asked for: nothing else can be decoded by a receiver that asked for one.
KeyFrameOwed == \A n \in DOMAIN returned : returned[n].owed => returned[n].idr

\* Of any Gop pictures returned in a row one is an IDR.
KeyFrameInterval ==
    \A n \in DOMAIN returned : n >= Gop => \E k \in n - Gop + 1 .. n : returned[k].idr

\* The driver is asked to reset its rate controller with the first picture
\* returned at a new bitrate, whatever failed since the change.
RateFollows ==
    \A n \in DOMAIN returned :
        n > 1 /\ returned[n].rate # returned[n - 1].rate => returned[n].reset

\* "When two consecutive access units in decoding order are both IDR access
\* units", their idr_pic_id differs (SliceHeader::idr_pic_id).
IdrPicIdsDiffer ==
    codec = "H264" =>
        \A n \in DOMAIN returned :
            n > 1 /\ returned[n].idr /\ returned[n - 1].idr
                => returned[n].idrPicId # returned[n - 1].idrPicId
=============================================================================
