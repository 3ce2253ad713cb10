---------------------------- MODULE H265Decoder ----------------------------
(***************************************************************************)
(* The H.265 decoder of src/src/decode/h265.rs, with the picture data of   *)
(* src/src/codec/h265/picture.rs, between NAL units already parsed and a   *)
(* driver that may refuse.                                                 *)
(*                                                                         *)
(* submit() takes the NAL units of one call in order.  `phase` is where    *)
(* the call stands:                                                        *)
(*                                                                         *)
(*   idle    no call in progress                                           *)
(*   next    between two NAL units                                         *)
(*   finish  in finish_picture, for the picture in flight                  *)
(*   output  in its loop, which outputs what is over the reorder limit     *)
(*   unit    at an end of sequence, of bitstream or of the access unit,    *)
(*           with no picture in flight                                     *)
(*   begin   in begin_picture, at apply_sps                                *)
(*   derive  in begin_picture, at the picture data                         *)
(*   room    in the loop of update_dpb_before_decoding                     *)
(*   slice   at decode_slice                                               *)
(*   ready   submit (or reset) is done, the ready queue is to be taken     *)
(*                                                                         *)
(* Each round of the two bumping loops is a step: whether they end is for  *)
(* BumpingEnds to say.  The methods hold &mut self, so nothing else runs   *)
(* in between.                                                             *)
(***************************************************************************)
EXTENDS H265Dpb

CONSTANT SpsSet \* the sequence parameter sets the stream can activate

\* Sps, with the Format that format() makes of it, or its refusal.
SpsInfo ==
    [shape : Nat, supported : BOOLEAN, maxDpbFrames : Nat, maxDecPicBuffering : Nat \ {0},
     maxNumReorder : Nat, maxLatencyIncreasePlus1 : Nat, maxLsb : Nat \ {0}]

ASSUME SpsAssumption == SpsSet \subseteq SpsInfo

NaluTypes ==
    {"IDR", "BLA", "CRA", "RASL_N", "RASL_R", "RADL_N", "RADL_R", "TRAIL_N", "TRAIL_R"}

IsIrap(type) == type \in {"IDR", "BLA", "CRA"}
IsRasl(type) == type \in {"RASL_N", "RASL_R"}
IsRadl(type) == type \in {"RADL_N", "RADL_R"}
IsSlnr(type) == type \in {"RASL_N", "RADL_N", "TRAIL_N"}

\* An entry of a short-term reference picture set, and a long-term one;
\* poc_lt carries the high bits when msb is set.
StRef == [delta : Int \ {0}, used : BOOLEAN]
LtRef == [lsb : Nat, msb : BOOLEAN, cycle : Nat, used : BOOLEAN]

\* What an independent slice segment says for itself and for the dependent
\* segments after it.  `coded` tells the coded pictures apart.
SliceHeader ==
    [coded : Nat, lsb : Nat, inter : BOOLEAN, output : BOOLEAN, stFromSps : BOOLEAN,
     st : SUBSET StRef, lt : SUBSET LtRef]

NoHeader == [none |-> TRUE]

\* A slice segment, and as it comes: a dependent one has no header.
Segment ==
    [coded : Nat, type : NaluTypes, tid : Nat, first : BOOLEAN, dependent : BOOLEAN,
     noOutput : BOOLEAN, sps : SpsSet, header : SliceHeader \cup {NoHeader}]

CodedSegment == {s \in Segment : s.dependent <=> s.header = NoHeader}

Ends == {"EOS", "EOB", "end"}

VARIABLES
    dpb,              \* Decoder::dpb; its limit is that of activeSps
    activeSps,        \* Decoder::sps, or NoSps
    sequence,         \* Decoder::sequence: gen 0 is None
    prevTid0,         \* Decoder::prev_tid0_pic, or NoTid0
    firstInBitstream, \* Decoder::first_picture_in_bitstream
    firstAfterEos,    \* Decoder::first_picture_after_eos
    irapNoRasl,       \* Decoder::irap_no_rasl_output_flag
    lastHeader,       \* Decoder::last_independent_slice_header, or NoHeader
    ready,            \* Decoder::ready, as picture numbers
    phase,            \* where the call in progress stands
    nal,              \* the NAL unit submit is at
    current,          \* CurrentPicture, or NoPicture
    pictures,         \* how many pictures were begun
    result,           \* what the last submit returned
    taken,            \* history: the picture numbers taken from `ready`
    discarded         \* history: pictures dropped by no_output_of_prior_pics_flag

stream == <<activeSps, sequence, prevTid0, firstInBitstream, firstAfterEos, irapNoRasl, lastHeader>>
vars == <<dpb, stream, ready, phase, nal, current, pictures, result, taken, discarded>>

NoSps == [none |-> TRUE]
NoTid0 == [none |-> TRUE]
NoNal == [none |-> TRUE]
NoPicture == [none |-> TRUE]

Init ==
    /\ dpb = NoEntries
    /\ activeSps = NoSps
    /\ sequence = [gen |-> 0, shape |-> 0, maxDpbFrames |-> 0]
    /\ prevTid0 = NoTid0
    /\ firstInBitstream = TRUE
    /\ firstAfterEos = TRUE
    /\ irapNoRasl = FALSE
    /\ lastHeader = NoHeader
    /\ ready = <<>>
    /\ phase = "idle"
    /\ nal = NoNal
    /\ current = NoPicture
    /\ pictures = 0
    /\ result = "ok"
    /\ taken = <<>>
    /\ discarded = {}

\* Mutant: the picture in flight waits for the next call.
FailInFlight(why) ==
    /\ phase' = "idle"
    /\ result' = why
    /\ nal' = NoNal
    /\ UNCHANGED current

\* submit() returns an error: the picture in flight is dropped.
Fail(why) ==
    /\ phase' = "idle"
    /\ result' = why
    /\ nal' = NoNal
    /\ current' = NoPicture

Go(to) == phase' = to /\ UNCHANGED <<nal, current, result>>

-----------------------------------------------------------------------------
(* submit: the NAL units of a call *)

\* Mutant: a dependent segment leaves its own empty header for the next.
SubmitSliceForgetful(s) ==
    /\ phase \in {"idle", "next"}
    /\ \/ /\ s.dependent
          /\ lastHeader = NoHeader
          /\ Fail("slice")
          /\ UNCHANGED lastHeader
       \/ /\ s.dependent => lastHeader # NoHeader
          /\ lastHeader' = IF s.dependent \/ lastHeader # NoHeader THEN lastHeader ELSE s.header
          /\ nal' = IF s.dependent THEN [s EXCEPT !.header = lastHeader] ELSE s
          /\ phase' = CASE s.first /\ current # NoPicture  -> "finish"
                        [] current = NoPicture             -> "begin"
                        [] OTHER                           -> "slice"
          /\ result' = "ok"
          /\ UNCHANGED current
    /\ UNCHANGED <<dpb, activeSps, sequence, prevTid0, firstInBitstream, firstAfterEos, irapNoRasl,
                   ready, pictures, taken, discarded>>

\* A slice segment: its header is its own, or that of the last independent
\* segment, whatever picture that one was of.
SubmitSlice(s) ==
    /\ phase \in {"idle", "next"}
    /\ \/ /\ s.dependent
          /\ lastHeader = NoHeader
          /\ Fail("slice")
          /\ UNCHANGED lastHeader
       \/ /\ s.dependent => lastHeader # NoHeader
          /\ lastHeader' = IF s.dependent THEN lastHeader ELSE s.header
          /\ nal' = IF s.dependent THEN [s EXCEPT !.header = lastHeader] ELSE s
          /\ phase' = CASE s.first /\ current # NoPicture  -> "finish"
                        [] current = NoPicture             -> "begin"
                        [] OTHER                           -> "slice"
          /\ result' = "ok"
          /\ UNCHANGED current
    /\ UNCHANGED <<dpb, activeSps, sequence, prevTid0, firstInBitstream, firstAfterEos, irapNoRasl,
                   ready, pictures, taken, discarded>>

\* An end of sequence or of bitstream unit, or no more units in the call.
SubmitEnd(end) ==
    /\ phase \in {"idle", "next"}
    /\ nal' = [end |-> end]
    /\ phase' = IF current = NoPicture THEN "unit" ELSE "finish"
    /\ result' = "ok"
    /\ UNCHANGED <<dpb, stream, ready, current, pictures, taken, discarded>>

\* A unit the parser refuses; the slice headers it already took stay.
RefuseUnit ==
    /\ phase \in {"idle", "next"}
    /\ Fail("parse")
    /\ UNCHANGED <<dpb, stream, ready, pictures, taken, discarded>>

IsEnd(n) == n # NoNal /\ "end" \in DOMAIN n

\* What an end unit does once no picture is in flight.
EndUnit ==
    /\ phase = "unit"
    /\ IF nal.end = "end"
       THEN UNCHANGED <<dpb, ready>>
       ELSE /\ \E out \in Drained(dpb) : ready' = ready \o out
            /\ dpb' = NoEntries
    /\ firstAfterEos' = (firstAfterEos \/ nal.end = "EOS")
    /\ firstInBitstream' = (firstInBitstream \/ nal.end = "EOB")
    /\ phase' = IF nal.end = "end" THEN "ready" ELSE "next"
    /\ nal' = NoNal
    /\ UNCHANGED <<activeSps, sequence, prevTid0, irapNoRasl, lastHeader, current, pictures,
                   result, taken, discarded>>

-----------------------------------------------------------------------------
(* begin_picture *)

SameFormat(sps) ==
    /\ sequence.gen > 0
    /\ sequence.shape = sps.shape
    /\ sequence.maxDpbFrames = sps.maxDpbFrames

\* format() refuses the SPS before anything changed.
RefuseSps ==
    /\ phase = "begin"
    /\ ~nal.sps.supported
    /\ Fail("sps")
    /\ UNCHANGED <<dpb, stream, ready, pictures, taken, discarded>>

\* Mutant: pictures of the old format stay in the DPB.
ApplySpsUndrained(built) ==
    /\ phase = "begin"
    /\ nal.sps.supported
    /\ activeSps' = nal.sps
    /\ UNCHANGED <<dpb, ready>>
    /\ sequence' = IF SameFormat(nal.sps) \/ ~built THEN sequence
                   ELSE [gen |-> sequence.gen + 1, shape |-> nal.sps.shape,
                         maxDpbFrames |-> nal.sps.maxDpbFrames]
    /\ IF built \/ SameFormat(nal.sps) THEN Go("derive") ELSE Fail("va")
    /\ UNCHANGED <<prevTid0, firstInBitstream, firstAfterEos, irapNoRasl, lastHeader,
                   pictures, taken, discarded>>

\* apply_sps: a new format drains the DPB, then builds the VA state, or fails
\* with the limits of the new SPS in place.
ApplySps(built) ==
    /\ phase = "begin"
    /\ nal.sps.supported
    /\ activeSps' = nal.sps
    /\ IF SameFormat(nal.sps)
       THEN /\ built
            /\ Go("derive")
            /\ UNCHANGED <<dpb, sequence, ready>>
       ELSE /\ \E out \in Drained(dpb) : ready' = ready \o out
            /\ dpb' = NoEntries
            /\ IF built
               THEN /\ sequence' = [gen |-> sequence.gen + 1, shape |-> nal.sps.shape,
                                    maxDpbFrames |-> nal.sps.maxDpbFrames]
                    /\ Go("derive")
               ELSE Fail("va") /\ UNCHANGED sequence
    /\ UNCHANGED <<prevTid0, firstInBitstream, firstAfterEos, irapNoRasl, lastHeader,
                   pictures, taken, discarded>>

NoRaslOutput(s) ==
    \/ s.type \in {"IDR", "BLA"}
    \/ s.type = "CRA" /\ firstInBitstream
    \/ firstAfterEos

\* Mutant: the high bits stay those of the picture before.
PicOrderCntMsbUnwrapped(s) ==
    IF prevTid0 = NoTid0 \/ (IsIrap(s.type) /\ NoRaslOutput(s)) THEN 0 ELSE prevTid0.msb

\* 8-1, from PrevTid0Pic.
PicOrderCntMsb(s) ==
    LET lsb == s.header.lsb
        max == s.sps.maxLsb
    IN  CASE prevTid0 = NoTid0 \/ (IsIrap(s.type) /\ NoRaslOutput(s)) -> 0
          [] OTHER ->
               CASE lsb < prevTid0.lsb /\ 2 * (prevTid0.lsb - lsb) >= max -> prevTid0.msb + max
                 [] lsb > prevTid0.lsb /\ 2 * (lsb - prevTid0.lsb) > max  -> prevTid0.msb - max
                 [] OTHER                                                 -> prevTid0.msb

\* Mutant: leading pictures anchor the order counts too.
PictureDataAnyTid0(s) ==
    LET msb == PicOrderCntMsb(s)
    IN  [type    |-> s.type,
         noRasl  |-> NoRaslOutput(s),
         output  |-> s.header.output /\ ~(IsRasl(s.type) /\ NoRaslOutput(s)),
         tid0    |-> s.tid = 0,
         lsb     |-> s.header.lsb,
         msb     |-> msb,
         poc     |-> msb + s.header.lsb,
         discard |-> /\ IsIrap(s.type) /\ NoRaslOutput(s) /\ ~firstInBitstream
                     /\ s.type = "CRA" \/ s.noOutput]

\* PictureData::new_from_slice
PictureData(s) ==
    LET msb == PicOrderCntMsb(s)
    IN  [type    |-> s.type,
         noRasl  |-> NoRaslOutput(s),
         output  |-> s.header.output /\ ~(IsRasl(s.type) /\ NoRaslOutput(s)),
         tid0    |-> s.tid = 0 /\ ~IsRadl(s.type) /\ ~IsRasl(s.type) /\ ~IsSlnr(s.type),
         lsb     |-> s.header.lsb,
         msb     |-> msb,
         poc     |-> msb + s.header.lsb,
         discard |-> /\ IsIrap(s.type) /\ NoRaslOutput(s) /\ ~firstInBitstream
                     /\ s.type = "CRA" \/ s.noOutput]

\* An IRAP picture that starts the stream over.
StartsOver(p) == IsIrap(p.type) /\ p.noRasl

\* The short-term set the slice names.  A dependent segment keeps its own
\* curr_rps_idx, which stands for the set coded in the slice header.
StSet(s) == IF s.dependent /\ s.header.stFromSps THEN {} ELSE s.header.st

\* 8-5: where a long-term picture is looked up.
FindLongTerm(d, s, p, lt) ==
    LET max == s.sps.maxLsb
    IN  IF lt.msb THEN FindRefByPoc(d, lt.lsb + p.poc - lt.cycle * max - (p.poc % max))
        ELSE FindRefByPocMasked(d, lt.lsb, max)

\* The pictures the long-term and the short-term references name, those only
\* the current picture predicts from when `used` is {TRUE}.
LongTermSet(d, s, p, used) ==
    IF p.type = "IDR" THEN {}
    ELSE UNION {FindLongTerm(d, s, p, lt) : lt \in {r \in s.header.lt : r.used \in used}}

ShortTermSet(d, s, p, used) ==
    IF p.type = "IDR" THEN {}
    ELSE UNION {FindShortTermRefByPoc(d, p.poc + st.delta) : st \in {r \in StSet(s) : r.used \in used}}

\* The DPB at the long-term lookups, and once their pictures are marked.
BeforeRps(p) == IF StartsOver(p) THEN MarkAllAsUnusedForRef(dpb) ELSE dpb
LongTermMarked(s, p) ==
    SetReference(BeforeRps(p), LongTermSet(BeforeRps(p), s, p, BOOLEAN), "LongTerm")

\* Mutant: pictures the set leaves out stay references.
DeriveRpsKeepingAll(s, p) == LongTermMarked(s, p)

\* derive_rps: every picture the set leaves out is no longer a reference.
DeriveRps(s, p) ==
    LET kept == LongTermSet(BeforeRps(p), s, p, BOOLEAN)
                    \cup ShortTermSet(LongTermMarked(s, p), s, p, BOOLEAN)
    IN  SetReference(LongTermMarked(s, p), DOMAIN dpb \ kept, "None")

\* A RASL picture of an IRAP picture that started the stream over.
Skipped(p) == ~IsIrap(p.type) /\ IsRasl(p.type) /\ irapNoRasl

\* begin_picture from the picture data to the loop that makes room.
BeginPicture ==
    /\ phase = "derive"
    /\ \E p \in {PictureData(nal)} : \E left \in {DeriveRps(nal, p)} :
           /\ irapNoRasl' = IF IsIrap(p.type) THEN p.noRasl ELSE irapNoRasl
           /\ IF Skipped(p)
              THEN /\ phase' = "next"
                   /\ nal' = NoNal
                   /\ UNCHANGED <<dpb, ready, current, discarded>>
              ELSE /\ phase' = "room"
                   /\ current' = [coded |-> nal.coded, sps |-> nal.sps, pic |-> p, id |-> 0,
                                  predicts |-> /\ p.type # "IDR"
                                               /\ \E r \in StSet(nal) \cup nal.header.lt : r.used,
                                  refs |-> LongTermSet(BeforeRps(p), nal, p, {TRUE})
                                           \cup ShortTermSet(LongTermMarked(nal, p), nal, p, {TRUE})]
                   /\ dpb' = IF StartsOver(p) THEN NoEntries ELSE RemoveUnused(left)
                   /\ \E out \in IF StartsOver(p) /\ ~p.discard THEN Drained(left) ELSE {<<>>} :
                         ready' = ready \o out
                   /\ discarded' = discarded \cup
                                   IF StartsOver(p) /\ p.discard THEN Waiting(left) ELSE {}
                   /\ UNCHANGED nal
    /\ firstInBitstream' = FALSE
    /\ firstAfterEos' = FALSE
    /\ UNCHANGED <<activeSps, sequence, prevTid0, lastHeader, pictures, result, taken>>

\* One round of the loop of update_dpb_before_decoding.
MakeRoom ==
    /\ phase = "room"
    /\ NeedsBumping(dpb, nal.sps)
    /\ \E i \in LowestForBumping(dpb) :
          /\ dpb' = Bump(dpb, {i}, FALSE)
          /\ ready' = Append(ready, i)
    /\ UNCHANGED <<stream, phase, nal, current, pictures, result, taken, discarded>>

\* The rest of begin_picture: more references than a picture can use, or the
\* driver has no surface or no buffer, or the picture is in flight.
MaxVaReferences == 15

StartPicture(allocated) ==
    /\ phase = "room"
    /\ ~NeedsBumping(dpb, nal.sps) \/ Waiting(dpb) = {}
    /\ IF allocated /\ Cardinality(Refs(dpb)) <= MaxVaReferences
       THEN /\ pictures' = pictures + 1
            /\ current' = [current EXCEPT !.id = pictures + 1]
            /\ phase' = "slice"
            /\ UNCHANGED <<nal, result>>
       ELSE /\ Fail("va")
            /\ UNCHANGED pictures
    /\ UNCHANGED <<dpb, stream, ready, taken, discarded>>

-----------------------------------------------------------------------------
(* decode_slice and finish_picture *)

SliceRefused ==
    \/ ~nal.sps.supported
    \/ nal.sps.shape # current.sps.shape
    \/ nal.sps.maxDpbFrames # current.sps.maxDpbFrames
    \/ nal.header.inter /\ ~current.predicts

\* decode_slice: an inter slice of a picture with nothing to predict from is
\* refused, and a slice of another format; or the driver takes no buffer.
DecodeSlice(accepted) ==
    /\ phase = "slice"
    /\ IF accepted /\ ~SliceRefused
       THEN /\ phase' = "next"
            /\ nal' = NoNal
            /\ UNCHANGED <<current, result>>
       ELSE Fail("slice")
    /\ UNCHANGED <<dpb, stream, ready, pictures, taken, discarded>>

\* finish_picture up to its loop: run the picture, remember it as PrevTid0Pic
\* and store it.
RunPicture(decoded) ==
    /\ phase = "finish"
    /\ IF decoded
       THEN /\ prevTid0' = IF current.pic.tid0
                           THEN [lsb |-> current.pic.lsb, msb |-> current.pic.msb] ELSE prevTid0
            /\ IF Cardinality(DOMAIN dpb) < activeSps.maxDpbFrames
               THEN /\ dpb' = Store(dpb, current.id, current.pic, sequence.gen)
                    /\ Go("output")
               ELSE Fail("full") /\ UNCHANGED dpb
       ELSE /\ Fail("va")
            /\ UNCHANGED <<dpb, prevTid0>>
    /\ UNCHANGED <<activeSps, sequence, firstInBitstream, firstAfterEos, irapNoRasl, lastHeader,
                   ready, pictures, taken, discarded>>

\* One round of the loop of finish_picture (C.5.2.3).
OutputPicture ==
    /\ phase = "output"
    /\ OutputOverdue(dpb, activeSps)
    /\ \E i \in LowestForBumping(dpb) :
          /\ dpb' = Bump(dpb, {i}, FALSE)
          /\ ready' = Append(ready, i)
    /\ UNCHANGED <<stream, phase, nal, current, pictures, result, taken, discarded>>

\* finish_picture returns to the unit that called for it.
FinishPicture ==
    /\ phase = "output"
    /\ ~OutputOverdue(dpb, activeSps) \/ Waiting(dpb) = {}
    /\ phase' = IF IsEnd(nal) THEN "unit" ELSE "begin"
    /\ current' = NoPicture
    /\ UNCHANGED <<dpb, stream, ready, nal, pictures, result, taken, discarded>>

-----------------------------------------------------------------------------
(* The rest of the public calls *)

\* Decoder::flush up to take_frames.
Reset ==
    /\ phase = "idle"
    /\ phase' = "ready"
    /\ \E out \in Drained(dpb) : ready' = ready \o out
    /\ dpb' = NoEntries
    /\ prevTid0' = NoTid0
    /\ firstAfterEos' = TRUE
    /\ lastHeader' = NoHeader
    /\ result' = "ok"
    /\ UNCHANGED <<activeSps, sequence, firstInBitstream, irapNoRasl, nal, current, pictures,
                   taken, discarded>>

TakeFrames ==
    /\ phase = "ready"
    /\ phase' = "idle"
    /\ taken' = taken \o ready
    /\ ready' = <<>>
    /\ UNCHANGED <<dpb, stream, nal, current, pictures, result, discarded>>

\* The steps of a call in progress that its caller and the driver do not
\* choose.
Step ==
    \/ EndUnit
    \/ RefuseSps
    \/ \E built \in BOOLEAN : ApplySps(built)
    \/ BeginPicture
    \/ MakeRoom
    \/ \E allocated \in BOOLEAN : StartPicture(allocated)
    \/ \E accepted \in BOOLEAN : DecodeSlice(accepted)
    \/ \E decoded \in BOOLEAN : RunPicture(decoded)
    \/ OutputPicture
    \/ FinishPicture
    \/ TakeFrames

Next ==
    \/ \E s \in CodedSegment : SubmitSlice(s)
    \/ \E end \in Ends : SubmitEnd(end)
    \/ RefuseUnit
    \/ Step
    \/ Reset

\* A loop that was entered goes on until it is left.
Rounds ==
    \/ MakeRoom
    \/ \E allocated \in BOOLEAN : StartPicture(allocated)
    \/ OutputPicture
    \/ FinishPicture

Spec == Init /\ [][Next]_vars /\ WF_vars(Rounds)

-----------------------------------------------------------------------------
(* Properties *)

Marks == {"None", "ShortTerm", "LongTerm"}

Entry == [poc : Int, ref : Marks, needed : BOOLEAN, latency : Nat, gen : Nat]

PictureDatum ==
    [type : NaluTypes, noRasl : BOOLEAN, output : BOOLEAN, tid0 : BOOLEAN, lsb : Nat,
     msb : Int, poc : Int, discard : BOOLEAN]

\* The state of the decoder is well formed in each phase of a call: a segment
\* while one is worked on, a picture from begin_picture to finish_picture and
\* none between calls, an SPS and a sequence once a picture was begun.
TypeOK ==
    /\ \E D \in SUBSET (1 .. pictures) : dpb \in [D -> Entry]
    /\ activeSps \in SpsSet \cup {NoSps}
    /\ sequence \in [gen : Nat, shape : Nat, maxDpbFrames : Nat]
    /\ prevTid0 \in [lsb : Nat, msb : Int] \cup {NoTid0}
    /\ firstInBitstream \in BOOLEAN
    /\ firstAfterEos \in BOOLEAN
    /\ irapNoRasl \in BOOLEAN
    /\ lastHeader \in SliceHeader \cup {NoHeader}
    /\ ready \in Seq(1 .. pictures)
    /\ phase \in {"idle", "next", "finish", "output", "unit", "begin", "derive", "room", "slice", "ready"}
    /\ nal \in CASE phase \in {"idle", "next", "ready"} -> {NoNal}
                 [] phase = "unit" -> [end : Ends]
                 [] phase \in {"finish", "output"} -> Segment \cup [end : Ends]
                 [] OTHER -> Segment
    /\ current = NoPicture \/ current \in
          [coded : Nat, sps : SpsSet, pic : PictureDatum, id : 0 .. pictures, predicts : BOOLEAN,
           refs : SUBSET (1 .. pictures)]
    /\ phase \in {"room", "slice", "finish", "output"} => current # NoPicture /\ activeSps # NoSps
    /\ phase \in {"idle", "unit", "begin", "derive", "ready"} => current = NoPicture
    /\ pictures \in Nat
    /\ result \in {"ok", "parse", "slice", "sps", "va", "full"}
    /\ taken \in Seq(1 .. pictures)
    /\ discarded \subseteq 1 .. pictures

\* Every surface the DPB holds was allocated from the pool of the active
\* sequence, and there are no more than that sequence was built for, also
\* after apply_sps failed half way and left the limits of another SPS.
DpbWithinSequence ==
    /\ \A i \in DOMAIN dpb : dpb[i].gen = sequence.gen
    /\ Cardinality(DOMAIN dpb) <= sequence.maxDpbFrames

\* The lookup of find_lowest_poc_for_bumping by order count alone finds the
\* picture that waits with that count: no other entry of the DPB has it.
BumpFindsWaiting == CountsApart(dpb)

\* A stream whose reference picture sets leave room for the current picture
\* never finds the DPB full.
NeverRefused == result # "full"

\* A slice segment is decoded into its own picture with the header of that
\* picture, also after errors and skipped pictures.
SegmentsOfOnePicture ==
    phase = "slice" => nal.coded = nal.header.coded /\ nal.coded = current.coded

\* Both bumping loops end, whatever the DPB holds, so that submit() returns.
BumpingEnds == (phase \in {"room", "output"}) ~> (phase \notin {"room", "output"})

\* The order counts of the pictures of d that wait.
WaitingCounts(d) == [i \in Waiting(d) |-> d[i].poc]

\* What the decoder promises of its output, of the pictures as it numbers
\* them: finish_picture is what decodes one.
Reorder == INSTANCE OutputReorder WITH
    number  <- IF phase = "finish" THEN current.id ELSE 0,
    count   <- IF phase = "finish" THEN current.pic.poc ELSE 0,
    waiting <- WaitingCounts(dpb),
    out     <- taken \o ready

\* The pictures come due in the order of the counts that wait, each at most
\* once, and only no_output_of_prior_pics_flag drops any.
OutputInOrder == Reorder!Init /\ [][Reorder!Next]_(Reorder!vars)

\* No picture comes due twice, nor after it was discarded.
EachPictureOnce == Reorder!EachPictureOnce
=============================================================================
