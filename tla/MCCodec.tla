------------------------------- MODULE MCCodec -------------------------------
(***************************************************************************)
(* The algorithms under the codecs, each against what the other end means: *)
(* a behaviour is about one of Parts and leaves the other parts alone.     *)
(*                                                                         *)
(*   "loops"   the loops of the H.264 DPB against what H264Dpb says        *)
(*   "counts"  H.264 picture order counts against those of the encoder     *)
(*   "lists"   H.264 reference lists against those the encoder asks for    *)
(*   "rps"     predicted H.265 reference picture sets, against the set     *)
(*   "refs"    H.265 reference lists against the standard's procedure      *)
(*   "bytes"   NAL units written, split and read back                      *)
(*   "sets"    parameter sets replaced, refused and lost on the way        *)
(***************************************************************************)
EXTENDS H264DpbLoops, H264PicOrderCnt, H264RefLists, H265RefPicSets, NaluEscape, ParameterSets

CONSTANTS
    Parts,    \* the parts to check
    MaxPoc,   \* how far order counts go from the last IDR, either way
    MaxZeros, \* zero bytes in a row in a payload of the H.264 writer
    MaxUnits  \* parameter sets sent

VARIABLES
    part,   \* the part this behaviour is about
    given,  \* the input of an algorithm without a state
    sender, \* the encoder of "counts"
    drift   \* how far the derived counts, top and bottom, are from the encoder's

mcVars == <<vars, pocVars, setVars, part, given, sender, drift>>

Nothing == "nothing"

-----------------------------------------------------------------------------
(* counts: an encoder that follows 7.4.3 on how far counts may jump.       *)

Cycles == {<<>>, <<2, 4>>, <<1, 2, 3>>}

SpsOfType(type, cycle) ==
    [type |-> type, maxLsb |-> 16, maxFrameNum |-> 4, cycle |-> cycle, nonRef |-> -1,
     topToBottom |-> 1]

PocSpses == {SpsOfType(0, <<>>), SpsOfType(2, <<>>)} \cup {SpsOfType(1, c) : c \in Cycles}

\* `frames` counts on where frame_num wraps, `poc` is the top count of the last
\* reference (type 0) and `arrived` that of the last one to arrive, `gap` the
\* frames lost since.  A decoder that was flushed starts to count at the next
\* picture: `missed` are the frames it does not know of, and `base` what its
\* counts are off by, once there is such a number.
NewSender(s) ==
    [sps |-> s, started |-> FALSE, frames |-> 0, wasRef |-> FALSE, poc |-> 0, arrived |-> 0,
     gap |-> 0, missed |-> {0}, base |-> {0}]

\* The frame number of the next picture.
NextFrames == IF sender.wasRef THEN sender.frames + 1 ELSE sender.frames

\* The sum of the first n offsets of a cycle that goes round and round.
Cycled(cycle, n) ==
    LET sum[i \in 0 .. n] == IF i = 0 THEN 0
                             ELSE sum[i - 1] + cycle[((i - 1) % Len(cycle)) + 1]
    IN  sum[n]

\* What 8.2.1.2 and 8.2.1.3 come to, with nothing that wraps.
EncoderTop(p, frames, poc) ==
    LET s == sender.sps
    IN  CASE s.type = 0 -> poc
          [] s.type = 1 ->
                p.delta[1]
                + (IF p.ref THEN 0 ELSE s.nonRef)
                + (IF s.cycle = <<>> THEN 0
                   ELSE Cycled(s.cycle, IF ~p.ref /\ frames > 0 THEN frames - 1 ELSE frames))
          [] s.type = 2 -> IF p.ref \/ p.idr THEN 2 * frames ELSE 2 * frames - 1

EncoderBottom(p, top) ==
    LET s == sender.sps
    IN  CASE s.type = 0 -> top + p.bottom
          [] s.type = 1 -> top + s.topToBottom + p.delta[2]
          [] s.type = 2 -> top

\* The jumps of the order count from the last reference, or from an IDR.
Jumps == {-7, -1, 0, 1, 5, 8}

\* A picture as the encoder writes it.
Shot(idr, ref, mmco5, frames, poc, bottom, delta) ==
    [idr |-> idr, ref |-> ref, mmco5 |-> mmco5, frameNum |-> frames % sender.sps.maxFrameNum,
     lsb |-> IF sender.sps.type = 0 THEN poc % sender.sps.maxLsb ELSE 0,
     bottom |-> bottom, delta |-> delta]

\* The counts a picture leaves with the encoder: operation 5 starts over.
AfterShot(p, frames, top, bottom) ==
    IF p.mmco5 THEN [frames |-> 0, poc |-> top - Smaller(top, bottom)]
    ELSE [frames |-> frames, poc |-> IF p.ref THEN top ELSE sender.poc]

\* 7.4.3 lets a count be told by its low bits: less than half their cycle before
\* the last reference, no more than half after it.
Tellable(p, poc) ==
    LET half == sender.sps.maxLsb \div 2
    IN  sender.sps.type = 0 /\ ~p.idr /\ sender.base # {} =>
            poc - sender.arrived \in 1 - half .. half

\* The frames a decoder does not know of: those before the frame_num cycle the
\* first picture after a flush is in.
Missed(p, frames) ==
    CASE p.idr -> {0}
      [] ~p.idr /\ sender.missed = {} -> {frames - (frames % sender.sps.maxFrameNum)}
      [] OTHER -> sender.missed

\* Frames the counts of type 1 can do without: whole cycles.
InCycles(n) == sender.sps.cycle = <<>> \/ n % Len(sender.sps.cycle) = 0

\* What the decoder is off by, told from the first reference on that `off` by so
\* much; where part of a cycle is missed that differs from place to place.
BaseAfter(p, missed, off) ==
    LET told == (p.ref \/ sender.sps.type = 2) /\ (\A n \in missed : InCycles(n))
    IN  CASE p.idr -> {0}
          [] ~p.idr /\ sender.base = {} /\ told -> {off}
          [] OTHER -> sender.base

\* A picture, so far from the last reference; `off` is what the decoder is off by,
\* top and bottom.
Shoot(idr, ref, mmco5, jump, bottom, delta) ==
    LET frames == IF idr THEN 0 ELSE NextFrames
        poc    == IF idr THEN jump ELSE sender.poc + jump
        p      == Shot(idr, ref, mmco5, frames, poc, bottom, delta)
        top    == EncoderTop(p, frames, poc)
        after  == AfterShot(p, frames, top, EncoderBottom(p, top))
        counts == PicOrderCounts(sender.sps, p)
        off    == <<counts.top - top, counts.bottom - EncoderBottom(p, top)>>
        missed == Missed(p, frames)
        base   == BaseAfter(p, missed, off[1])
    IN  /\ Tellable(p, poc)
        /\ sender.sps.type = 0 => poc \in -MaxPoc .. MaxPoc
        /\ frames <= MaxPoc
        /\ sender' = [sender EXCEPT !.started = TRUE, !.frames = after.frames, !.wasRef = ref,
                                    !.poc = after.poc, !.gap = 0,
                                    !.arrived = IF ref THEN after.poc ELSE @,
                                    !.missed = IF mmco5 THEN {0} ELSE missed,
                                    !.base = IF mmco5 THEN {0} ELSE base]
        /\ drift' = IF base = {} THEN {} ELSE {off[1] - Min(base), off[2] - Min(base)}
        /\ Remember(sender.sps, p)

Picture ==
    \E idr, ref, mmco5 \in BOOLEAN, jump \in Jumps, bottom \in {-1, 0, 1},
       delta \in {<<0, 0>>, <<1, 2>>} :
        /\ idr => ref /\ ~mmco5 /\ (sender.sps.type = 0 => jump = 0 /\ bottom >= 0)
        /\ mmco5 => ref
        /\ idr \/ sender.started
        /\ sender.sps.type = 0 => delta = <<0, 0>>
        /\ sender.sps.type # 0 => jump = 0 /\ bottom = 0
        /\ sender.sps.type = 2 => delta = <<0, 0>> /\ (sender.wasRef \/ ref)
        /\ Shoot(idr, ref, mmco5, jump, bottom, delta)

\* A reference goes missing; as many as frame_num counts could not be told.  A
\* picture nothing refers to leaves no trace in the encoder.
LoseFrame ==
    /\ sender.started
    /\ sender.gap + 2 < sender.sps.maxFrameNum
    /\ NextFrames < MaxPoc
    /\ \E jump \in IF sender.sps.type = 0 THEN {-1, 5} ELSE {0} :
        /\ sender.poc + jump \in -MaxPoc .. MaxPoc
        /\ sender' = [sender EXCEPT !.frames = NextFrames, !.wasRef = TRUE, !.gap = @ + 1,
                                    !.poc = @ + jump]
    /\ UNCHANGED <<drift, pocVars>>

\* reset(), and a stream that goes on without an IDR.
FlushCounts ==
    /\ sender.started
    /\ sender' = [sender EXCEPT !.missed = {}, !.base = {}]
    /\ drift' = {}
    /\ Forget

CountsStep ==
    /\ part = "counts"
    /\ Picture \/ LoseFrame \/ FlushCounts
    /\ UNCHANGED <<vars, setVars, part, given>>

\* The counts the decoder derives are those of the encoder, wherever frame_num
\* and the low bits wrap, across IDR pictures, operation 5, pictures nothing
\* refers to and references lost on the way, as many as frame_num can tell and,
\* in type 0, as far as the low bits can; an IDR or operation 5 that is lost is
\* not among them.  After a flush in mid-stream they are all off by the same
\* from the first reference on, so the order is still the encoder's, except in
\* type 1 where the frames the decoder missed are no whole number of cycles:
\* nothing is claimed then until an IDR or operation 5.
CountsAreEncoders == drift \subseteq {0}

-----------------------------------------------------------------------------
(* lists: an encoder that asks for a list of its own making.               *)

MaxPicNum == 4

\* References of picture numbers below the current one, modulo MaxPicNum, and
\* of order counts on both sides of it, with at most one long-term picture.
RefsBefore(shorts, long, rising) ==
    LET nums == SetToSortSeq(shorts, <)
    IN  [i \in 1 .. Len(nums) + long |->
            IF i <= Len(nums)
            THEN EntryOf(IF rising THEN 2 * i ELSE 8 - 2 * i, nums[i], "ShortTerm", FALSE, FALSE)
            ELSE EntryOf(0, 0, "LongTerm", FALSE, FALSE)]

Distinct(S) == {s \in UNION {[1 .. n -> S] : n \in 0 .. Cardinality(S)} : IsInjective(s)}

ListInputs ==
    UNION {
        {[cur |-> cur, d |-> RefsBefore({cur - n : n \in shorts}, long, rising), kind |-> kind,
          wanted |-> w.wanted, way |-> w.way, active |-> active] :
            kind \in {"P", "B0", "B1"}, active \in {1, 2, 3, 5},
            w \in UNION {[wanted : {s}, way : [DOMAIN s -> {0, 1}]] :
                            s \in Distinct(1 .. Cardinality(shorts) + long)}} :
        cur \in {0, 2}, shorts \in SUBSET {1, 3}, long \in {0, 1}, rising \in BOOLEAN}
    \cup
    {[cur |-> 2, d |-> RefsBefore({-1, 0, 1}, 0, TRUE), kind |-> kind,
      wanted |-> w, way |-> way, active |-> active] :
        kind \in {"P", "B1"}, active \in {3, 4}, w \in Distinct(1 .. 3) \cap [1 .. 3 -> 1 .. 3],
        way \in [1 .. 3 -> {0, 1}]}

InitialList(g) ==
    CASE g.kind = "P"  -> ListP(g.d)
      [] g.kind = "B0" -> ListB0(g.d, 5, 0)
      [] g.kind = "B1" -> ListB1(g.d, 5, 0)

\* The commands that name `wanted` in turn, each difference taken the way asked
\* for; a difference of nothing goes all the way round.
Commands(g) ==
    LET shortsUpTo(k) == SelectSeq(SubSeq(g.wanted, 1, k), LAMBDA i : g.d[i].ref = "ShortTerm")
        from(k) == IF shortsUpTo(k - 1) = <<>> THEN g.cur ELSE g.d[Last(shortsUpTo(k - 1))].picNum
        diff(k) == LET by == g.d[g.wanted[k]].picNum - from(k)
                       way == (IF g.way[k] = 1 THEN by ELSE -by) % MaxPicNum
                   IN  IF way = 0 THEN MaxPicNum ELSE way
    IN  [k \in DOMAIN g.wanted |->
            IF g.d[g.wanted[k]].ref = "LongTerm" THEN [idc |-> 2, value |-> 0]
            ELSE [idc |-> g.way[k], value |-> diff(k)]]

\* Whatever list an encoder wants, the commands that ask for it give it: the
\* pictures named come first, in the order they were named, the others follow
\* in the order they had, wherever the differences wrap.
ListsAreEncoders ==
    part = "lists" /\ Len(given.wanted) <= given.active =>
        LET initial == InitialList(given)
            got     == ListOfSlice(given.d, given.cur, MaxPicNum, initial, given.active,
                                   Commands(given))
            rest    == SelectSeq(initial, LAMBDA i : i \notin Range(given.wanted))
            length  == Min({given.active, Len(initial)})
        IN  /\ ~got.failed
            /\ SubSeq(got.list, 1, length) = SubSeq(given.wanted \o rest, 1, length)

-----------------------------------------------------------------------------
(* rps and refs                                                            *)

Steps == UNION {[1 .. n -> [step : {1, 2}, used : {TRUE}]] : n \in 0 .. 2}

\* used_by_curr_pic_flag implies use_delta_flag.
Flags == {f \in [used : BOOLEAN, useDelta : BOOLEAN] : f.used => f.useDelta}

RpsInputs ==
    UNION {[ref : {Coded(s.neg, s.pos)}, deltaRps : {-3, -1, 1, 2},
            flags : [1 .. Len(s.neg) + Len(s.pos) + 1 -> Flags]] :
                s \in [neg : Steps, pos : Steps]}

\* The set 7.4.8 means: the pictures of the other set and its own, as far as
\* their flag takes them over, seen from the new picture.
MeantSet(g) ==
    LET all == g.ref.s0 \o g.ref.s1 \o <<[delta |-> 0, used |-> TRUE]>>
    IN  {[delta |-> all[j].delta + g.deltaRps, used |-> g.flags[j].used] :
            j \in {j \in DOMAIN all : g.flags[j].useDelta /\ all[j].delta + g.deltaRps # 0}}

\* A set predicted from another has the pictures that are meant, each with its
\* own flag, and both halves run from the nearest picture outwards, which is
\* the order the reference lists take them in.
SetsAreEncoders ==
    part = "rps" =>
        LET got == PredictedSet(given.ref, given.deltaRps, given.flags)
        IN  /\ Range(got.s0) \cup Range(got.s1) = MeantSet(given)
            /\ \A i, j \in DOMAIN got.s0 : i < j => got.s0[j].delta < got.s0[i].delta
            /\ \A i, j \in DOMAIN got.s1 : i < j => got.s1[j].delta > got.s1[i].delta
            /\ \A i \in DOMAIN got.s0 : got.s0[i].delta < 0
            /\ \A i \in DOMAIN got.s1 : got.s1[i].delta > 0

Numbered(first, n) == [i \in 1 .. n |-> first + i]

\* A reference picture set of n[1] before, n[2] after and n[3] long-term pictures.
RpsOf(n) ==
    [before |-> Numbered(0, n[1]), after |-> Numbered(n[1], n[2]),
     long |-> Numbered(n[1] + n[2], n[3])]

EntriesOf(total, active) ==
    {<<>>} \cup (IF active <= 3 THEN [1 .. active -> 0 .. total - 1] ELSE {})

SlicesOf(n, active) ==
    [rps : {RpsOf(n)}, list1 : BOOLEAN, active : {active},
     entries : EntriesOf(n[1] + n[2] + n[3], active)]

Sizes == ((0 .. 2) \X (0 .. 2) \X (0 .. 1)) \ {<<0, 0, 0>>}

RefsInputs == UNION {UNION {SlicesOf(n, active) : active \in 1 .. 6} : n \in Sizes}

\* 8.3.4: the candidates over and over, once for each index so that none is
\* left out, then picked in order or by list_entry.
Repeated(s, times) ==
    LET round[n \in 0 .. times] == IF n = 0 THEN <<>> ELSE round[n - 1] \o s
    IN  round[times]

StandardList(g) ==
    LET one  == IF g.list1 THEN g.rps.after \o g.rps.before ELSE g.rps.before \o g.rps.after
        temp == Repeated(one \o g.rps.long, g.active)
    IN  [i \in 1 .. g.active |-> IF g.entries = <<>> THEN temp[i] ELSE temp[g.entries[i] + 1]]

\* The lists of a slice are those of the standard's procedure, longer than the
\* references there are or shorter, modified or not.
ListsAreStandards ==
    part = "refs" =>
        RefPicList(given.rps, given.list1, given.active, given.entries) = StandardList(given)

-----------------------------------------------------------------------------
(* bytes                                                                   *)

Bytes == {0, 1, 3, 103}

\* RBSPs end with their stop bit.
Payloads(codec) ==
    {p \in UNION {[1 .. n -> Bytes] : n \in 1 .. 6} :
        /\ Last(p) # 0
        /\ codec = "H264" =>
              \A i \in 0 .. Len(p) - MaxZeros - 1 :
                  SubSeq(p, i + 1, i + MaxZeros + 1) # [j \in 1 .. MaxZeros + 1 |-> 0]}

BytesInputs ==
    UNION {[codec : {codec}, units : {<<p>> : p \in Payloads(codec)}
                                        \cup {<<p, <<0, 1>>>> : p \in Payloads(codec)}] :
           codec \in {"H264", "H265"}}

\* What the encoder writes in front of a picture comes apart into the same units
\* and is read back byte for byte, whatever the payload looks like.
BytesArrive ==
    part = "bytes" =>
        LET header == HeaderOf(given.codec)
            units  == Units(Written(given.codec, given.units))
        IN  /\ Len(units) = Len(given.units)
            /\ \A n \in DOMAIN given.units :
                  /\ SubSeq(units[n], 1, Len(header)) = header
                  /\ Read(given.codec, units[n]) = given.units[n]

-----------------------------------------------------------------------------
(* sets: a sender that changes its sets at any time, and ends with a slice, *)
(* which changes none.                                                     *)

UnitsAt(n) ==
    [kind : {"vps"}, id : {0}, of : {0}, version : {n}]
        \cup [kind : {"sps"}, id : {0, 1}, of : {0}, version : {n}]
        \cup [kind : {"pps"}, id : {0}, of : {0}, version : {n}]
        \cup [kind : {"slice"}, id : {0}, of : {0}, version : {n}]

SendCall ==
    \E more \in 0 .. 1, u \in UnitsAt(Len(sent) + 1), v \in UnitsAt(Len(sent) + 2) :
        LET units == SubSeq(<<u, v>>, 1, 1 + more)
        IN  /\ Len(sent) + Len(units) <= MaxUnits
            /\ \A w \in Range(sent) : w.kind # "slice"
            /\ Submit(units)

SetsStep ==
    /\ part = "sets"
    /\ SendCall \/ SetsNext
    /\ UNCHANGED <<vars, pocVars, part, given, sender, drift>>

-----------------------------------------------------------------------------

\* The inputs of the parts that have no state.
Inputs(p) ==
    CASE p = "lists" -> ListInputs
      [] p = "rps"   -> RpsInputs
      [] p = "refs"  -> RefsInputs
      [] p = "bytes" -> BytesInputs
      [] OTHER       -> {Nothing}

MCInit ==
    /\ part \in Parts
    /\ given \in Inputs(part)
    /\ IF part = "loops" THEN Init
       ELSE loop = "none" /\ dpb = Nothing /\ pic = Nothing /\ out = <<>>
            /\ numRefPics = 0 /\ start = Nothing
    /\ sender \in IF part = "counts" THEN {NewSender(s) : s \in PocSpses} ELSE {Nothing}
    /\ drift = {}
    /\ PocInit
    /\ SetsInit

LoopsStep ==
    /\ part = "loops"
    /\ Next
    /\ UNCHANGED <<pocVars, setVars, part, given, sender, drift>>

MCNext == LoopsStep \/ CountsStep \/ SetsStep

\* A loop that was entered runs on inside one call of the decoder.
MCSpec == MCInit /\ [][MCNext]_mcVars /\ WF_mcVars(LoopsStep)
=============================================================================
