--------------------------- MODULE MCH265Decoder ---------------------------
(***************************************************************************)
(* The H.265 decoder fed by an encoder that keeps to the standard: it      *)
(* keeps its reference picture sets within the buffer, and its output      *)
(* order within the reorder and latency limits it declared (7.4.3.2.1).    *)
(* Otherwise it chooses freely what each picture is, what it refers to and *)
(* how it is cut into segments and calls; pictures may be lost, calls      *)
(* refused by the driver, the stream ended or flushed.  The encoder is no  *)
(* part of the repository.                                                 *)
(***************************************************************************)
EXTENDS H265Decoder

CONSTANT Scenarios \* what the encoder may do: one of these is chosen at the start

VARIABLES
    scenario, \* the one that was chosen
    enc,      \* the encoder
    pending,  \* the segments left of the picture being sent
    budget    \* what is left of its bounds

mcvars == <<vars, scenario, enc, pending, budget>>

Sps(shape, buffering, reorder, latencyPlus1) ==
    [shape |-> shape, supported |-> TRUE, maxDpbFrames |-> buffering, maxDecPicBuffering |-> buffering,
     maxNumReorder |-> reorder, maxLatencyIncreasePlus1 |-> latencyPlus1, maxLsb |-> 16]

\* coded, lost, faults, flushes, ends: how many of each there are; pocs: the
\* order counts a picture can have; keepAll: whether every picture the buffer
\* can hold stays a reference; long: whether there are long-term references.
Plain(sps, types, coded, pocs) ==
    [sps |-> sps, types |-> types, coded |-> coded, pocs |-> pocs, lost |-> 0, faults |-> 0,
     flushes |-> 0, ends |-> {}, long |-> FALSE, hidden |-> FALSE, dependent |-> FALSE]

Wide == Sps(1, 4, 2, 0)
Tight == Sps(1, 3, 1, 0)

Unsupported == [Sps(2, 3, 0, 0) EXCEPT !.supported = FALSE]

\* Random access: leading pictures, ends of sequences, flushes, and an SPS the decoder refuses.
RandomAccess ==
    [Plain({Tight, Unsupported}, {"CRA", "RASL_R", "RADL_N", "TRAIL_R"}, 4, 1 .. 3)
        EXCEPT !.flushes = 1, !.ends = {"EOS", "EOB"}]

\* Splices in the stream.
Spliced == Plain({Tight}, {"IDR", "BLA", "RASL_R", "TRAIL_R"}, 4, 1 .. 2)

\* Order counts that wrap, long-term references.
Wrapping == [Plain({Wide}, {"IDR", "TRAIL_R", "TRAIL_N"}, 5, {5, 7, 14, 16, 18}) EXCEPT !.long = TRUE]

\* Losses, refusals, changes of format, pictures that are not output.
Faulty ==
    [Plain({Tight, Sps(2, 2, 1, 1)}, {"IDR", "TRAIL_R"}, 4, 1 .. 2)
        EXCEPT !.faults = 1, !.lost = 1, !.dependent = TRUE, !.hidden = TRUE]

Streams == {RandomAccess, Spliced, Wrapping, Faulty}
Late    == {Plain({Sps(1, 4, 2, 1)}, {"IDR", "TRAIL_N"}, 5, 1 .. 4)}
Drifted == {[Plain({Tight}, {"IDR", "TRAIL_R"}, 4, {7, 14, 16}) EXCEPT !.lost = 1, !.long = TRUE]}

AllSps == {Tight, Wide, Sps(2, 2, 1, 1), Unsupported, Sps(1, 4, 2, 1)}

ASSUME ScenarioAssumption ==
    \A s \in Scenarios : s.sps \subseteq SpsSet /\ s.types \subseteq NaluTypes /\ s.ends \subseteq Ends

\* drain() as it is written, bump(true) until nothing waits: each round takes
\* an entry, so there are no more rounds than entries.
DrainedByRounds(d) ==
    LET rounds[n \in 0 .. Cardinality(DOMAIN d)] ==
            IF n = 0 THEN [left |-> d, out |-> <<>>]
            ELSE LET before == rounds[n - 1]
                     bumped == LowestForBumping(before.left)
                 IN  [left |-> Bump(before.left, bumped, TRUE),
                      out  |-> IF bumped = {} THEN before.out
                               ELSE Append(before.out, CHOOSE i \in bumped : TRUE)]
    IN  rounds[Cardinality(DOMAIN d)].out

SmallDpbs == UNION {[D -> [poc : 0 .. 2, ref : {"None"}, needed : BOOLEAN]] : D \in SUBSET (1 .. 4)}

\* Drained is drain(), over every buffer of up to four pictures.
ASSUME DrainAssumption == \A d \in SmallDpbs : Drained(d) = {DrainedByRounds(d)}

NoRefs == [c \in {} |-> c]

\* all: the order counts of the coded video sequence; pocs: those of the pictures
\* that are output, in decoding order;
\* refs: the pictures a later one may refer to, each with its order count and
\* whether it is long-term; irap: the order count of the last IRAP picture, and
\* barred, what its trailing pictures may not refer to; rps, used: the set of
\* the picture being sent; epoch: what can be compared in output order.
MCInit ==
    /\ Init
    /\ scenario \in Scenarios
    /\ enc = [coded |-> 0, sps |-> {}, pocs |-> <<>>, all |-> {}, refs |-> NoRefs, irap |-> 0, barred |-> {},
              tid0 |-> 0, trailing |-> FALSE, rps |-> {}, used |-> {}, got |-> {}, ids |-> <<>>,
              shown |-> <<>>, epoch |-> 0]
    /\ pending = <<>>
    /\ budget = [coded |-> scenario.coded, lost |-> scenario.lost, faults |-> scenario.faults,
                 flushes |-> scenario.flushes, ends |-> IF scenario.ends = {} THEN 0 ELSE 1]

-----------------------------------------------------------------------------
(* The encoder *)

\* sps_max_num_reorder_pics and SpsMaxLatencyPictures (7-9).
WithinOrderLimits(pocs, sps) ==
    \A n \in DOMAIN pocs :
        /\ Cardinality({m \in 1 .. n - 1 : pocs[m] > pocs[n]}) <= sps.maxNumReorder
        /\ sps.maxLatencyIncreasePlus1 # 0 =>
              Cardinality({m \in n + 1 .. Len(pocs) : pocs[m] < pocs[n]})
                  <= sps.maxNumReorder + sps.maxLatencyIncreasePlus1 - 1

\* What still waits when every picture leaves as late as the limits allow.
StillWaiting(pocs, sps) ==
    {pocs[n] : n \in {k \in DOMAIN pocs :
        Cardinality({m \in DOMAIN pocs : pocs[m] > pocs[k]}) < sps.maxNumReorder}}

FitsBuffer(kept, pocs, sps) ==
    Cardinality({enc.refs[c].poc : c \in kept} \cup StillWaiting(pocs, sps)) < sps.maxDecPicBuffering

\* An IDR or BLA picture, or an IRAP picture after an end: nothing before it
\* matters.
NewSequence(type) == type \in {"IDR", "BLA"} \/ (enc.pocs = <<>> /\ IsIrap(type))

Kinds ==
    {type \in scenario.types :
        \/ NewSequence(type)
        \/ enc.pocs # <<>> /\ type = "CRA"
        \/ enc.pocs # <<>> /\ ~IsIrap(type)}

\* The order counts a picture of this type can have.
PocsOf(type) ==
    CASE type = "IDR" -> {0}
      [] NewSequence(type) /\ type # "IDR" -> {p \in scenario.pocs : p < 16}
      [] OTHER ->
           {p \in scenario.pocs :
               /\ p \notin enc.all
               /\ p - enc.tid0 \in -7 .. 7
               /\ CASE type = "CRA" -> \A q \in enc.all : p > q
                    [] IsRasl(type) \/ IsRadl(type) -> p < enc.irap /\ ~enc.trailing
                    [] OTHER -> p > enc.irap}

\* The pictures a picture of this type can keep.
Available(type) ==
    CASE NewSequence(type) -> {}
      [] IsRadl(type) \/ type \in {"TRAIL_R", "TRAIL_N"} -> DOMAIN enc.refs \ enc.barred
      [] OTHER -> DOMAIN enc.refs

\* The long-term entry for the picture c; its high bits are sent when another
\* picture has the same low bits.
LongRef(c, poc, used) ==
    LET lt == enc.refs[c].poc
    IN  [lsb |-> lt % 16, used |-> used,
         msb |-> \E p \in enc.all : p # lt /\ p % 16 = lt % 16,
         cycle |-> IF \E p \in enc.all : p # lt /\ p % 16 = lt % 16
                   THEN (poc \div 16) - (lt \div 16) ELSE 0]

Header(type, poc, kept, used, long, output) ==
    [coded |-> enc.coded + 1, lsb |-> poc % 16, inter |-> used # {}, output |-> output,
     stFromSps |-> FALSE,
     st |-> {[delta |-> enc.refs[c].poc - poc, used |-> c \in used] : c \in kept \ long},
     lt |-> {LongRef(c, poc, c \in used) : c \in kept \cap long}]

Lead(type, noOutput, sps, header) ==
    [coded |-> header.coded, type |-> type, tid |-> 0, first |-> TRUE, dependent |-> FALSE,
     noOutput |-> noOutput, sps |-> sps, header |-> header]

Follow(lead) == [lead EXCEPT !.first = FALSE, !.dependent = TRUE, !.header = NoHeader, !.noOutput = FALSE]

\* The encoder codes a picture, and takes it as a reference unless it is one
\* nothing in its sub-layer refers to.
Encode(type, poc, kept, used, long, sps, output) ==
    LET pocs == IF NewSequence(type) THEN <<poc>> ELSE IF output THEN Append(enc.pocs, poc) ELSE enc.pocs
        next == enc.coded + 1
        refs == [c \in kept \cup (IF IsSlnr(type) THEN {} ELSE {next}) |->
                    IF c = next THEN [poc |-> poc, long |-> FALSE]
                    ELSE [enc.refs[c] EXCEPT !.long = c \in long]]
        new  == NewSequence(type)
    IN  /\ WithinOrderLimits(pocs, sps)
        /\ FitsBuffer(kept, IF new THEN <<>> ELSE enc.pocs, sps)
        /\ enc' = [enc EXCEPT
              !.coded = next, !.sps = {sps}, !.pocs = pocs, !.all = IF new THEN {poc} ELSE @ \cup {poc}, !.refs = refs,
              !.irap = IF IsIrap(type) THEN poc ELSE @,
              !.barred = IF IsIrap(type) THEN kept
                         ELSE IF IsRasl(type) \/ IsRadl(type) THEN @ \cup {next} ELSE @,
              !.tid0 = IF IsSlnr(type) \/ IsRasl(type) \/ IsRadl(type) THEN @ ELSE poc,
              !.trailing = IF IsIrap(type) THEN FALSE ELSE @ \/ type \in {"TRAIL_R", "TRAIL_N"},
              !.rps = kept, !.used = used,
              !.got = IF new THEN {} ELSE @,
              !.shown = Append(@, [epoch |-> IF new THEN enc.epoch + 1 ELSE enc.epoch, poc |-> poc]),
              !.epoch = IF new THEN @ + 1 ELSE @]

Spend(what) == budget' = [budget EXCEPT ![what] = @ - 1]

\* What is sent of a picture arrives, or none of it.
Send(s) ==
    \/ /\ SubmitSlice(s)
       /\ pending' = IF scenario.dependent THEN <<Follow(s)>> ELSE <<>>
       /\ Spend("coded")
    \/ /\ phase = "idle" /\ ~IsIrap(s.type) /\ budget.lost > 0
       /\ budget' = [budget EXCEPT !.lost = @ - 1, !.coded = @ - 1]
       /\ UNCHANGED <<vars, pending>>

\* A call that fails takes the rest of its access unit with it.  No decoder can
\* tell the pictures of two coded video sequences apart when an IRAP picture is
\* what it took, so IRAP pictures come in calls of their own when calls fail.
NextPicture ==
    /\ pending = <<>> /\ budget.coded > 0
    /\ phase \in {"idle", "next"}
    /\ \E type \in Kinds : \E poc \in PocsOf(type), sps \in IF NewSequence(type) THEN scenario.sps ELSE enc.sps :
       \E kept \in SUBSET Available(type) :
       \E used \in IF IsIrap(type) THEN {{}} ELSE {kept, {}} :
       \E long \in IF scenario.long THEN {l \in SUBSET kept : \A c \in kept : enc.refs[c].long => c \in l}
                   ELSE {{}} :
       \E output \in IF scenario.hidden /\ ~NewSequence(type) THEN BOOLEAN ELSE {TRUE} :
       \E noOutput \in IF type \in {"IDR", "BLA"} /\ enc.coded > 0 THEN BOOLEAN ELSE {FALSE} :
          /\ IsIrap(type) /\ scenario.faults > 0 => phase = "idle"
          /\ Encode(type, poc, kept, used, long, sps, output)
          /\ Send(Lead(type, noOutput, sps, Header(type, poc, kept, used, long, output)))

NextSegment ==
    /\ pending # <<>> /\ phase = "next"
    /\ SubmitSlice(Head(pending))
    /\ pending' = Tail(pending)
    /\ UNCHANGED <<enc, budget>>

\* The call ends with a whole picture.
EndOfCall ==
    /\ pending = <<>> /\ phase = "next"
    /\ SubmitEnd("end")
    /\ UNCHANGED <<enc, pending, budget>>

\* What follows an end is a new coded video sequence.
EndOfStream ==
    /\ pending = <<>> /\ budget.ends > 0 /\ enc.pocs # <<>>
    /\ \E end \in scenario.ends : SubmitEnd(end)
    /\ enc' = [enc EXCEPT !.pocs = <<>>]
    /\ Spend("ends")
    /\ UNCHANGED pending

Flush ==
    /\ Reset
    /\ budget.flushes > 0
    /\ Spend("flushes")
    /\ enc' = [enc EXCEPT !.got = {}, !.epoch = @ + 1]
    /\ UNCHANGED pending

\* A call that failed took the rest of its access unit with it.
Dropped == pending' = IF phase' = "idle" /\ phase # "ready" THEN <<>> ELSE pending

Start ==
    /\ StartPicture(TRUE)
    /\ enc' = IF phase' = "slice" THEN [enc EXCEPT !.ids = Append(@, current.coded)] ELSE enc

Run ==
    /\ RunPicture(TRUE)
    /\ enc' = IF phase' = "output" THEN [enc EXCEPT !.got = @ \cup {current.coded}] ELSE enc

Fault ==
    /\ budget.faults > 0
    /\ ApplySps(FALSE) \/ StartPicture(FALSE) \/ DecodeSlice(FALSE) \/ RunPicture(FALSE) \/ RefuseUnit
    /\ Spend("faults")
    /\ UNCHANGED enc
    /\ Dropped

\* Bounds the pictures a call can come up with: more than there are.
MaxReady == 6

\* The rounds of the bumping loops, and what leaves them.
Bumping ==
    /\ \/ Len(ready) < MaxReady /\ (MakeRoom \/ OutputPicture) /\ UNCHANGED enc
       \/ FinishPicture /\ UNCHANGED enc
       \/ Start
    /\ Dropped
    /\ UNCHANGED <<budget, scenario>>

Work ==
    /\ \/ (EndUnit \/ RefuseSps \/ ApplySps(TRUE) \/ BeginPicture \/ DecodeSlice(TRUE) \/ TakeFrames)
          /\ UNCHANGED enc
       \/ Run
    /\ Dropped
    /\ UNCHANGED <<budget, scenario>>

MCNext ==
    \/ (NextPicture \/ NextSegment \/ EndOfCall \/ EndOfStream \/ Flush \/ Fault) /\ UNCHANGED scenario
    \/ Work
    \/ Bumping

MCSpec == MCInit /\ [][MCNext]_mcvars /\ WF_mcvars(Bumping)

-----------------------------------------------------------------------------

\* A stream within the limits it declared comes out in its output order over
\* the whole of a coded video sequence: no picture is let out before one that
\* is decoded later and precedes it.  Decoder::decode returns "the pictures
\* that came due, in output order".
OutputIncreasing ==
    LET out == taken \o ready
        shown(n) == enc.shown[enc.ids[out[n]]]
    IN  \A m, n \in DOMAIN out :
            m < n /\ shown(m).epoch = shown(n).epoch => shown(m).poc < shown(n).poc

\* The pictures a picture predicts from are those the encoder meant, and the
\* references the DPB keeps are the encoder's, less what never arrived: the
\* order counts, the set's lookups and the marking agree.
RefsAreEncoders ==
    phase = "slice" /\ current.coded = enc.coded =>
        /\ {enc.ids[i] : i \in Refs(dpb)} = enc.rps \cap enc.got
        /\ {enc.ids[i] : i \in current.refs} = enc.used \cap enc.got
=============================================================================
