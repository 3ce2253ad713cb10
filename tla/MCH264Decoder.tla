--------------------------- MODULE MCH264Decoder ---------------------------
(***************************************************************************)
(* The H.264 decoder fed by an encoder.  The encoder numbers its frames    *)
(* and orders its pictures as clause 7.4.3 of the standard has it, chooses *)
(* freely which pictures are references, IDRs or reordered, and may lose   *)
(* coded pictures or slices on the way.  Its state is what the decoder's is compared *)
(* with; it is no part of the repository.                                  *)
(***************************************************************************)
EXTENDS H264Submit

CONSTANT Scenarios \* what the encoder may do: one of these is chosen at the start

\* coded: pictures the encoder codes; lost: how many of them are lost on the
\* way; faults: refusals of the driver; flushes: calls of flush(); reordered:
\* order counts a picture after an IDR can have; depth: how many of the counts
\* left a picture can skip; nonRefs: whether there are pictures nothing refers
\* to; markings: memory management a reference picture can carry; sliced:
\* whether pictures can have two slices, and access units two pictures.  A
\* parameter set asks for a buffer its references fit in (E.2.1 of the standard).
ASSUME ScenarioAssumption ==
    \A s \in Scenarios :
        /\ s.sps \subseteq SpsSet
        /\ \A sps \in s.sps : sps.maxDpbFrames > 0 /\ sps.maxNumRefFrames <= sps.maxDpbFrames
        /\ s.markings \subseteq Seq(MmcoOp)
        /\ {s.coded, s.lost, s.faults, s.flushes, s.depth} \subseteq Nat
        /\ s.reordered \subseteq Nat
        /\ {s.nonRefs, s.sliced} \subseteq BOOLEAN

VARIABLES
    scenario, \* the one that was chosen
    enc,      \* the encoder
    budget    \* what is left of its four bounds

mcvars == <<submitVars, scenario, enc, budget>>

MaxFrameNum == 4

Op(op) == [op |-> op, diff |-> 0, picNum |-> 0, idx |-> 0, maxIdxPlus1 |-> 0]
Drop(diff)      == [Op(1) EXCEPT !.diff = diff]
DropLong(n)     == [Op(2) EXCEPT !.picNum = n]
MakeLong(d, i)  == [Op(3) EXCEPT !.diff = d, !.idx = i]
LimitLong(n)    == [Op(4) EXCEPT !.maxIdxPlus1 = n]
DropAll         == Op(5)
BecomeLong(i)   == [Op(6) EXCEPT !.idx = i]

Sps(shape, maxDpbFrames, maxNumRefFrames) ==
    [shape |-> shape, support |-> "ok", maxDpbFrames |-> maxDpbFrames, maxNumOrderFrames |-> 1,
     maxNumRefFrames |-> maxNumRefFrames, gapsAllowed |-> FALSE, maxFrameNum |-> MaxFrameNum]

\* Sets of parameter sets for the configurations.
TwoRefs   == {Sps(1, 2, 2)}
ThreePics == {Sps(1, 3, 2)}
Gaps      == {[Sps(1, 2, 2) EXCEPT !.gapsAllowed = TRUE], [Sps(1, 3, 2) EXCEPT !.gapsAllowed = TRUE]}
Changing  == {Sps(1, 2, 1), Sps(2, 2, 1), Sps(1, 1, 1), [Sps(1, 2, 1) EXCEPT !.maxNumOrderFrames = 3],
              [Sps(2, 1, 1) EXCEPT !.support = "no_profile"], [Sps(2, 2, 1) EXCEPT !.support = "refused"]}

NoMarkings   == {}
DropOldest   == {<<Drop(2)>>}
SomeMarkings == {<<Drop(2), BecomeLong(0)>>, <<MakeLong(1, 0)>>, <<MakeLong(2, 1)>>,
                 <<DropLong(0)>>, <<LimitLong(1), BecomeLong(1)>>, <<DropAll>>}

AllSps == TwoRefs \cup ThreePics \cup Gaps \cup Changing

Quiet(sps, coded, counts) ==
    [sps |-> sps, coded |-> coded, lost |-> 0, faults |-> 0, flushes |-> 0, reordered |-> 1 .. counts,
     depth |-> 4, nonRefs |-> TRUE, markings |-> NoMarkings, sliced |-> FALSE]

\* Reordering with the sliding window, nothing lost.
Sliding == [Quiet(ThreePics, 5, 4) EXCEPT !.flushes = 1]

\* Lost reference pictures, gaps in frame_num allowed.
Losing == [Quiet(Gaps, 6, 5) EXCEPT !.lost = 2, !.flushes = 1, !.depth = 1, !.nonRefs = FALSE]

\* Changes of format, refused parameter sets and driver failures.
Reconfiguring == [Quiet(Changing, 4, 2) EXCEPT !.faults = 1, !.flushes = 1]

\* Adaptive reference marking.
Marking == [Quiet(ThreePics, 5, 3) EXCEPT !.markings = SomeMarkings]

\* Pictures of two slices, of which one can be lost, two of them in a call.
Slicing == [Quiet(Gaps, 4, 2) EXCEPT !.lost = 1, !.faults = 1, !.flushes = 1, !.sliced = TRUE]

Streams      == {Sliding, Losing, Reconfiguring, Marking, Slicing}
FreedPicture == {[Quiet(TwoRefs, 5, 4) EXCEPT !.markings = DropOldest]}
MidStream    == {[Quiet(TwoRefs, 5, 4) EXCEPT !.flushes = 1]}
GapBeforeNonRefs == {[Quiet(Gaps, 6, 4) EXCEPT !.lost = 1]}

MCInit ==
    /\ SubmitInit
    /\ enc = [frameNum |-> 0, counts |-> {}, sps |-> {}, refs |-> <<>>, got |-> {}]
    /\ scenario \in Scenarios
    /\ budget = [coded |-> scenario.coded, lost |-> scenario.lost,
                 faults |-> scenario.faults, flushes |-> scenario.flushes]

\* An IDR activates a parameter set; the pictures after it keep it.
Idrs(sps) ==
    [idr : {TRUE}, ref : {TRUE}, frameNum : {0}, poc : {0}, sps : {sps},
     noOutput : BOOLEAN, longTerm : {FALSE, scenario.markings # {}}, adaptive : {FALSE}, mmco : {<<>>}]

Others(sps) ==
    LET next   == (enc.frameNum + 1) % MaxFrameNum
        left   == scenario.reordered \ enc.counts
        counts == {p \in left : Cardinality({q \in left : q < p}) <= scenario.depth}
    IN  [idr : {FALSE}, ref : {TRUE}, frameNum : {next}, poc : counts, sps : {sps},
         noOutput : {FALSE}, longTerm : {FALSE}, adaptive : {FALSE}, mmco : {<<>>}]
        \cup
        [idr : {FALSE}, ref : {TRUE}, frameNum : {next}, poc : counts, sps : {sps},
         noOutput : {FALSE}, longTerm : {FALSE}, adaptive : {TRUE}, mmco : scenario.markings]
        \cup
        [idr : {FALSE}, ref : {r \in {FALSE} : scenario.nonRefs}, frameNum : {next}, poc : counts, sps : {sps},
         noOutput : {FALSE}, longTerm : {FALSE}, adaptive : {FALSE}, mmco : {<<>>}]

Coded == (UNION {Idrs(sps) : sps \in scenario.sps}) \cup (UNION {Others(sps) : sps \in enc.sps})

HasMmco5(c) == \E k \in DOMAIN c.mmco : c.mmco[k].op = 5

\* The last n elements of s.
LastOf(s, n) == SubSeq(s, IF Len(s) > n THEN Len(s) - n + 1 ELSE 1, Len(s))

\* The encoder codes c.  refs: the frame numbers of the pictures the sliding
\* window keeps; got: those of them the decoder has.
Encode(c) ==
    /\ budget.coded > 0
    /\ enc' = [frameNum |-> CASE ~c.ref -> enc.frameNum [] HasMmco5(c) -> 0 [] OTHER -> c.frameNum,
               counts   |-> CASE c.idr \/ HasMmco5(c) -> {0} [] OTHER -> enc.counts \cup {c.poc},
               sps      |-> {c.sps},
               refs     |-> CASE c.idr -> <<0>>
                              [] ~c.ref -> enc.refs
                              [] OTHER -> LastOf(Append(enc.refs, c.frameNum), c.sps.maxNumRefFrames),
               got      |-> IF c.idr THEN {} ELSE IF c.ref THEN enc.got \ {c.frameNum} ELSE enc.got]

Spend(what) == budget' = [budget EXCEPT ![what] = @ - 1]

\* The loss of an IDR is not modelled: no decoder can tell the references of
\* the sequence before from those of the one it did not see begin.
Lose(c) ==
    /\ Outside /\ ~c.idr
    /\ Encode(c)
    /\ budget.lost > 0
    /\ budget' = [budget EXCEPT !.lost = @ - 1, !.coded = @ - 1]
    /\ UNCHANGED submitVars

\* The slices of c that arrive.
Slices(c, firsts) ==
    [k \in DOMAIN firsts |->
        [coded |-> scenario.coded - budget.coded + 1, picture |-> c, first |-> firsts[k]]]

Whole == IF scenario.sliced THEN {<<TRUE>>, <<TRUE, FALSE>>} ELSE {<<TRUE>>}

\* The first of two slices is lost.
Damaged == IF scenario.sliced /\ budget.lost > 0 THEN {<<FALSE>>} ELSE {}

Deliver(c) ==
    /\ Encode(c)
    /\ \/ \E firsts \in Whole : Submit(Slices(c, firsts)) /\ Spend("coded")
       \/ \E firsts \in Damaged :
             /\ Submit(Slices(c, firsts))
             /\ budget' = [budget EXCEPT !.coded = @ - 1, !.lost = @ - 1]

\* The access unit goes on with another picture, which counts as coded once
\* submit comes to it: a call that fails before has as good as not had it.
Continue(c) ==
    /\ scenario.sliced
    /\ budget.coded > 0
    /\ phase = "picture" /\ units = <<>> /\ read = NoSlice
    /\ \E firsts \in Whole : units' = Slices(c, firsts)
    /\ UNCHANGED <<vars, read, begun, enc, budget>>

\* The steps of a call on its pictures, with so many refusals of the driver.
Inside ==
    /\ \/ ReadSlice /\ UNCHANGED enc
       \/ NextPicture /\ Encode(read.picture)
       \/ /\ Proceed \/ Abandon
          /\ enc' = IF phase = "marking" /\ phase' = "ready" /\ IsRef(pic)
                    THEN [enc EXCEPT !.got = @ \cup {slice.frameNum}] ELSE enc
    /\ LET fault == IF phase' = "idle" /\ result' = "va" THEN 1 ELSE 0
           coded == IF phase = "ready" THEN 1 ELSE 0
       IN  /\ fault <= budget.faults
           /\ budget' = [budget EXCEPT !.coded = @ - coded, !.faults = @ - fault]

MCReset ==
    /\ Outside /\ Reset /\ UNCHANGED <<units, read, begun>>
    /\ budget.flushes > 0
    /\ Spend("flushes")
    /\ enc' = [enc EXCEPT !.got = {}]

\* Frames are taken, by a call without slices if one failed before.
Take ==
    /\ units = <<>> /\ read = NoSlice
    /\ TakeFrames \/ (SubmitParameterSets /\ ready # <<>>)
    /\ UNCHANGED <<units, read, begun>>

MCStep ==
    \/ \E c \in Coded : Lose(c) \/ Deliver(c) \/ Continue(c)
    \/ Inside
    \/ (DecodeSlice \/ EndUnit \/ Take) /\ UNCHANGED <<enc, budget>>
    \/ MCReset

MCNext == MCStep /\ UNCHANGED scenario

MCSpec == MCInit /\ [][MCNext]_mcvars

-----------------------------------------------------------------------------

\* Without adaptive marking, every picture the stream has room for is taken.
NeverRefusedSliding == scenario.markings = {} => NeverRefused

\* Nor do two short-term references share a frame_num then, across losses and
\* the wrap of frame_num: picture numbers name at most one.
FrameNumUniqueSliding == scenario.markings = {} => ShortTermFrameNumUnique

\* Once a picture is decoded without adaptive marking, the references the DPB keeps are those the
\* sliding window of the encoder keeps, less the ones that never arrived:
\* handle_frame_num_gap invents the others "so reference marking keeps working".
RefsAreEncoders ==
    [][scenario.markings = {} /\ phase = "marking" /\ phase' = "ready" =>
          {dpb'.entries[i].frameNum : i \in {j \in Refs(dpb'.entries) : ~dpb'.entries[j].nonexisting}}
              = {enc'.refs[k] : k \in DOMAIN enc'.refs} \cap enc'.got]_mcvars
=============================================================================
