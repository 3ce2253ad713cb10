---------------------------- MODULE H264DpbLoops ----------------------------
(***************************************************************************)
(* The loops of src/src/codec/h264/dpb.rs one round at a time: drain(),    *)
(* bump_as_needed() and sliding_window_marking().  H264Dpb says in one     *)
(* expression what each of them comes to; here each runs from every small  *)
(* DPB, one the loop may find over its limit included (apply_sps lowers    *)
(* the limit of a DPB that still holds pictures when it fails), and has to *)
(* come to the same.                                                       *)
(***************************************************************************)
EXTENDS H264Dpb

CONSTANTS
    Loops,      \* the loops to run
    MaxEntries, \* pictures in the DPB
    MaxLimit,   \* largest max_num_pics, max_num_reorder_frames, max_num_ref_frames
    Values      \* picture order counts, or frame_num_wrap for the sliding window

ASSUME LoopsAssumption ==
    /\ Loops \subseteq {"drain", "bump", "window"}
    /\ MaxEntries \in Nat /\ MaxLimit \in Nat
    /\ Values \subseteq Int

VARIABLES
    loop,  \* the method that runs, "done" once it has returned
    dpb,   \* the DPB it works on
    pic,   \* the current picture, or the SPS's max_num_ref_frames
    out,   \* the pictures it returns
    numRefPics, \* num_ref_pics, the sliding window's own count
    start  \* history: the DPB and the method as it was called

vars == <<loop, dpb, pic, out, numRefPics, start>>

EntryOf(poc, wrap, ref, needed, nonexisting) ==
    [poc |-> poc, frameNum |-> 0, picNum |-> wrap, ref |-> ref, longTermFrameIdx |-> 0,
     longTermPicNum |-> 0, nonexisting |-> nonexisting, needed |-> needed, gen |-> 1]

\* The pictures a DPB can hold; one invented for a gap never waits.
EntriesFor(l) ==
    {EntryOf(v.poc, v.wrap, v.ref, v.needed, v.nonexisting) :
        v \in {v \in [poc : IF l = "window" THEN {0} ELSE Values,
                      wrap : IF l = "window" THEN Values ELSE {0},
                      ref : {"None", "ShortTerm", "LongTerm"},
                      needed : BOOLEAN, nonexisting : BOOLEAN] :
                  v.nonexisting => ~v.needed /\ v.ref # "LongTerm"}}

Current(ref, idr, nonexisting, poc) ==
    [poc |-> poc, ref |-> ref, idr |-> idr, nonexisting |-> nonexisting]

\* The picture the DPB makes room for; the others are one of these to it.
PicturesFor(l) ==
    CASE l = "bump" -> {Current("ShortTerm", FALSE, TRUE, 0), Current("ShortTerm", FALSE, FALSE, 0),
                        Current("ShortTerm", TRUE, FALSE, 0)}
                       \cup {Current("None", FALSE, FALSE, v) : v \in Values}
      [] l = "window" -> 0 .. MaxLimit
      [] OTHER -> {0}

Init ==
    /\ loop \in Loops
    /\ \E n \in 0 .. MaxEntries, maxNumPics \in 1 .. MaxLimit, maxReorder \in 0 .. MaxLimit :
          \E d \in [1 .. n -> EntriesFor(loop)] :
              /\ loop # "bump" => maxNumPics = MaxLimit /\ maxReorder = 0
              /\ dpb = [entries |-> d, maxNumPics |-> maxNumPics, maxReorder |-> maxReorder]
    /\ pic \in PicturesFor(loop)
    /\ out = <<>>
    /\ numRefPics = 0
    /\ start = [dpb |-> dpb, loop |-> loop]

\* find_lowest_poc_for_bumping_mut, as a set of at most one.
LowestPoc(d) ==
    {i \in Waiting(d) : \A j \in Waiting(d) \ {i} : OutputBefore(d, i, j)}

\* bump() clears the flag and hands over the surface, if there is one.
BumpOne(d, i) == [d EXCEPT ![i].needed = FALSE]

HandOver(d, i) == IF d[i].nonexisting THEN out ELSE Append(out, i)

Return ==
    /\ loop' = "done"
    /\ UNCHANGED <<dpb, out>>

\* One round of `while let Some(pic) = self.bump()`.
Drain ==
    /\ loop = "drain"
    /\ IF LowestPoc(dpb.entries) = {}
       THEN /\ loop' = "done"
            /\ dpb' = Clear(dpb)
            /\ UNCHANGED out
       ELSE \E i \in LowestPoc(dpb.entries) :
            /\ dpb' = [dpb EXCEPT !.entries = BumpOne(@, i)]
            /\ out' = HandOver(dpb.entries, i)
            /\ UNCHANGED loop
    /\ UNCHANGED <<pic, numRefPics, start>>

\* Mutant: the reorder limit is checked before the loop only.
BumpAsNeededUnlimited ==
    /\ loop = "bump"
    /\ IF NeedsBumping(dpb, pic) /\ (Cardinality(DOMAIN dpb.entries) >= dpb.maxReorder \/ out # <<>>)
          /\ LowestPoc(dpb.entries) # {}
       THEN \E i \in LowestPoc(dpb.entries) :
            /\ dpb' = [dpb EXCEPT !.entries = RemoveUnused(BumpOne(@, i))]
            /\ out' = HandOver(dpb.entries, i)
            /\ UNCHANGED loop
       ELSE Return
    /\ UNCHANGED <<pic, numRefPics, start>>

\* One round of bump_as_needed.
BumpAsNeeded ==
    /\ loop = "bump"
    /\ IF NeedsBumping(dpb, pic) /\ Cardinality(DOMAIN dpb.entries) >= dpb.maxReorder
          /\ LowestPoc(dpb.entries) # {}
       THEN \E i \in LowestPoc(dpb.entries) :
            /\ dpb' = [dpb EXCEPT !.entries = RemoveUnused(BumpOne(@, i))]
            /\ out' = HandOver(dpb.entries, i)
            /\ UNCHANGED loop
       ELSE Return
    /\ UNCHANGED <<pic, numRefPics, start>>

\* find_short_term_lowest_frame_num_wrap, as a set of at most one.
LowestWrap(d) ==
    {i \in ShortTerm(d) : \A j \in ShortTerm(d) \ {i} : WrapBefore(d, i, j)}

MaxNumRefFrames == IF pic > 1 THEN pic ELSE 1

\* sliding_window_marking counts the references once, and returns where the
\* window has room.
CountRefs ==
    /\ loop = "window"
    /\ numRefPics' = Cardinality(Refs(dpb.entries))
    /\ loop' = IF numRefPics' < MaxNumRefFrames THEN "done" ELSE "unmark"
    /\ UNCHANGED <<dpb, pic, out, start>>

\* Mutant: a round that finds no short-term picture does not leave the loop.
UnmarkOldestUnbroken ==
    /\ loop = "unmark"
    /\ CASE numRefPics >= MaxNumRefFrames /\ LowestWrap(dpb.entries) # {} ->
               /\ dpb' = [dpb EXCEPT !.entries = Unmark(@, LowestWrap(@))]
               /\ numRefPics' = numRefPics - 1
               /\ UNCHANGED loop
         [] numRefPics >= MaxNumRefFrames /\ LowestWrap(dpb.entries) = {} ->
               UNCHANGED <<dpb, numRefPics, loop>>
         [] OTHER ->
               /\ dpb' = [dpb EXCEPT !.entries = RemoveUnused(@)]
               /\ loop' = "done"
               /\ UNCHANGED numRefPics
    /\ UNCHANGED <<pic, out, start>>

\* One round of its loop, which counts down without counting again; its end,
\* and a round that finds no short-term picture, remove what nobody needs.
UnmarkOldest ==
    /\ loop = "unmark"
    /\ IF numRefPics >= MaxNumRefFrames /\ LowestWrap(dpb.entries) # {}
       THEN /\ dpb' = [dpb EXCEPT !.entries = Unmark(@, LowestWrap(@))]
            /\ numRefPics' = numRefPics - 1
            /\ UNCHANGED loop
       ELSE /\ dpb' = [dpb EXCEPT !.entries = RemoveUnused(@)]
            /\ loop' = "done"
            /\ UNCHANGED numRefPics
    /\ UNCHANGED <<pic, out, start>>

Next == Drain \/ BumpAsNeeded \/ CountRefs \/ UnmarkOldest

Spec == Init /\ [][Next]_vars /\ WF_vars(Next)

-----------------------------------------------------------------------------

\* Each loop comes to what H264Dpb says of it: the pictures that leave, their
\* order, and the entries that stay, whatever the picture order counts, marks
\* and limits.
LoopsAgree ==
    loop = "done" =>
        LET bumped == BumpedAsNeeded(start.dpb, pic)
        IN  CASE start.loop = "drain"  -> dpb = Clear(start.dpb) /\ out \in Drained(start.dpb)
              [] start.loop = "bump"   ->
                    /\ dpb = [start.dpb EXCEPT !.entries = Bump(@, bumped)]
                    /\ out \in OutputOrders(start.dpb.entries, bumped)
              [] start.loop = "window" ->
                    /\ dpb.entries = SlidingWindowMarking(start.dpb.entries, pic)
                    /\ out = <<>>

\* The loops end from any DPB: a round takes a picture out of their way, or
\* counts one reference less, and one that finds no picture leaves, whatever
\* marks and order counts the pictures have in common.
LoopsEnd == (loop \in Loops) ~> (loop = "done")
=============================================================================
