--------------------------- MODULE H265RefPicSets ---------------------------
(***************************************************************************)
(* Short-term reference picture sets as parse_short_term_ref_pic_set of    *)
(* src/src/codec/h265/parser.rs reads them (7.4.8), and the reference      *)
(* picture lists of a slice in src/src/decode/h265.rs (8.3.4).             *)
(***************************************************************************)
EXTENDS Integers, Sequences, SequencesExt

\* An entry, delta_poc_s0/s1 and used_by_curr_pic_s0/s1, and a set of both.
RpsEntry == [delta : Int, used : BOOLEAN]
ShortTermRefPicSet == [s0 : Seq(RpsEntry), s1 : Seq(RpsEntry)]

-----------------------------------------------------------------------------
(* Sets coded on their own: each difference is to the entry before.        *)

\* `steps` are delta_poc_s0_minus1 + 1, or those of s1, with the used flags.
Summed(steps, sign) ==
    LET delta[i \in 0 .. Len(steps)] == IF i = 0 THEN 0 ELSE delta[i - 1] + sign * steps[i].step
    IN  [i \in 1 .. Len(steps) |-> [delta |-> delta[i], used |-> steps[i].used]]

Coded(negative, positive) == [s0 |-> Summed(negative, -1), s1 |-> Summed(positive, 1)]

-----------------------------------------------------------------------------
(* Sets predicted from another (7-61, 7-62).                               *)

\* The entries of the other set and the current picture, moved by deltaRps.
\* flags has one [used, useDelta] per entry of s0, then of s1, then one.
Shifted(entries, flags, first, deltaRps) ==
    [j \in DOMAIN entries |->
        [delta |-> entries[j].delta + deltaRps, flags |-> flags[first + j]]]

Itself(flags, deltaRps) == <<[delta |-> deltaRps, flags |-> flags[Len(flags)]]>>

\* On that side of the picture, and taken over by its flag.
OnSide(e, sign) == sign * e.delta > 0 /\ e.flags.useDelta

\* Those of the entries, in turn.
Taken(entries, sign) ==
    LET taken[i \in 0 .. Len(entries)] ==
            IF i = 0 THEN <<>>
            ELSE IF OnSide(entries[i], sign)
            THEN Append(taken[i - 1], [delta |-> entries[i].delta, used |-> entries[i].flags.used])
            ELSE taken[i - 1]
    IN  taken[Len(entries)]

\* Mutant: the flags of s1 are read from where those of s0 begin.
PredictedFromFirst(ref, deltaRps, flags) ==
    LET before == Shifted(ref.s0, flags, 0, deltaRps)
        after  == Shifted(ref.s1, flags, 0, deltaRps)
        itself == Itself(flags, deltaRps)
    IN  [s0 |-> Taken(Reverse(after) \o itself \o before, -1),
         s1 |-> Taken(Reverse(before) \o itself \o after, 1)]

\* Each half takes the nearest first: what the shift brought over from the
\* other side backwards, the picture the other set was of, then its own side.
PredictedSet(ref, deltaRps, flags) ==
    LET before == Shifted(ref.s0, flags, 0, deltaRps)
        after  == Shifted(ref.s1, flags, Len(ref.s0), deltaRps)
        itself == Itself(flags, deltaRps)
    IN  [s0 |-> Taken(Reverse(after) \o itself \o before, -1),
         s1 |-> Taken(Reverse(before) \o itself \o after, 1)]

-----------------------------------------------------------------------------
(* RefPicSet::ref_pic_lists                                                *)

\* Mutant: the candidates of list 1 come in the order of list 0.
CandidatesAlike(rps, list1) == rps.before \o rps.after \o rps.long

Candidates(rps, list1) ==
    IF list1 THEN rps.after \o rps.before \o rps.long
    ELSE rps.before \o rps.after \o rps.long

\* One list, of `active` pictures picked modulo the candidates; `entries` are
\* those of the slice header, <<>> without a modification.
RefPicList(rps, list1, active, entries) ==
    LET temp == Candidates(rps, list1)
    IN  [i \in 1 .. active |->
            LET index == IF i <= Len(entries) THEN entries[i] ELSE i - 1
            IN  temp[(index % Len(temp)) + 1]]
=============================================================================
