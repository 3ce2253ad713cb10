------------------------- MODULE H265DecoderProofs -------------------------
(***************************************************************************)
(* The safety of H265Decoder for any stream of slice segments and any      *)
(* parameter sets: lossy, non-conforming and refused ones included.        *)
(***************************************************************************)
EXTENDS H265Decoder, FiniteSetTheorems, TLAPS

\* The DPBs of pictures numbered up to n.
DpbUpTo(n) == UNION {[D -> Entry] : D \in SUBSET (1 .. n)}

-----------------------------------------------------------------------------
(* The operators of H265Dpb *)

\* e has pictures of d only, each with the surface it had.
From(e, d) ==
    /\ DOMAIN e \subseteq DOMAIN d
    /\ \A i \in DOMAIN e : e[i].gen = d[i].gen

\* Pictures are numbered up to n, and each has a record of the DPB.
LEMMA DpbElim ==
  ASSUME NEW n \in Nat, NEW d \in DpbUpTo(n)
  PROVE  /\ DOMAIN d \subseteq 1 .. n
         /\ d = [i \in DOMAIN d |-> d[i]]
         /\ \A i \in DOMAIN d : d[i] \in Entry
  <1> PICK D \in SUBSET (1 .. n) : d \in [D -> Entry]
    BY DEF DpbUpTo
  <1> QED
    OBVIOUS

\* A function on picture numbers up to n, to records, is a DPB.
LEMMA DpbIntro ==
  ASSUME NEW n \in Nat, NEW d, DOMAIN d \subseteq 1 .. n,
         d = [i \in DOMAIN d |-> d[i]], \A i \in DOMAIN d : d[i] \in Entry
  PROVE  d \in DpbUpTo(n)
  BY DEF DpbUpTo

\* One change of the DPB after another is a change of it.
LEMMA FromTransitive ==
  ASSUME NEW d, NEW e, NEW f, From(f, e), From(e, d)
  PROVE  From(f, d)
  BY DEF From

\* Marking changes no picture's surface, and drops none (set_reference).
LEMMA SetReferenceFrom ==
  ASSUME NEW n \in Nat, NEW d \in DpbUpTo(n), NEW S, NEW ref \in Marks
  PROVE  /\ SetReference(d, S, ref) \in DpbUpTo(n)
         /\ From(SetReference(d, S, ref), d)
         /\ DOMAIN SetReference(d, S, ref) = DOMAIN d
  <1> DEFINE u == SetReference(d, S, ref)
  <1>1. /\ DOMAIN d \subseteq 1 .. n
        /\ \A i \in DOMAIN d : d[i] \in Entry
    BY DpbElim
  <1>2. /\ DOMAIN u = DOMAIN d
        /\ u = [i \in DOMAIN d |-> u[i]]
        /\ \A i \in DOMAIN d : u[i] = IF i \in S THEN [d[i] EXCEPT !.ref = ref] ELSE d[i]
    BY DEF SetReference
  <1> HIDE DEF u
  <1>3. \A i \in DOMAIN d : u[i] \in Entry /\ u[i].gen = d[i].gen
    BY <1>1, <1>2 DEF Entry
  <1>4. u \in DpbUpTo(n)
    BY <1>1, <1>2, <1>3, DpbIntro
  <1> QED
    BY <1>2, <1>3, <1>4 DEF u, From

\* remove_unused drops pictures and changes none.
LEMMA RemoveUnusedFrom ==
  ASSUME NEW n \in Nat, NEW d \in DpbUpTo(n)
  PROVE  RemoveUnused(d) \in DpbUpTo(n) /\ From(RemoveUnused(d), d)
  <1> DEFINE u == RemoveUnused(d)
  <1>1. /\ DOMAIN d \subseteq 1 .. n
        /\ \A i \in DOMAIN d : d[i] \in Entry
    BY DpbElim
  <1>2. /\ DOMAIN u \subseteq DOMAIN d
        /\ u = [i \in DOMAIN u |-> u[i]]
        /\ \A i \in DOMAIN u : u[i] = d[i]
    BY DEF RemoveUnused, Restrict, Refs, Waiting
  <1> HIDE DEF u
  <1>3. u \in DpbUpTo(n)
    BY <1>1, <1>2, DpbIntro
  <1> QED
    BY <1>2, <1>3 DEF u, From

\* Bumping clears a flag, and may drop the picture.
LEMMA BumpFrom ==
  ASSUME NEW n \in Nat, NEW d \in DpbUpTo(n), NEW S, NEW flush \in BOOLEAN
  PROVE  Bump(d, S, flush) \in DpbUpTo(n) /\ From(Bump(d, S, flush), d)
  <1> DEFINE output == [i \in DOMAIN d |-> [d[i] EXCEPT !.needed = @ /\ i \notin S]]
             kept   == {i \in DOMAIN d : i \notin S \/ (IsRef(d[i]) /\ ~flush)}
             u      == Bump(d, S, flush)
  <1>1. /\ DOMAIN d \subseteq 1 .. n
        /\ \A i \in DOMAIN d : d[i] \in Entry
    BY DpbElim
  <1>2. \A i \in DOMAIN d : \A b \in BOOLEAN :
           /\ [d[i] EXCEPT !.needed = b] \in Entry
           /\ [d[i] EXCEPT !.needed = b].gen = d[i].gen
    BY <1>1 DEF Entry
  <1>3. \A i \in DOMAIN d : (d[i].needed /\ i \notin S) \in BOOLEAN
    OBVIOUS
  <1>4. \A i \in DOMAIN d : output[i] \in Entry /\ output[i].gen = d[i].gen
    BY <1>2, <1>3
  <1>5. DOMAIN output = DOMAIN d /\ kept \subseteq DOMAIN d
    OBVIOUS
  <1>6. u = Restrict(output, kept)
    BY DEF Bump
  <1> HIDE DEF output, kept, u
  <1>7. /\ DOMAIN u = kept
        /\ u = [i \in DOMAIN u |-> u[i]]
        /\ \A i \in DOMAIN u : u[i] = output[i]
    BY <1>5, <1>6 DEF Restrict
  <1>8. u \in DpbUpTo(n)
    BY <1>1, <1>4, <1>5, <1>7, DpbIntro
  <1> QED
    BY <1>4, <1>5, <1>7, <1>8 DEF u, From

\* What joins the ready queue are numbers of pictures (drain).
LEMMA DrainedType ==
  ASSUME NEW n \in Nat, NEW d \in DpbUpTo(n), NEW s \in Drained(d)
  PROVE  s \in Seq(1 .. n)
  <1> DEFINE S == DrainTakes(d)
  <1>1. S \subseteq 1 .. n
    BY DpbElim DEF DrainTakes
  <1>2. s \in [1 .. Cardinality(S) -> S]
    BY DEF Drained
  <1> HIDE DEF S
  <1>3. IsFiniteSet(1 .. n)
    BY FS_Interval
  <1>4. Cardinality(S) \in Nat
    BY <1>1, <1>3, FS_Subset, FS_CardinalityType
  <1>5. s \in [1 .. Cardinality(S) -> 1 .. n]
    BY <1>1, <1>2
  <1> QED
    BY <1>4, <1>5

\* The number of pictures is finite.
LEMMA DpbFinite ==
  ASSUME NEW n \in Nat, NEW d \in DpbUpTo(n)
  PROVE  IsFiniteSet(DOMAIN d) /\ Cardinality(DOMAIN d) \in Nat
  BY DpbElim, FS_Interval, FS_Subset, FS_CardinalityType

\* No pictures are a DPB.
LEMMA NoEntriesDpb ==
  ASSUME NEW n \in Nat
  PROVE  NoEntries \in DpbUpTo(n) /\ DOMAIN NoEntries = {}
  <1>1. DOMAIN NoEntries = {} /\ NoEntries = [i \in DOMAIN NoEntries |-> NoEntries[i]]
    BY DEF NoEntries
  <1> QED
    BY <1>1, DpbIntro

-----------------------------------------------------------------------------
(* The invariant *)

\* What DpbWithinSequence says of the DPB d and sequence s.
Within(d, s) ==
    /\ \A i \in DOMAIN d : d[i].gen = s.gen
    /\ Cardinality(DOMAIN d) <= s.maxDpbFrames

\* A segment that begins a picture, or is about to, has a header: its own, or
\* that of an independent segment.
HasHeader ==
    /\ phase \in {"begin", "derive", "room", "slice"} => nal.header \in SliceHeader
    /\ phase \in {"finish", "output"} => IsEnd(nal) \/ nal.header \in SliceHeader

\* From apply_sps to the end of the picture the limit finish_picture goes by,
\* which apply_sps moves, is the one the sequence was built for.
InTheMaking ==
    /\ phase = "derive" \/ current # NoPicture =>
          activeSps \in SpsSet /\ activeSps.maxDpbFrames = sequence.maxDpbFrames
    /\ current # NoPicture /\ phase # "room" => current.id \in 1 .. pictures

IInv == TypeOK /\ HasHeader /\ InTheMaking /\ Within(dpb, sequence)

\* The type invariant's first conjunct, with the union in place of the quantifier.
LEMMA DpbType ==
  ASSUME NEW d, NEW n
  PROVE  d \in DpbUpTo(n) <=> \E D \in SUBSET (1 .. n) : d \in [D -> Entry]
  BY DEF DpbUpTo

\* Fewer pictures stay within the limit, each with its surface.
LEMMA WithinFrom ==
  ASSUME NEW n \in Nat, NEW d \in DpbUpTo(n), NEW e, From(e, d),
         NEW s, s.maxDpbFrames \in Nat, Within(d, s)
  PROVE  Within(e, s)
  <1>1. Cardinality(DOMAIN e) \in Nat /\ Cardinality(DOMAIN e) <= Cardinality(DOMAIN d)
    BY DpbFinite, FS_Subset, FS_CardinalityType DEF From
  <1> QED
    BY <1>1, DpbFinite DEF Within, From

\* A DPB without pictures is within every sequence (clear).
LEMMA NoEntriesWithin ==
  ASSUME NEW s, s.maxDpbFrames \in Nat
  PROVE  Within(NoEntries, s)
  <1>1. DOMAIN NoEntries = {}
    BY DEF NoEntries
  <1> QED
    BY <1>1, FS_EmptySet DEF Within

\* A new picture number takes the types along.
LEMMA MorePictures ==
  ASSUME NEW n \in Nat
  PROVE  /\ DpbUpTo(n) \subseteq DpbUpTo(n + 1)
         /\ Seq(1 .. n) \subseteq Seq(1 .. n + 1)
         /\ SUBSET (1 .. n) \subseteq SUBSET (1 .. n + 1)
  <1>1. 1 .. n \subseteq 1 .. n + 1
    OBVIOUS
  <1> QED
    BY <1>1 DEF DpbUpTo

\* Storing a picture of the sequence's pool where the limit allows it.
LEMMA StoreWithin ==
  ASSUME NEW n \in Nat, NEW d \in DpbUpTo(n), NEW id \in 1 .. n, NEW p \in PictureDatum,
         NEW s \in [gen : Nat, shape : Nat, maxDpbFrames : Nat], Within(d, s),
         Cardinality(DOMAIN d) < s.maxDpbFrames
  PROVE  /\ Store(d, id, p, s.gen) \in DpbUpTo(n)
         /\ Within(Store(d, id, p, s.gen), s)
  <1> DEFINE new == [poc |-> p.poc, ref |-> "ShortTerm", needed |-> p.output, latency |-> 0,
                     gen |-> s.gen]
             e == Store(d, id, p, s.gen)
  <1>1. /\ DOMAIN d \subseteq 1 .. n
        /\ \A i \in DOMAIN d : d[i] \in Entry
    BY DpbElim
  <1>2. new \in Entry /\ new.gen = s.gen
    BY DEF Entry, Marks, PictureDatum
  <1>3. /\ DOMAIN e = DOMAIN d \cup {id}
        /\ e = [i \in DOMAIN e |-> e[i]]
        /\ \A i \in DOMAIN e :
              e[i] = IF i = id THEN new ELSE [d[i] EXCEPT !.latency = d[i].latency + 1]
    BY DEF Store
  <1>4. \A i \in DOMAIN d : /\ [d[i] EXCEPT !.latency = d[i].latency + 1] \in Entry
                            /\ [d[i] EXCEPT !.latency = d[i].latency + 1].gen = s.gen
    BY <1>1 DEF Entry, Within
  <1> HIDE DEF new, e
  <1>5. \A i \in DOMAIN e : e[i] \in Entry /\ e[i].gen = s.gen
    BY <1>2, <1>3, <1>4
  <1>6. e \in DpbUpTo(n)
    BY <1>1, <1>3, <1>5, DpbIntro
  <1>7. Cardinality(DOMAIN e) <= s.maxDpbFrames
    <2>1. Cardinality(DOMAIN e) \in {Cardinality(DOMAIN d), Cardinality(DOMAIN d) + 1}
      BY <1>3, DpbFinite, FS_AddElement
    <2> QED
      BY <2>1, DpbFinite
  <1> QED
    BY <1>5, <1>6, <1>7 DEF e, Within

\* The invariant, where the next steps need it.
LEMMA Facts ==
  ASSUME IInv
  PROVE  /\ dpb \in DpbUpTo(pictures)
         /\ sequence \in [gen : Nat, shape : Nat, maxDpbFrames : Nat]
         /\ sequence.maxDpbFrames \in Nat
         /\ pictures \in Nat
         /\ ready \in Seq(1 .. pictures)
         /\ Within(dpb, sequence)
  BY DpbType DEF IInv, TypeOK

\* The initial decoder: no sequence, no pictures.
LEMMA InitIInv == Init => IInv
  <1> SUFFICES ASSUME Init PROVE IInv
    OBVIOUS
  <1>1. NoEntries \in DpbUpTo(0)
    BY NoEntriesDpb
  <1>2. TypeOK
    <2>1. \E D \in SUBSET (1 .. pictures) : dpb \in [D -> Entry]
      BY <1>1, DpbType DEF Init
    <2>2. /\ ready \in Seq(1 .. pictures) /\ taken \in Seq(1 .. pictures)
          /\ sequence \in [gen : Nat, shape : Nat, maxDpbFrames : Nat]
      BY DEF Init
    <2> QED
      BY <2>1, <2>2 DEF Init, TypeOK
  <1>3. InTheMaking /\ HasHeader
    BY DEF Init, InTheMaking, HasHeader
  <1>4. Within(dpb, sequence)
    BY NoEntriesWithin DEF Init
  <1> QED
    BY <1>2, <1>3, <1>4 DEF IInv

Results == {"ok", "parse", "slice", "sps", "va", "full"}

\* Where a call fails, no picture is in flight, and what is left is well formed.
LEMMA FailIInv ==
  ASSUME IInv, NEW why \in Results, Fail(why),
         dpb' \in DpbUpTo(pictures), Within(dpb', sequence),
         activeSps' \in SpsSet \cup {NoSps},
         prevTid0' \in [lsb : Nat, msb : Int] \cup {NoTid0},
         ready' \in Seq(1 .. pictures),
         UNCHANGED <<sequence, firstInBitstream, firstAfterEos, irapNoRasl, lastHeader, pictures,
                     taken, discarded>>
  PROVE  IInv'
  <1>1. phase' = "idle" /\ result' = why /\ nal' = NoNal /\ current' = NoPicture
    BY DEF Fail
  <1>2. TypeOK'
    BY <1>1, DpbType DEF IInv, TypeOK, Results
  <1> QED
    BY <1>1, <1>2 DEF IInv, HasHeader, InTheMaking, Within

\* The same where the decoder is as it was.
LEMMA FailUnchanged ==
  ASSUME IInv, NEW why \in Results, Fail(why),
         UNCHANGED <<dpb, stream, ready, pictures, taken, discarded>>
  PROVE  IInv'
  <1>1. /\ activeSps \in SpsSet \cup {NoSps}
        /\ prevTid0 \in [lsb : Nat, msb : Int] \cup {NoTid0}
    BY DEF IInv, TypeOK
  <1> QED
    BY <1>1, Facts, FailIInv DEF stream

-----------------------------------------------------------------------------
(* submit *)

\* The decoder's own part of the state between calls: an SPS is no absent one.
LEMMA SpsThere ==
  ASSUME NEW sps \in SpsSet
  PROVE  sps \in SpsInfo /\ sps # NoSps
  BY SpsAssumption DEF SpsInfo, NoSps

\* A segment has its own header or that of the last independent segment.
LEMMA SubmitSliceIInv ==
  ASSUME IInv, NEW s \in CodedSegment, SubmitSlice(s)
  PROVE  IInv'
  <1>1. /\ phase \in {"idle", "next"}
        /\ UNCHANGED <<dpb, activeSps, sequence, prevTid0, firstInBitstream, firstAfterEos,
                       irapNoRasl, ready, pictures, taken, discarded>>
        /\ s \in Segment /\ (s.dependent <=> s.header = NoHeader)
        /\ lastHeader \in SliceHeader \cup {NoHeader}
    BY DEF SubmitSlice, CodedSegment, IInv, TypeOK
  <1>2. CASE Fail("slice") /\ UNCHANGED lastHeader
    <2>1. "slice" \in Results
      BY DEF Results
    <2> QED
      BY <1>1, <1>2, <2>1, FailUnchanged DEF stream
  <1>3. CASE /\ s.dependent => lastHeader # NoHeader
             /\ lastHeader' = IF s.dependent THEN lastHeader ELSE s.header
             /\ nal' = IF s.dependent THEN [s EXCEPT !.header = lastHeader] ELSE s
             /\ phase' = CASE s.first /\ current # NoPicture  -> "finish"
                           [] current = NoPicture             -> "begin"
                           [] OTHER                           -> "slice"
             /\ result' = "ok"
             /\ UNCHANGED current
    <2>1. s.header \in SliceHeader \cup {NoHeader} /\ s.dependent \in BOOLEAN
      BY <1>1 DEF Segment
    <2>2. lastHeader' \in SliceHeader
      BY <1>1, <1>3, <2>1
    <2>3. nal' \in Segment /\ nal'.header \in SliceHeader
      <3>1. CASE s.dependent
        <4>1. nal' = [s EXCEPT !.header = lastHeader] /\ lastHeader \in SliceHeader
          BY <1>1, <1>3, <3>1
        <4> QED
          BY <1>1, <4>1 DEF Segment
      <3>2. CASE ~s.dependent
        BY <1>1, <1>3, <2>1, <3>2
      <3> QED
        BY <3>1, <3>2
    <2>4. /\ phase' \in {"finish", "begin", "slice"}
          /\ phase' = "begin" <=> current = NoPicture
      BY <1>3
    <2>5. current # NoPicture => activeSps # NoSps
      BY SpsThere DEF IInv, InTheMaking
    <2>6. /\ nal' \in CASE phase' \in {"idle", "next", "ready"} -> {NoNal}
                        [] phase' = "unit" -> [end : Ends]
                        [] phase' \in {"finish", "output"} -> Segment \cup [end : Ends]
                        [] OTHER -> Segment
      BY <2>3, <2>4
    <2>7. TypeOK'
      BY <1>1, <1>3, <2>2, <2>4, <2>5, <2>6 DEF IInv, TypeOK
    <2>8. HasHeader'
      BY <2>3, <2>4 DEF HasHeader
    <2>9. InTheMaking'
      BY <1>1, <1>3, <2>4 DEF IInv, InTheMaking
    <2> QED
      BY <1>1, <2>7, <2>8, <2>9 DEF IInv, Within
  <1> QED
    BY <1>2, <1>3 DEF SubmitSlice

\* An end ends the picture in flight first.
LEMMA SubmitEndIInv ==
  ASSUME IInv, NEW end \in Ends, SubmitEnd(end)
  PROVE  IInv'
  <1>1. /\ phase \in {"idle", "next"}
        /\ nal' = [end |-> end] /\ nal' \in [end : Ends]
        /\ phase' = IF current = NoPicture THEN "unit" ELSE "finish"
        /\ result' = "ok"
        /\ UNCHANGED <<dpb, activeSps, sequence, prevTid0, firstInBitstream, firstAfterEos,
                       irapNoRasl, lastHeader, ready, current, pictures, taken, discarded>>
    BY DEF SubmitEnd, stream
  <1>2. current # NoPicture => activeSps # NoSps
    BY SpsThere DEF IInv, InTheMaking
  <1>3. /\ nal' \in CASE phase' \in {"idle", "next", "ready"} -> {NoNal}
                      [] phase' = "unit" -> [end : Ends]
                      [] phase' \in {"finish", "output"} -> Segment \cup [end : Ends]
                      [] OTHER -> Segment
    BY <1>1
  <1>4. TypeOK'
    BY <1>1, <1>2, <1>3 DEF IInv, TypeOK
  <1>5. IsEnd(nal')
    BY <1>1 DEF IsEnd, NoNal
  <1>6. HasHeader'
    BY <1>1, <1>5 DEF HasHeader
  <1>7. InTheMaking'
    BY <1>1 DEF IInv, InTheMaking
  <1> QED
    BY <1>1, <1>4, <1>6, <1>7 DEF IInv, Within

\* An end of sequence or of bitstream drains the DPB.
LEMMA EndUnitIInv ==
  ASSUME IInv, EndUnit
  PROVE  IInv'
  <1>1. /\ phase = "unit" /\ current = NoPicture
        /\ phase' \in {"ready", "next"} /\ nal' = NoNal
        /\ firstAfterEos' \in BOOLEAN /\ firstInBitstream' \in BOOLEAN
        /\ UNCHANGED <<activeSps, sequence, prevTid0, irapNoRasl, lastHeader, current, pictures,
                       result, taken, discarded>>
    BY DEF EndUnit, IInv, TypeOK
  <1>2. dpb' \in DpbUpTo(pictures) /\ Within(dpb', sequence) /\ ready' \in Seq(1 .. pictures)
    <2>1. CASE UNCHANGED <<dpb, ready>>
      BY <2>1, Facts
    <2>2. ASSUME NEW out \in Drained(dpb), ready' = ready \o out, dpb' = NoEntries
          PROVE  dpb' \in DpbUpTo(pictures) /\ Within(dpb', sequence) /\ ready' \in Seq(1 .. pictures)
      <3>1. out \in Seq(1 .. pictures)
        BY Facts, DrainedType
      <3> QED
        BY <2>2, <3>1, Facts, NoEntriesDpb, NoEntriesWithin
    <2> QED
      BY <2>1, <2>2 DEF EndUnit
  <1>3. TypeOK'
    BY <1>1, <1>2, DpbType DEF IInv, TypeOK
  <1> QED
    BY <1>1, <1>2, <1>3 DEF IInv, HasHeader, InTheMaking

-----------------------------------------------------------------------------
(* begin_picture *)

\* apply_sps keeps the sequence, or drains the DPB for the one it builds; where
\* that fails, nothing is left that the new limit could be wrong for.
LEMMA ApplySpsIInv ==
  ASSUME IInv, NEW built \in BOOLEAN, ApplySps(built)
  PROVE  IInv'
  <1> DEFINE new == [gen |-> sequence.gen + 1, shape |-> nal.sps.shape,
                     maxDpbFrames |-> nal.sps.maxDpbFrames]
  <1>1. /\ phase = "begin" /\ current = NoPicture
        /\ nal \in Segment /\ nal.header \in SliceHeader /\ nal.sps \in SpsSet
        /\ activeSps' = nal.sps
        /\ UNCHANGED <<prevTid0, firstInBitstream, firstAfterEos, irapNoRasl, lastHeader,
                       pictures, taken, discarded>>
    BY DEF ApplySps, IInv, TypeOK, HasHeader, Segment
  <1>2. nal.sps # NoSps /\ nal.sps \in SpsInfo
    BY <1>1, SpsThere
  <1>3. new \in [gen : Nat, shape : Nat, maxDpbFrames : Nat]
        /\ new.maxDpbFrames = nal.sps.maxDpbFrames
    <2>1. nal.sps.shape \in Nat /\ nal.sps.maxDpbFrames \in Nat
      BY <1>2 DEF SpsInfo
    <2>2. sequence.gen + 1 \in Nat
      BY Facts
    <2> QED
      BY <2>1, <2>2
  <1>4. \/ SameFormat(nal.sps) /\ Go("derive") /\ UNCHANGED <<dpb, sequence, ready>>
        \/ /\ \E out \in Drained(dpb) : ready' = ready \o out
           /\ dpb' = NoEntries
           /\ \/ sequence' = new /\ Go("derive")
              \/ Fail("va") /\ UNCHANGED sequence
    BY DEF ApplySps
  <1> HIDE DEF new
  <1>5. ASSUME Go("derive"), dpb' \in DpbUpTo(pictures), Within(dpb', sequence'),
               ready' \in Seq(1 .. pictures),
               sequence' \in [gen : Nat, shape : Nat, maxDpbFrames : Nat],
               sequence'.maxDpbFrames = nal.sps.maxDpbFrames
        PROVE  IInv'
    <2>1. phase' = "derive" /\ UNCHANGED <<nal, current, result>>
      BY <1>5 DEF Go
    <2>2. TypeOK'
      BY <1>1, <1>5, <2>1, DpbType DEF IInv, TypeOK
    <2>3. HasHeader' /\ InTheMaking'
      BY <1>1, <1>5, <2>1 DEF HasHeader, InTheMaking
    <2> QED
      BY <1>5, <2>2, <2>3 DEF IInv
  <1>6. ASSUME NEW out \in Drained(dpb), ready' = ready \o out
        PROVE  ready' \in Seq(1 .. pictures)
    <2>1. out \in Seq(1 .. pictures)
      BY Facts, DrainedType
    <2> QED
      BY <1>6, <2>1, Facts
  <1>7. CASE SameFormat(nal.sps) /\ Go("derive") /\ UNCHANGED <<dpb, sequence, ready>>
    <2>1. sequence.maxDpbFrames = nal.sps.maxDpbFrames
      BY <1>7 DEF SameFormat
    <2> QED
      BY <1>5, <1>7, <2>1, Facts
  <1>8. CASE /\ \E out \in Drained(dpb) : ready' = ready \o out
             /\ dpb' = NoEntries
             /\ \/ sequence' = new /\ Go("derive")
                \/ Fail("va") /\ UNCHANGED sequence
    <2>1. /\ ready' \in Seq(1 .. pictures) /\ dpb' \in DpbUpTo(pictures)
          /\ Within(dpb', sequence) /\ Within(dpb', new)
      BY <1>3, <1>6, <1>8, Facts, NoEntriesDpb, NoEntriesWithin
    <2>2. CASE sequence' = new /\ Go("derive")
      BY <1>3, <1>5, <2>1, <2>2
    <2>3. CASE Fail("va") /\ UNCHANGED sequence
      <3>1. "va" \in Results /\ activeSps' \in SpsSet \cup {NoSps}
            /\ prevTid0' \in [lsb : Nat, msb : Int] \cup {NoTid0}
        BY <1>1 DEF Results, IInv, TypeOK
      <3> QED
        BY <1>1, <2>1, <2>3, <3>1, FailIInv
    <2> QED
      BY <1>8, <2>2, <2>3
  <1> QED
    BY <1>4, <1>7, <1>8

\* The order count of a picture, from those before it (8-1).
LEMMA PicOrderCntMsbType ==
  ASSUME NEW s \in Segment, s.header \in SliceHeader,
         prevTid0 \in [lsb : Nat, msb : Int] \cup {NoTid0}
  PROVE  PicOrderCntMsb(s) \in Int
  <1>1. s.header.lsb \in Nat /\ s.sps.maxLsb \in Nat
    BY SpsThere DEF Segment, SliceHeader, SpsInfo
  <1>2. CASE prevTid0 = NoTid0
    BY <1>2 DEF PicOrderCntMsb
  <1>3. CASE prevTid0 \in [lsb : Nat, msb : Int]
    BY <1>1, <1>3 DEF PicOrderCntMsb
  <1> QED
    BY <1>2, <1>3

\* The picture data of a segment (PictureData::new_from_slice).
LEMMA PictureDataType ==
  ASSUME NEW s \in Segment, s.header \in SliceHeader,
         prevTid0 \in [lsb : Nat, msb : Int] \cup {NoTid0},
         firstInBitstream \in BOOLEAN, firstAfterEos \in BOOLEAN
  PROVE  PictureData(s) \in PictureDatum
  <1>1. PicOrderCntMsb(s) \in Int
    BY PicOrderCntMsbType
  <1>2. s.header.lsb \in Nat /\ s.header.output \in BOOLEAN /\ s.type \in NaluTypes
        /\ s.noOutput \in BOOLEAN
    BY DEF Segment, SliceHeader
  <1>3. NoRaslOutput(s) \in BOOLEAN
    BY DEF NoRaslOutput
  <1>4. (s.header.output /\ ~(IsRasl(s.type) /\ NoRaslOutput(s))) \in BOOLEAN
    BY <1>2, <1>3
  <1>5. (s.tid = 0 /\ ~IsRadl(s.type) /\ ~IsRasl(s.type) /\ ~IsSlnr(s.type)) \in BOOLEAN
    BY DEF IsRadl, IsRasl, IsSlnr
  <1>6. (/\ IsIrap(s.type) /\ NoRaslOutput(s) /\ ~firstInBitstream
         /\ s.type = "CRA" \/ s.noOutput) \in BOOLEAN
    BY <1>2, <1>3 DEF IsIrap
  <1> HIDE DEF PicOrderCntMsb, NoRaslOutput, IsRasl, IsRadl, IsSlnr, IsIrap
  <1> QED
    BY <1>1, <1>2, <1>3, <1>4, <1>5, <1>6 DEF PictureData, PictureDatum

\* What the reference picture set names is in the DPB (8-5).
LEMMA SetsInDpb ==
  ASSUME NEW d, NEW s, NEW p, NEW used
  PROVE  LongTermSet(d, s, p, used) \subseteq DOMAIN d /\ ShortTermSet(d, s, p, used) \subseteq DOMAIN d
  <1>1. \A S : First(S) \subseteq S
    BY DEF First
  <1>2. \A poc : FindShortTermRefByPoc(d, poc) \subseteq DOMAIN d
    BY <1>1 DEF FindShortTermRefByPoc
  <1>3. \A lt : FindLongTerm(d, s, p, lt) \subseteq DOMAIN d
    <2>1. \A poc : FindRefByPoc(d, poc) \subseteq DOMAIN d
      BY <1>1 DEF FindRefByPoc, Refs
    <2>2. \A lsb, max : FindRefByPocMasked(d, lsb, max) \subseteq DOMAIN d
      BY <1>1 DEF FindRefByPocMasked, Refs
    <2> HIDE DEF FindRefByPoc, FindRefByPocMasked
    <2> QED
      BY <2>1, <2>2, Zenon DEF FindLongTerm
  <1>4. LongTermSet(d, s, p, used) \subseteq DOMAIN d
    BY <1>3, Zenon DEF LongTermSet
  <1>5. ShortTermSet(d, s, p, used) \subseteq DOMAIN d
    BY <1>2, Zenon DEF ShortTermSet
  <1> QED
    BY <1>4, <1>5

\* derive_rps marks pictures, and leaves each in its place with its surface.
LEMMA DeriveRpsFrom ==
  ASSUME IInv, NEW s, NEW p
  PROVE  /\ DeriveRps(s, p) \in DpbUpTo(pictures)
         /\ From(DeriveRps(s, p), dpb)
         /\ DOMAIN DeriveRps(s, p) = DOMAIN dpb
         /\ DOMAIN BeforeRps(p) = DOMAIN dpb
         /\ DOMAIN LongTermMarked(s, p) = DOMAIN dpb
  <1>1. /\ BeforeRps(p) \in DpbUpTo(pictures)
        /\ From(BeforeRps(p), dpb)
        /\ DOMAIN BeforeRps(p) = DOMAIN dpb
    <2>1. "None" \in Marks /\ From(dpb, dpb)
      BY DEF Marks, From
    <2> QED
      BY <2>1, Facts, SetReferenceFrom DEF BeforeRps, MarkAllAsUnusedForRef
  <1>2. /\ LongTermMarked(s, p) \in DpbUpTo(pictures)
        /\ From(LongTermMarked(s, p), dpb)
        /\ DOMAIN LongTermMarked(s, p) = DOMAIN dpb
    <2>1. "LongTerm" \in Marks
      BY DEF Marks
    <2> QED
      BY <1>1, <2>1, Facts, SetReferenceFrom, FromTransitive DEF LongTermMarked
  <1>3. "None" \in Marks
    BY DEF Marks
  <1> QED
    BY <1>1, <1>2, <1>3, Facts, SetReferenceFrom, FromTransitive DEF DeriveRps

\* A picture that is skipped leaves the DPB alone; one that starts the stream
\* over drains or clears it, and another drops what nothing needs.
LEMMA BeginPictureIInv ==
  ASSUME IInv, BeginPicture
  PROVE  IInv'
  <1> DEFINE p == PictureData(nal)
             left == DeriveRps(nal, p)
             refs == LongTermSet(BeforeRps(p), nal, p, {TRUE})
                        \cup ShortTermSet(LongTermMarked(nal, p), nal, p, {TRUE})
             predicts == /\ p.type # "IDR"
                         /\ \E r \in StSet(nal) \cup nal.header.lt : r.used
             begun == [coded |-> nal.coded, sps |-> nal.sps, pic |-> p, id |-> 0,
                       predicts |-> predicts, refs |-> refs]
  <1>1. /\ phase = "derive" /\ current = NoPicture
        /\ nal \in Segment /\ nal.header \in SliceHeader
        /\ activeSps \in SpsSet /\ activeSps # NoSps
        /\ activeSps.maxDpbFrames = sequence.maxDpbFrames
        /\ prevTid0 \in [lsb : Nat, msb : Int] \cup {NoTid0}
        /\ firstInBitstream \in BOOLEAN /\ firstAfterEos \in BOOLEAN
    BY SpsThere DEF BeginPicture, IInv, TypeOK, HasHeader, InTheMaking
  <1>2. p \in PictureDatum
    BY <1>1, PictureDataType
  <1>3. /\ firstInBitstream' = FALSE /\ firstAfterEos' = FALSE
        /\ irapNoRasl' \in {p.noRasl, irapNoRasl}
        /\ UNCHANGED <<activeSps, sequence, prevTid0, lastHeader, pictures, result, taken>>
        /\ \/ /\ phase' = "next" /\ nal' = NoNal
              /\ UNCHANGED <<dpb, ready, current, discarded>>
           \/ /\ phase' = "room" /\ UNCHANGED nal
              /\ current' = begun
              /\ dpb' \in {NoEntries, RemoveUnused(left)}
              /\ \E out \in Drained(left) \cup {<<>>} : ready' = ready \o out
              /\ discarded' \in {discarded \cup Waiting(left), discarded \cup {}}
    BY ZenonT(60) DEF BeginPicture
  <1>4. /\ left \in DpbUpTo(pictures) /\ From(left, dpb)
        /\ DOMAIN left \subseteq 1 .. pictures
    BY Facts, DpbElim, DeriveRpsFrom
  <1>5. refs \in SUBSET (1 .. pictures)
    <2> HIDE DEF p
    <2>1. /\ DOMAIN BeforeRps(p) = DOMAIN dpb
          /\ DOMAIN LongTermMarked(nal, p) = DOMAIN dpb
      BY DeriveRpsFrom
    <2>2. DOMAIN dpb \subseteq 1 .. pictures
      BY Facts, DpbElim
    <2>3. LongTermSet(BeforeRps(p), nal, p, {TRUE}) \subseteq 1 .. pictures
      BY <2>1, <2>2, SetsInDpb
    <2>4. ShortTermSet(LongTermMarked(nal, p), nal, p, {TRUE}) \subseteq 1 .. pictures
      BY <2>1, <2>2, SetsInDpb
    <2> QED
      BY <2>3, <2>4
  <1>6. predicts \in BOOLEAN
    OBVIOUS
  <1> HIDE DEF p, left, refs, predicts
  <1>7. p.noRasl \in BOOLEAN /\ irapNoRasl' \in BOOLEAN
    BY <1>2, <1>3 DEF PictureDatum, IInv, TypeOK
  <1>8. CASE /\ phase' = "next" /\ nal' = NoNal
             /\ UNCHANGED <<dpb, ready, current, discarded>>
    <2>1. TypeOK'
      BY <1>1, <1>3, <1>7, <1>8 DEF IInv, TypeOK
    <2> QED
      BY <1>1, <1>3, <1>8, <2>1 DEF IInv, HasHeader, InTheMaking, Within
  <1>9. CASE /\ phase' = "room" /\ UNCHANGED nal
             /\ current' = begun
             /\ dpb' \in {NoEntries, RemoveUnused(left)}
             /\ \E out \in Drained(left) \cup {<<>>} : ready' = ready \o out
             /\ discarded' \in {discarded \cup Waiting(left), discarded \cup {}}
    <2>1. dpb' \in DpbUpTo(pictures) /\ Within(dpb', sequence)
      <3>1. /\ RemoveUnused(left) \in DpbUpTo(pictures)
            /\ Within(RemoveUnused(left), sequence)
        BY <1>4, Facts, RemoveUnusedFrom, FromTransitive, WithinFrom
      <3> QED
        BY <1>9, <3>1, Facts, NoEntriesDpb, NoEntriesWithin
    <2>2. ready' \in Seq(1 .. pictures)
      <3>1. PICK out \in Drained(left) \cup {<<>>} : ready' = ready \o out
        BY <1>9
      <3>2. out \in Drained(left) => out \in Seq(1 .. pictures)
        BY <1>4, Facts, DrainedType
      <3>3. <<>> \in Seq(1 .. pictures)
        OBVIOUS
      <3>4. out \in Seq(1 .. pictures)
        BY <3>1, <3>2, <3>3, Zenon
      <3> QED
        BY <3>1, <3>4, Facts
    <2>3. discarded' \subseteq 1 .. pictures
      BY <1>4, <1>9 DEF Waiting, IInv, TypeOK
    <2>4. /\ current' \in [coded : Nat, sps : SpsSet, pic : PictureDatum, id : 0 .. pictures,
                           predicts : BOOLEAN, refs : SUBSET (1 .. pictures)]
          /\ current' # NoPicture
      <3>1. nal.coded \in Nat /\ nal.sps \in SpsSet
        BY <1>1 DEF Segment
      <3>2. 0 \in 0 .. pictures
        BY Facts
      <3>3. current' = begun
        BY <1>9
      <3> QED
        BY <1>2, <1>5, <1>6, <3>1, <3>2, <3>3 DEF NoPicture
    <2>5. TypeOK'
      BY <1>1, <1>3, <1>7, <1>9, <2>1, <2>2, <2>3, <2>4, DpbType DEF IInv, TypeOK
    <2>6. HasHeader' /\ InTheMaking'
      BY <1>1, <1>3, <1>9 DEF HasHeader, InTheMaking
    <2> QED
      BY <1>3, <2>1, <2>5, <2>6 DEF IInv
  <1> QED
    BY <1>3, <1>8, <1>9

\* Where only the DPB and the queue changed, they are what the invariant is about.
LEMMA OutputIInv ==
  ASSUME IInv, dpb' \in DpbUpTo(pictures), Within(dpb', sequence), ready' \in Seq(1 .. pictures),
         UNCHANGED <<stream, phase, nal, current, pictures, result, taken, discarded>>
  PROVE  IInv'
  <1>1. TypeOK'
    BY DpbType DEF IInv, TypeOK, stream
  <1> QED
    BY <1>1 DEF IInv, HasHeader, InTheMaking, stream

\* A round of either bumping loop lets one picture out.
LEMMA BumpedIInv ==
  ASSUME IInv, NEW i \in LowestForBumping(dpb),
         dpb' = Bump(dpb, {i}, FALSE), ready' = Append(ready, i),
         UNCHANGED <<stream, phase, nal, current, pictures, result, taken, discarded>>
  PROVE  IInv'
  <1>1. i \in 1 .. pictures
    BY Facts, DpbElim DEF LowestForBumping, First
  <1>2. dpb' \in DpbUpTo(pictures) /\ Within(dpb', sequence)
    BY Facts, BumpFrom, WithinFrom
  <1>3. ready' \in Seq(1 .. pictures)
    BY <1>1, Facts
  <1> QED
    BY <1>2, <1>3, OutputIInv

\* The picture gets its number once the driver has a surface for it.
LEMMA StartPictureIInv ==
  ASSUME IInv, NEW allocated \in BOOLEAN, StartPicture(allocated)
  PROVE  IInv'
  <1>1. /\ phase = "room" /\ nal \in Segment /\ nal.header \in SliceHeader
        /\ current # NoPicture
        /\ current \in [coded : Nat, sps : SpsSet, pic : PictureDatum, id : 0 .. pictures,
                        predicts : BOOLEAN, refs : SUBSET (1 .. pictures)]
        /\ activeSps \in SpsSet /\ activeSps.maxDpbFrames = sequence.maxDpbFrames
        /\ activeSps # NoSps
        /\ UNCHANGED <<dpb, stream, ready, taken, discarded>>
    BY DEF StartPicture, IInv, TypeOK, HasHeader, InTheMaking
  <1>2. CASE Fail("va") /\ UNCHANGED pictures
    <2>1. "va" \in Results
      BY DEF Results
    <2> QED
      BY <1>1, <1>2, <2>1, FailUnchanged
  <1>3. CASE /\ pictures' = pictures + 1
             /\ current' = [current EXCEPT !.id = pictures + 1]
             /\ phase' = "slice"
             /\ UNCHANGED <<nal, result>>
    <2>1. pictures' \in Nat /\ pictures' \in 1 .. pictures'
      BY <1>3, Facts
    <2>2. /\ dpb' \in DpbUpTo(pictures') /\ ready' \in Seq(1 .. pictures')
          /\ taken' \in Seq(1 .. pictures') /\ discarded' \subseteq 1 .. pictures'
      <3>1. taken \in Seq(1 .. pictures) /\ discarded \in SUBSET (1 .. pictures)
        BY DEF IInv, TypeOK
      <3> QED
        BY <1>1, <1>3, <3>1, Facts, MorePictures
    <2>3. /\ current' \in [coded : Nat, sps : SpsSet, pic : PictureDatum, id : 0 .. pictures',
                           predicts : BOOLEAN, refs : SUBSET (1 .. pictures')]
          /\ current'.id \in 1 .. pictures'
          /\ current' # NoPicture
      <3>1. current.refs \in SUBSET (1 .. pictures')
        BY <1>1, <1>3, Facts
      <3> QED
        BY <1>1, <1>3, <2>1, <3>1 DEF NoPicture
    <2>4. TypeOK'
      BY <1>1, <1>3, <2>1, <2>2, <2>3, DpbType DEF IInv, TypeOK, stream
    <2>5. HasHeader' /\ InTheMaking'
      BY <1>1, <1>3, <2>3 DEF HasHeader, InTheMaking, stream
    <2> QED
      BY <1>1, <2>4, <2>5 DEF IInv, Within, stream
  <1> QED
    BY <1>2, <1>3 DEF StartPicture

-----------------------------------------------------------------------------
(* decode_slice and finish_picture *)

\* A slice is taken, or fails the call and the picture with it.
LEMMA DecodeSliceIInv ==
  ASSUME IInv, NEW accepted \in BOOLEAN, DecodeSlice(accepted)
  PROVE  IInv'
  <1>1. /\ phase = "slice" /\ current # NoPicture
        /\ UNCHANGED <<dpb, stream, ready, pictures, taken, discarded>>
        /\ \/ phase' = "next" /\ nal' = NoNal /\ UNCHANGED <<current, result>>
           \/ Fail("slice")
    BY DEF DecodeSlice, IInv, TypeOK
  <1>2. CASE Fail("slice")
    <2>1. "slice" \in Results
      BY DEF Results
    <2> QED
      BY <1>1, <1>2, <2>1, FailUnchanged
  <1>3. CASE phase' = "next" /\ nal' = NoNal /\ UNCHANGED <<current, result>>
    <2>1. TypeOK'
      BY <1>1, <1>3 DEF IInv, TypeOK, stream
    <2> QED
      BY <1>1, <1>3, <2>1 DEF IInv, HasHeader, InTheMaking, Within, stream
  <1> QED
    BY <1>1, <1>2, <1>3

\* The decoded picture is stored where the limit allows, which is that of the
\* sequence its surface is from.
LEMMA RunPictureIInv ==
  ASSUME IInv, NEW decoded \in BOOLEAN, RunPicture(decoded)
  PROVE  IInv'
  <1>1. /\ phase = "finish" /\ current # NoPicture
        /\ current.id \in 1 .. pictures /\ current.pic \in PictureDatum
        /\ activeSps \in SpsSet /\ activeSps.maxDpbFrames = sequence.maxDpbFrames
        /\ UNCHANGED <<activeSps, sequence, firstInBitstream, firstAfterEos, irapNoRasl,
                       lastHeader, ready, pictures, taken, discarded>>
    BY DEF RunPicture, IInv, TypeOK, InTheMaking
  <1>2. /\ current.pic.lsb \in Nat /\ current.pic.msb \in Int
        /\ activeSps' \in SpsSet \cup {NoSps} /\ ready' \in Seq(1 .. pictures)
        /\ prevTid0 \in [lsb : Nat, msb : Int] \cup {NoTid0}
        /\ "va" \in Results /\ "full" \in Results
    BY <1>1, Facts DEF PictureDatum, Results, IInv, TypeOK
  <1>3. /\ prevTid0' \in {prevTid0, [lsb |-> current.pic.lsb, msb |-> current.pic.msb]}
        /\ \/ /\ Cardinality(DOMAIN dpb) < activeSps.maxDpbFrames
              /\ dpb' = Store(dpb, current.id, current.pic, sequence.gen)
              /\ Go("output")
           \/ Fail("full") /\ UNCHANGED dpb
           \/ Fail("va") /\ UNCHANGED dpb
    BY DEF RunPicture
  <1>4. prevTid0' \in [lsb : Nat, msb : Int] \cup {NoTid0}
    BY <1>2, <1>3
  <1>5. CASE (Fail("full") \/ Fail("va")) /\ UNCHANGED dpb
    <2>1. dpb' \in DpbUpTo(pictures) /\ Within(dpb', sequence)
      BY <1>5, Facts
    <2> QED
      BY <1>1, <1>2, <1>4, <1>5, <2>1, FailIInv
  <1>6. CASE /\ Cardinality(DOMAIN dpb) < activeSps.maxDpbFrames
             /\ dpb' = Store(dpb, current.id, current.pic, sequence.gen)
             /\ Go("output")
    <2>1. dpb' \in DpbUpTo(pictures) /\ Within(dpb', sequence)
      BY <1>1, <1>6, Facts, StoreWithin
    <2>2. phase' = "output" /\ UNCHANGED <<nal, current, result>>
      BY <1>6 DEF Go
    <2>3. TypeOK'
      BY <1>1, <1>4, <2>1, <2>2, DpbType DEF IInv, TypeOK
    <2>4. HasHeader' /\ InTheMaking'
      BY <1>1, <2>2 DEF IInv, HasHeader, InTheMaking, IsEnd
    <2> QED
      BY <1>1, <2>1, <2>3, <2>4 DEF IInv
  <1> QED
    BY <1>3, <1>5, <1>6

\* finish_picture returns: no picture is in flight.
LEMMA FinishPictureIInv ==
  ASSUME IInv, FinishPicture
  PROVE  IInv'
  <1>1. /\ phase = "output" /\ current' = NoPicture
        /\ nal \in Segment \cup [end : Ends]
        /\ IsEnd(nal) \/ nal.header \in SliceHeader
        /\ phase' = IF IsEnd(nal) THEN "unit" ELSE "begin"
        /\ UNCHANGED <<dpb, stream, ready, nal, pictures, result, taken, discarded>>
    BY DEF FinishPicture, IInv, TypeOK, HasHeader
  <1>2. CASE IsEnd(nal)
    <2>1. nal \in [end : Ends]
      BY <1>1, <1>2 DEF IsEnd, Segment
    <2>2. TypeOK'
      BY <1>1, <1>2, <2>1 DEF IInv, TypeOK, stream
    <2> QED
      BY <1>1, <1>2, <2>2 DEF IInv, HasHeader, InTheMaking, Within, stream
  <1>3. CASE ~IsEnd(nal)
    <2>1. nal \in Segment
      BY <1>1, <1>3 DEF IsEnd, NoNal
    <2>2. TypeOK'
      BY <1>1, <1>3, <2>1 DEF IInv, TypeOK, stream
    <2> QED
      BY <1>1, <1>3, <2>2 DEF IInv, HasHeader, InTheMaking, Within, stream
  <1> QED
    BY <1>2, <1>3

-----------------------------------------------------------------------------
(* The rest of the public calls, and the theorems *)

\* flush drains the DPB.
LEMMA ResetIInv ==
  ASSUME IInv, Reset
  PROVE  IInv'
  <1>1. /\ phase = "idle" /\ phase' = "ready" /\ current = NoPicture /\ nal = NoNal
        /\ dpb' = NoEntries /\ prevTid0' = NoTid0 /\ firstAfterEos' = TRUE
        /\ lastHeader' = NoHeader /\ result' = "ok"
        /\ UNCHANGED <<activeSps, sequence, firstInBitstream, irapNoRasl, nal, current, pictures,
                       taken, discarded>>
    BY DEF Reset, IInv, TypeOK
  <1>2. dpb' \in DpbUpTo(pictures) /\ Within(dpb', sequence)
    BY <1>1, Facts, NoEntriesDpb, NoEntriesWithin
  <1>3. ready' \in Seq(1 .. pictures)
    <2>1. PICK out \in Drained(dpb) : ready' = ready \o out
      BY DEF Reset
    <2>2. out \in Seq(1 .. pictures)
      BY Facts, DrainedType
    <2> QED
      BY <2>1, <2>2, Facts
  <1>4. TypeOK'
    BY <1>1, <1>2, <1>3, DpbType DEF IInv, TypeOK
  <1> QED
    BY <1>1, <1>2, <1>4 DEF IInv, HasHeader, InTheMaking

\* Taking the queue leaves the DPB alone.
LEMMA TakeFramesIInv ==
  ASSUME IInv, TakeFrames
  PROVE  IInv'
  <1>1. /\ phase = "ready" /\ phase' = "idle" /\ current = NoPicture
        /\ ready' = <<>> /\ taken' = taken \o ready
        /\ UNCHANGED <<dpb, stream, nal, current, pictures, result, discarded>>
    BY DEF TakeFrames, IInv, TypeOK
  <1>2. ready' \in Seq(1 .. pictures) /\ taken' \in Seq(1 .. pictures)
    <2>1. taken \in Seq(1 .. pictures)
      BY DEF IInv, TypeOK
    <2> QED
      BY <1>1, <2>1, Facts
  <1>3. TypeOK'
    BY <1>1, <1>2 DEF IInv, TypeOK, stream
  <1> QED
    BY <1>1, <1>3 DEF IInv, HasHeader, InTheMaking, Within, stream

\* Every step of the decoder keeps the invariant.
LEMMA NextIInv == IInv /\ [Next]_vars => IInv'
  <1> SUFFICES ASSUME IInv, [Next]_vars PROVE IInv'
    OBVIOUS
  <1>0. "parse" \in Results /\ "sps" \in Results
    BY DEF Results
  <1>1. ASSUME NEW s \in CodedSegment, SubmitSlice(s) PROVE IInv'
    BY <1>1, SubmitSliceIInv
  <1>2. ASSUME NEW end \in Ends, SubmitEnd(end) PROVE IInv'
    BY <1>2, SubmitEndIInv
  <1>3. CASE RefuseUnit
    BY <1>0, <1>3, FailUnchanged DEF RefuseUnit
  <1>4. CASE EndUnit
    BY <1>4, EndUnitIInv
  <1>5. CASE RefuseSps
    BY <1>0, <1>5, FailUnchanged DEF RefuseSps
  <1>6. ASSUME NEW built \in BOOLEAN, ApplySps(built) PROVE IInv'
    BY <1>6, ApplySpsIInv
  <1>7. CASE BeginPicture
    BY <1>7, BeginPictureIInv
  <1>8. CASE MakeRoom
    BY <1>8, BumpedIInv DEF MakeRoom
  <1>9. ASSUME NEW allocated \in BOOLEAN, StartPicture(allocated) PROVE IInv'
    BY <1>9, StartPictureIInv
  <1>10. ASSUME NEW accepted \in BOOLEAN, DecodeSlice(accepted) PROVE IInv'
    BY <1>10, DecodeSliceIInv
  <1>11. ASSUME NEW decoded \in BOOLEAN, RunPicture(decoded) PROVE IInv'
    BY <1>11, RunPictureIInv
  <1>12. CASE OutputPicture
    BY <1>12, BumpedIInv DEF OutputPicture
  <1>13. CASE FinishPicture
    BY <1>13, FinishPictureIInv
  <1>14. CASE TakeFrames
    BY <1>14, TakeFramesIInv
  <1>15. CASE Reset
    BY <1>15, ResetIInv
  <1>16. CASE UNCHANGED vars
    BY <1>16 DEF vars, stream, IInv, TypeOK, HasHeader, InTheMaking, Within
  <1> QED
    BY <1>1, <1>2, <1>3, <1>4, <1>5, <1>6, <1>7, <1>8, <1>9, <1>10, <1>11, <1>12, <1>13, <1>14,
       <1>15, <1>16 DEF Next, Step

\* The invariant holds in every behaviour, of any stream.
THEOREM Inductive == Spec => []IInv
  BY InitIInv, NextIInv, PTL DEF Spec

\* Type correctness: in each phase of a call the decoder has the segment, the
\* picture and the sets that phase needs, after any sequence of failed calls.
THEOREM TypeCorrect == Spec => []TypeOK
  <1>1. IInv => TypeOK
    BY DEF IInv
  <1> QED
    BY <1>1, Inductive, PTL

\* The DPB holds surfaces of the active sequence only, and no more of them than
\* that sequence was built for (apply_sps, finish_picture).
THEOREM SequenceKept == Spec => []DpbWithinSequence
  <1>1. IInv => DpbWithinSequence
    BY DEF IInv, Within, DpbWithinSequence
  <1> QED
    BY <1>1, Inductive, PTL

-----------------------------------------------------------------------------
(* The output, where BumpFindsWaiting holds *)

\* What was proved of the output of any decoder that keeps the promise.
Promise == INSTANCE OutputReorderProofs WITH
    number  <- IF phase = "finish" THEN current.id ELSE 0,
    count   <- IF phase = "finish" THEN current.pic.poc ELSE 0,
    waiting <- WaitingCounts(dpb),
    out     <- taken \o ready

\* e has the pictures of d, each waiting as it did.
AsItWaited(e, d) ==
    /\ DOMAIN e = DOMAIN d
    /\ \A i \in DOMAIN d : e[i].needed = d[i].needed /\ e[i].poc = d[i].poc

\* Marking does not touch what waits, nor the order counts (derive_rps).
LEMMA SetReferenceWaits ==
  ASSUME NEW n \in Nat, NEW d \in DpbUpTo(n), NEW S, NEW ref
  PROVE  AsItWaited(SetReference(d, S, ref), d)
  <1>1. \A i \in DOMAIN d : d[i] \in Entry
    BY DpbElim
  <1>2. \A i \in DOMAIN d : LET r == [d[i] EXCEPT !.ref = ref]
                            IN  r.needed = d[i].needed /\ r.poc = d[i].poc
    BY <1>1 DEF Entry
  <1> QED
    BY <1>2 DEF SetReference, AsItWaited

LEMMA DeriveRpsWaits ==
  ASSUME IInv, NEW s, NEW p
  PROVE  AsItWaited(DeriveRps(s, p), dpb)
  <1>1. BeforeRps(p) \in DpbUpTo(pictures) /\ AsItWaited(BeforeRps(p), dpb)
    <2>1. "None" \in Marks /\ AsItWaited(dpb, dpb)
      BY DEF Marks, AsItWaited
    <2> QED
      BY <2>1, Facts, SetReferenceFrom, SetReferenceWaits DEF BeforeRps, MarkAllAsUnusedForRef
  <1>2. LongTermMarked(s, p) \in DpbUpTo(pictures) /\ AsItWaited(LongTermMarked(s, p), BeforeRps(p))
    <2>1. "LongTerm" \in Marks
      BY DEF Marks
    <2> QED
      BY <1>1, <2>1, Facts, SetReferenceFrom, SetReferenceWaits DEF LongTermMarked
  <1>3. AsItWaited(DeriveRps(s, p), LongTermMarked(s, p))
    BY <1>2, Facts, SetReferenceWaits DEF DeriveRps
  <1> QED
    BY <1>1, <1>2, <1>3 DEF AsItWaited

\* What waits is what a DPB says waits.
LEMMA SameWaiting ==
  ASSUME NEW d, NEW e, AsItWaited(e, d)
  PROVE  /\ Waiting(e) = Waiting(d)
         /\ WaitingCounts(e) = WaitingCounts(d)
         /\ CountsApart(d) => CountsApart(e)
  <1>1. Waiting(e) = Waiting(d) /\ \A i \in Waiting(d) : i \in DOMAIN d
    BY DEF AsItWaited, Waiting
  <1>2. WaitingCounts(e) = WaitingCounts(d)
    BY <1>1 DEF AsItWaited, WaitingCounts
  <1>3. CountsApart(d) => CountsApart(e)
    BY <1>1 DEF AsItWaited, CountsApart
  <1> QED
    BY <1>1, <1>2, <1>3

\* remove_unused removes none that waits.
LEMMA RemoveUnusedWaits ==
  ASSUME NEW d
  PROVE  WaitingCounts(RemoveUnused(d)) = WaitingCounts(d)
  <1> DEFINE u == RemoveUnused(d)
  <1>1. /\ DOMAIN u = Refs(d) \cup Waiting(d)
        /\ \A i \in DOMAIN u : u[i] = d[i]
    BY DEF RemoveUnused, Restrict, Refs, Waiting
  <1> HIDE DEF u
  <1>2. Waiting(u) = Waiting(d) /\ \A i \in Waiting(d) : u[i].poc = d[i].poc
    BY <1>1 DEF Waiting, Refs
  <1> QED
    BY <1>2 DEF WaitingCounts, u

\* Of entries whose counts are apart, drain() takes those that wait, and
\* bump() one that comes before all others.
LEMMA DrainTakesWaiting ==
  ASSUME NEW n \in Nat, NEW d \in DpbUpTo(n), CountsApart(d)
  PROVE  DrainTakes(d) = Waiting(d)
  <1>1. \A i \in DOMAIN d : i \in Int
    BY DpbElim
  <1> QED
    BY <1>1 DEF DrainTakes, Waiting, CountsApart

LEMMA LowestWaits ==
  ASSUME NEW d, CountsApart(d), NEW i \in LowestForBumping(d)
  PROVE  i \in Waiting(d) /\ \A k \in Waiting(d) : d[i].poc <= d[k].poc
  <1>1. PICK j \in Waiting(d) : d[i].poc = d[j].poc /\ \A k \in Waiting(d) : d[j].poc <= d[k].poc
    BY DEF LowestForBumping, First
  <1>2. i \in DOMAIN d
    BY DEF LowestForBumping, First
  <1> QED
    BY <1>1, <1>2 DEF CountsApart

\* The counts of the pictures that stay.
Staying(d, S) == [i \in Waiting(d) \ S |-> d[i].poc]

\* One sequence after another: what is taken later follows what was taken
\* before, however the queue was cut into calls.
Then(a, b) == a \o b

LEMMA ThenAssociative ==
  ASSUME NEW U, NEW a \in Seq(U), NEW b \in Seq(U), NEW c \in Seq(U)
  PROVE  Then(a, Then(b, c)) = Then(Then(a, b), c)
  BY DEF Then

\* Pictures leave: a step of the abstract specification.
LEMMA ReleaseStep ==
  ASSUME NEW T, taken \in Seq(T), ready \in Seq(T),
         NEW S \in Reorder!Due, NEW s \in Reorder!Orders(S), s \in Seq(T),
         WaitingCounts(dpb') = Staying(dpb, S),
         ready' = ready \o s, taken' = taken, discarded' = discarded
  PROVE  Reorder!Next
  <1>1. taken' \o ready' = (taken \o ready) \o s
    <2>1. Then(taken, Then(ready, s)) = Then(Then(taken, ready), s)
      BY ThenAssociative
    <2>2. taken' = taken /\ ready' = Then(ready, s)
      BY DEF Then
    <2>3. Then(taken', ready') = Then(Then(taken, ready), s)
      BY <2>1, <2>2, Zenon
    <2> QED
      BY <2>3 DEF Then
  <1>2. Reorder!Stay(S) = Staying(dpb, S)
    BY DEF Reorder!Stay, WaitingCounts, Staying
  <1>3. Reorder!Release(S, s)
    BY <1>1, <1>2 DEF Reorder!Release, WaitingCounts
  <1> QED
    BY <1>3 DEF Reorder!Next

\* Nothing of the output changes.
LEMMA StutterStep ==
  ASSUME WaitingCounts(dpb') = WaitingCounts(dpb),
         taken' \o ready' = taken \o ready, discarded' = discarded
  PROVE  UNCHANGED Reorder!vars
  BY DEF Reorder!vars, WaitingCounts

\* A round of a bumping loop lets out the picture that is due.
LEMMA BumpedStep ==
  ASSUME IInv, CountsApart(dpb), NEW i \in LowestForBumping(dpb),
         dpb' = Bump(dpb, {i}, FALSE), ready' = Append(ready, i),
         taken' = taken, discarded' = discarded
  PROVE  Reorder!Next
  <1> DEFINE w == WaitingCounts(dpb)
             S == {i}
             s == <<i>>
  <1>1. /\ i \in Waiting(dpb) /\ i \in 1 .. pictures
        /\ \A k \in Waiting(dpb) : dpb[i].poc <= dpb[k].poc
        /\ \A k \in Waiting(dpb) : dpb[i].poc = dpb[k].poc => k = i
    <2>1. /\ i \in Waiting(dpb)
          /\ \A k \in Waiting(dpb) : dpb[i].poc <= dpb[k].poc
      BY LowestWaits
    <2>2. Waiting(dpb) \subseteq DOMAIN dpb /\ DOMAIN dpb \subseteq 1 .. pictures
      BY Facts, DpbElim DEF Waiting
    <2> QED
      BY <2>1, <2>2 DEF CountsApart
  <1>2. DOMAIN w = Waiting(dpb) /\ \A k \in Waiting(dpb) : w[k] = dpb[k].poc /\ w[k] \in Int
    BY Facts, DpbElim DEF WaitingCounts, Waiting, Entry
  <1> HIDE DEF w
  <1>3. S \in Reorder!Due
    <2>1. S \in SUBSET DOMAIN w
      BY <1>1, <1>2
    <2>2. ASSUME NEW k \in DOMAIN w \ S PROVE w[i] < w[k]
      <3>1. k \in Waiting(dpb) /\ k # i
        BY <1>2
      <3>2. dpb[i].poc <= dpb[k].poc /\ dpb[i].poc # dpb[k].poc
        BY <1>1, <3>1
      <3>3. w[i] = dpb[i].poc /\ w[k] = dpb[k].poc /\ w[i] \in Int /\ w[k] \in Int
        BY <1>1, <1>2, <3>1
      <3> HIDE DEF S, s
      <3> QED
        BY <3>2, <3>3
    <2>3. \A l \in S : l = i
      OBVIOUS
    <2> HIDE DEF S
    <2> QED
      BY <2>1, <2>2, <2>3, Zenon DEF Reorder!Due, Reorder!Before, w
  <1>4. s \in Reorder!Orders(S)
    <2>1. Reorder!Cardinality(S) = Cardinality(S) /\ Cardinality(S) = 1
      BY FS_Singleton DEF Cardinality, Reorder!Cardinality
    <2>2. s \in [1 .. 1 -> S] /\ \A m, n \in 1 .. 1 : ~(m < n)
      OBVIOUS
    <2> QED
      BY <2>1, <2>2 DEF Reorder!Orders
  <1>5. WaitingCounts(dpb') = Staying(dpb, S)
    <2> DEFINE output == [k \in DOMAIN dpb |-> [dpb[k] EXCEPT !.needed = @ /\ k \notin {i}]]
               kept   == {k \in DOMAIN dpb : k \notin {i} \/ (IsRef(dpb[k]) /\ ~FALSE)}
    <2>1. \A k \in DOMAIN dpb : dpb[k] \in Entry
      BY Facts, DpbElim
    <2>2. \A k \in DOMAIN dpb : \A b \in BOOLEAN :
             LET f == [dpb[k] EXCEPT !.needed = b] IN f.needed = b /\ f.poc = dpb[k].poc
      BY <2>1 DEF Entry
    <2>3. \A k \in DOMAIN dpb : (dpb[k].needed /\ k \notin {i}) \in BOOLEAN
      OBVIOUS
    <2>4. /\ DOMAIN output = DOMAIN dpb
          /\ \A k \in DOMAIN dpb : /\ output[k].needed = (dpb[k].needed /\ k \notin {i})
                                   /\ output[k].poc = dpb[k].poc
      BY <2>2, <2>3
    <2>5. dpb' = Restrict(output, kept)
      BY DEF Bump
    <2> HIDE DEF output
    <2>6. DOMAIN dpb' = kept /\ \A k \in kept : dpb'[k] = output[k]
      BY <2>5 DEF Restrict
    <2>7. Waiting(dpb') = Waiting(dpb) \ {i}
      BY <2>4, <2>6 DEF Waiting
    <2>8. \A k \in Waiting(dpb') : dpb'[k].poc = dpb[k].poc
      BY <2>4, <2>6 DEF Waiting
    <2> QED
      BY <2>7, <2>8 DEF WaitingCounts, Staying
  <1>6. s \in Seq(1 .. pictures) /\ ready' = ready \o s /\ taken \in Seq(1 .. pictures)
    <2>1. taken \in Seq(1 .. pictures)
      BY DEF IInv, TypeOK
    <2> QED
      BY <1>1, <2>1, Facts
  <1> HIDE DEF S, s
  <1> QED
    BY <1>3, <1>4, <1>5, <1>6, Facts, ReleaseStep

\* Everything that waits may leave: nothing stays that could be overtaken.
LEMMA DrainStep ==
  ASSUME IInv, CountsApart(dpb), NEW d \in DpbUpTo(pictures), AsItWaited(d, dpb),
         NEW out \in Drained(d), Waiting(dpb') = {},
         ready' = ready \o out, taken' = taken, discarded' = discarded
  PROVE  Reorder!Next
  <1> DEFINE w == WaitingCounts(dpb)
             S == Waiting(dpb)
  <1>1. DrainTakes(d) = S /\ \A i \in S : d[i].poc = dpb[i].poc
    <2>1. CountsApart(d) /\ Waiting(d) = S
      BY SameWaiting
    <2> QED
      BY <2>1, Facts, DrainTakesWaiting DEF AsItWaited, Waiting
  <1>2. DOMAIN w = S /\ \A i \in S : w[i] = dpb[i].poc
    BY DEF WaitingCounts
  <1>3. /\ out \in [1 .. Cardinality(S) -> S]
        /\ \A m, k \in 1 .. Cardinality(S) : m < k =>
              \/ d[out[m]].poc < d[out[k]].poc
              \/ d[out[m]].poc = d[out[k]].poc /\ out[m] < out[k]
    BY <1>1 DEF Drained
  <1>4. Reorder!Cardinality(S) = Cardinality(S)
    BY DEF Cardinality, Reorder!Cardinality
  <1> HIDE DEF w, S
  <1>5. S \in Reorder!Due
    BY <1>2 DEF Reorder!Due, w
  <1>6. out \in Reorder!Orders(S)
    BY <1>1, <1>2, <1>3, <1>4 DEF Reorder!Orders, Reorder!Before, w
  <1>7. out \in Seq(1 .. pictures) /\ taken \in Seq(1 .. pictures)
    <2>1. out \in Seq(1 .. pictures)
      BY Facts, DrainedType
    <2>2. taken \in Seq(1 .. pictures)
      BY DEF IInv, TypeOK
    <2> QED
      BY <2>1, <2>2
  <1>8. WaitingCounts(dpb') = Staying(dpb, S)
    BY DEF WaitingCounts, Staying, S
  <1> QED
    BY <1>5, <1>6, <1>7, <1>8, Facts, ReleaseStep

\* The number of the picture in flight is new: no picture that is in the DPB,
\* was handed out or dropped has it.
NewNumber ==
    current # NoPicture /\ phase \notin {"room", "output"} =>
        /\ current.id = pictures
        /\ dpb \in DpbUpTo(pictures - 1)
        /\ ready \in Seq(1 .. pictures - 1)
        /\ taken \in Seq(1 .. pictures - 1)
        /\ discarded \subseteq 1 .. pictures - 1

\* Begun, stored or dropped, a picture has no new number to keep.
LEMMA NoNumber ==
  ASSUME current' = NoPicture \/ phase' \in {"room", "output"}
  PROVE  NewNumber'
  BY DEF NewNumber

\* A number stays new until its picture is stored.
LEMMA SameNumber ==
  ASSUME IInv, NewNumber, phase \in {"idle", "next", "slice"},
         UNCHANGED <<current, dpb, ready, taken, discarded, pictures>>
  PROVE  NewNumber'
  <1>1. current # NoPicture => phase \notin {"room", "output"}
    OBVIOUS
  <1> QED
    BY <1>1 DEF NewNumber

LEMMA NextNumber ==
  ASSUME IInv, NewNumber, [Next]_vars
  PROVE  NewNumber'
  <1>1. ASSUME NEW s \in CodedSegment, SubmitSlice(s) PROVE NewNumber'
    <2>1. /\ phase \in {"idle", "next"}
          /\ UNCHANGED <<dpb, ready, taken, discarded, pictures>>
          /\ current' = NoPicture \/ current' = current
      BY <1>1 DEF SubmitSlice, Fail
    <2> QED
      BY <2>1, NoNumber, SameNumber
  <1>2. ASSUME NEW end \in Ends, SubmitEnd(end) PROVE NewNumber'
    BY <1>2, SameNumber DEF SubmitEnd
  <1>3. CASE RefuseUnit
    BY <1>3, NoNumber DEF RefuseUnit, Fail
  <1>4. CASE EndUnit
    BY <1>4, NoNumber DEF EndUnit, IInv, TypeOK
  <1>5. CASE RefuseSps
    BY <1>5, NoNumber DEF RefuseSps, Fail
  <1>6. ASSUME NEW built \in BOOLEAN, ApplySps(built) PROVE NewNumber'
    <2>1. phase = "begin" /\ current = NoPicture
      BY <1>6 DEF ApplySps, IInv, TypeOK
    <2>2. current' = NoPicture
      BY <1>6, <2>1 DEF ApplySps, Go, Fail
    <2> QED
      BY <2>2, NoNumber
  <1>7. CASE BeginPicture
    <2>1. current = NoPicture
      BY <1>7 DEF BeginPicture, IInv, TypeOK
    <2>2. current' = NoPicture \/ phase' = "room"
      BY <1>7, <2>1 DEF BeginPicture
    <2> QED
      BY <2>2, NoNumber
  <1>8. CASE MakeRoom
    BY <1>8, NoNumber DEF MakeRoom
  <1>9. ASSUME NEW allocated \in BOOLEAN, StartPicture(allocated) PROVE NewNumber'
    <2>1. CASE Fail("va")
      BY <2>1, NoNumber DEF Fail
    <2>2. CASE /\ pictures' = pictures + 1
               /\ current' = [current EXCEPT !.id = pictures + 1]
               /\ UNCHANGED <<dpb, ready, taken, discarded>>
      <3>1. pictures' - 1 = pictures
        BY <2>2, Facts
      <3>2. current'.id = pictures'
        <4>1. phase = "room"
          BY <1>9 DEF StartPicture
        <4>2. current # NoPicture
          BY <4>1 DEF IInv, TypeOK
        <4>3. current \in [coded : Nat, sps : SpsSet, pic : PictureDatum, id : 0 .. pictures,
                           predicts : BOOLEAN, refs : SUBSET (1 .. pictures)]
          BY <4>2 DEF IInv, TypeOK
        <4> QED
          BY <2>2, <4>3
      <3>3. dpb' \in DpbUpTo(pictures) /\ ready' \in Seq(1 .. pictures)
            /\ taken' \in Seq(1 .. pictures) /\ discarded' \subseteq 1 .. pictures
        <4>1. taken \in Seq(1 .. pictures) /\ discarded \subseteq 1 .. pictures
          BY DEF IInv, TypeOK
        <4> QED
          BY <2>2, <4>1, Facts
      <3> QED
        BY <3>1, <3>2, <3>3 DEF NewNumber
    <2> QED
      BY <1>9, <2>1, <2>2 DEF StartPicture
  <1>10. ASSUME NEW accepted \in BOOLEAN, DecodeSlice(accepted) PROVE NewNumber'
    <2>1. /\ phase = "slice"
          /\ UNCHANGED <<dpb, ready, taken, discarded, pictures>>
          /\ current' = NoPicture \/ current' = current
      BY <1>10 DEF DecodeSlice, Fail
    <2> QED
      BY <2>1, NoNumber, SameNumber
  <1>11. ASSUME NEW decoded \in BOOLEAN, RunPicture(decoded) PROVE NewNumber'
    <2>1. current' = NoPicture \/ phase' = "output"
      BY <1>11 DEF RunPicture, Go, Fail
    <2> QED
      BY <2>1, NoNumber
  <1>12. CASE OutputPicture
    BY <1>12, NoNumber DEF OutputPicture
  <1>13. CASE FinishPicture
    BY <1>13, NoNumber DEF FinishPicture
  <1>14. CASE TakeFrames
    BY <1>14, NoNumber DEF TakeFrames, IInv, TypeOK
  <1>15. CASE Reset
    BY <1>15, NoNumber DEF Reset, IInv, TypeOK
  <1>16. CASE UNCHANGED vars
    BY <1>16 DEF vars, NewNumber
  <1> QED
    BY <1>1, <1>2, <1>3, <1>4, <1>5, <1>6, <1>7, <1>8, <1>9, <1>10, <1>11, <1>12, <1>13, <1>14,
       <1>15, <1>16 DEF Next, Step

\* What came out is among the numbers given.
LEMMA ReleasedIn ==
  ASSUME NEW T, taken \o ready \in Seq(T)
  PROVE  Reorder!Released \subseteq T
  BY DEF Reorder!Released

\* The decoded picture waits; one that is not output leaves no trace.
LEMMA AcceptStep ==
  ASSUME IInv, NewNumber, phase = "finish",
         dpb' = Store(dpb, current.id, current.pic, sequence.gen),
         UNCHANGED <<ready, taken, discarded>>
  PROVE  [Reorder!Next]_(Reorder!vars)
  <1> DEFINE id == current.id
             w  == WaitingCounts(dpb)
             o  == taken \o ready
  <1>1. /\ current # NoPicture /\ id = pictures /\ id \in Nat
        /\ current.pic \in PictureDatum /\ current.pic.poc \in Int
        /\ current.pic.output \in BOOLEAN
    <2>1. current # NoPicture
      BY DEF IInv, TypeOK
    <2>2. current.pic \in PictureDatum
      BY <2>1 DEF IInv, TypeOK
    <2> QED
      BY <2>1, <2>2, Facts DEF NewNumber, PictureDatum
  <1>2. /\ DOMAIN dpb \subseteq 1 .. pictures - 1
        /\ taken \in Seq(1 .. pictures - 1) /\ ready \in Seq(1 .. pictures - 1)
        /\ discarded \subseteq 1 .. pictures - 1
    BY <1>1 DEF NewNumber, DpbUpTo
  <1>3. id \notin 1 .. pictures - 1
    BY <1>1, Facts
  <1>4. /\ DOMAIN dpb' = DOMAIN dpb \cup {id}
        /\ dpb'[id].needed = current.pic.output /\ dpb'[id].poc = current.pic.poc
        /\ \A i \in DOMAIN dpb : dpb'[i].needed = dpb[i].needed /\ dpb'[i].poc = dpb[i].poc
    <2>1. \A i \in DOMAIN dpb : i # id
      BY <1>2, <1>3
    <2>2. \A i \in DOMAIN dpb : LET e == [dpb[i] EXCEPT !.latency = @ + 1]
                                IN  e.needed = dpb[i].needed /\ e.poc = dpb[i].poc
      BY Facts, DpbElim DEF Entry
    <2> QED
      BY <2>1, <2>2 DEF Store
  <1>5. o \in Seq(1 .. pictures - 1) /\ o \o <<>> = o
    BY <1>2
  <1>6. CASE ~current.pic.output
    <2>1. Waiting(dpb') = Waiting(dpb) /\ \A i \in Waiting(dpb) : dpb'[i].poc = dpb[i].poc
      BY <1>2, <1>3, <1>4, <1>6 DEF Waiting
    <2>2. WaitingCounts(dpb') = WaitingCounts(dpb)
      BY <2>1 DEF WaitingCounts
    <2> QED
      BY <2>2, StutterStep
  <1>7. CASE current.pic.output
    <2>1. DOMAIN w = Waiting(dpb) /\ \A i \in Waiting(dpb) : w[i] = dpb[i].poc
      BY DEF WaitingCounts
    <2> HIDE DEF w
    <2>2. {} \in Reorder!Due /\ <<>> \in Reorder!Orders({})
      <3>1. Reorder!Cardinality({}) = Cardinality({}) /\ Cardinality({}) = 0
        BY FS_EmptySet DEF Cardinality, Reorder!Cardinality
      <3>2. <<>> \in [1 .. 0 -> {}] /\ \A m, n \in 1 .. 0 : FALSE
        OBVIOUS
      <3> QED
        BY <3>1, <3>2 DEF Reorder!Due, Reorder!Orders
    <2>3. DOMAIN Reorder!Stay({}) = Waiting(dpb)
      BY <2>1 DEF Reorder!Stay, w
    <2>4. Reorder!IsNew
      <3>1. Reorder!Released \subseteq 1 .. pictures - 1
        <4> DEFINE T == 1 .. pictures - 1
        <4>1. taken \o ready \in Seq(T)
          BY <1>5
        <4> HIDE DEF T
        <4>2. Reorder!Released \subseteq T
          BY <4>1, ReleasedIn
        <4> QED
          BY <4>2 DEF T
      <3>2. DOMAIN w \subseteq 1 .. pictures - 1
        BY <1>2, <2>1 DEF Waiting
      <3> QED
        BY <1>1, <1>2, <1>3, <3>1, <3>2 DEF Reorder!IsNew, w
    <2>5. WaitingCounts(dpb') =
             [j \in DOMAIN Reorder!Stay({}) \cup {id} |-> IF j = id THEN current.pic.poc ELSE w[j]]
      <3>1. Waiting(dpb') = Waiting(dpb) \cup {id}
        BY <1>4, <1>7 DEF Waiting
      <3>2. \A j \in Waiting(dpb) : dpb'[j].poc = w[j]
        BY <1>4, <2>1 DEF Waiting
      <3> HIDE DEF id
      <3> QED
        BY <1>4, <2>3, <3>1, <3>2 DEF WaitingCounts
    <2>6. taken' \o ready' = o \o <<>> /\ discarded' = discarded
      BY <1>5
    <2>7. Reorder!Accept({}, <<>>)
      BY <2>4, <2>5, <2>6 DEF Reorder!Accept, w, o
    <2> QED
      BY <2>2, <2>7 DEF Reorder!Next
  <1> QED
    BY <1>1, <1>6, <1>7

\* What begin_picture does to the pictures that wait: an IRAP picture that
\* starts the stream over drains or discards them all, another leaves them.
LEMMA BeginPictureStep ==
  ASSUME IInv, BumpFindsWaiting, BeginPicture
  PROVE  [Reorder!Next]_(Reorder!vars)
  <1> DEFINE p == PictureData(nal)
             left == DeriveRps(nal, p)
  <1>1. taken' = taken /\ ready \in Seq(1 .. pictures)
    BY Facts DEF BeginPicture
  <1>2. \/ UNCHANGED <<dpb, ready, discarded>>
        \/ /\ dpb' = RemoveUnused(left) /\ ready' = ready \o <<>>
           /\ discarded' = discarded \cup {}
        \/ /\ dpb' = NoEntries /\ ready' = ready \o <<>>
           /\ discarded' = discarded \cup Waiting(left)
        \/ /\ dpb' = NoEntries /\ \E out \in Drained(left) : ready' = ready \o out
           /\ discarded' = discarded \cup {}
    BY ZenonT(60) DEF BeginPicture
  <1>3. left \in DpbUpTo(pictures) /\ AsItWaited(left, dpb)
    BY DeriveRpsFrom, DeriveRpsWaits
  <1> HIDE DEF p, left
  <1>4. Waiting(left) = Waiting(dpb) /\ WaitingCounts(left) = WaitingCounts(dpb)
    BY <1>3, SameWaiting
  <1>5. Waiting(NoEntries) = {}
    BY DEF Waiting, NoEntries
  <1>6. ready \o <<>> = ready
    BY <1>1
  <1>7. CASE UNCHANGED <<dpb, ready, discarded>>
    BY <1>1, <1>7, StutterStep
  <1>8. CASE dpb' = RemoveUnused(left) /\ ready' = ready \o <<>> /\ discarded' = discarded \cup {}
    <2>1. WaitingCounts(dpb') = WaitingCounts(dpb)
      BY <1>4, <1>8, RemoveUnusedWaits
    <2> QED
      BY <1>1, <1>6, <1>8, <2>1, StutterStep
  <1>9. CASE /\ dpb' = NoEntries /\ ready' = ready \o <<>>
             /\ discarded' = discarded \cup Waiting(left)
    <2>1. WaitingCounts(dpb') = [i \in {} |-> 0]
      BY <1>5, <1>9 DEF WaitingCounts
    <2>2. Reorder!Discard
      BY <1>1, <1>4, <1>6, <1>9, <2>1 DEF Reorder!Discard, WaitingCounts
    <2> QED
      BY <2>2 DEF Reorder!Next
  <1>10. CASE /\ dpb' = NoEntries /\ \E out \in Drained(left) : ready' = ready \o out
              /\ discarded' = discarded \cup {}
    <2>1. PICK out \in Drained(left) : ready' = ready \o out
      BY <1>10
    <2> QED
      BY <1>1, <1>3, <1>5, <1>10, <2>1, DrainStep DEF BumpFindsWaiting
  <1> QED
    BY <1>2, <1>7, <1>8, <1>9, <1>10

LEMMA NextOutput ==
  ASSUME IInv, NewNumber, BumpFindsWaiting, [Next]_vars
  PROVE  [Reorder!Next]_(Reorder!vars)
  <1>1. ASSUME UNCHANGED <<dpb, ready, taken, discarded>> PROVE [Reorder!Next]_(Reorder!vars)
    BY <1>1, StutterStep
  <1>2. ASSUME NEW out \in Drained(dpb), dpb' = NoEntries, ready' = ready \o out,
               UNCHANGED <<taken, discarded>>
        PROVE  [Reorder!Next]_(Reorder!vars)
    <2>1. Waiting(dpb') = {}
      BY <1>2 DEF Waiting, NoEntries
    <2>2. AsItWaited(dpb, dpb) /\ dpb \in DpbUpTo(pictures)
      BY Facts DEF AsItWaited
    <2>3. Reorder!Next
      BY <1>2, <2>1, <2>2, DrainStep DEF BumpFindsWaiting
    <2> QED
      BY <2>3
  <1>3. ASSUME NEW s \in CodedSegment, SubmitSlice(s) PROVE [Reorder!Next]_(Reorder!vars)
    BY <1>1, <1>3 DEF SubmitSlice
  <1>4. ASSUME NEW end \in Ends, SubmitEnd(end) PROVE [Reorder!Next]_(Reorder!vars)
    BY <1>1, <1>4 DEF SubmitEnd
  <1>5. CASE RefuseUnit \/ RefuseSps \/ FinishPicture
    BY <1>1, <1>5 DEF RefuseUnit, RefuseSps, FinishPicture
  <1>6. CASE EndUnit
    <2>1. /\ UNCHANGED <<taken, discarded>>
          /\ \/ UNCHANGED <<dpb, ready>>
             \/ dpb' = NoEntries /\ \E out \in Drained(dpb) : ready' = ready \o out
      BY <1>6 DEF EndUnit
    <2> QED
      BY <1>1, <1>2, <2>1
  <1>7. ASSUME NEW built \in BOOLEAN, ApplySps(built) PROVE [Reorder!Next]_(Reorder!vars)
    <2>1. /\ UNCHANGED <<taken, discarded>>
          /\ \/ UNCHANGED <<dpb, ready>>
             \/ dpb' = NoEntries /\ \E out \in Drained(dpb) : ready' = ready \o out
      BY <1>7 DEF ApplySps
    <2> QED
      BY <1>1, <1>2, <2>1
  <1>8. CASE BeginPicture
    BY <1>8, BeginPictureStep
  <1>9. CASE MakeRoom \/ OutputPicture
    <2>1. PICK i \in LowestForBumping(dpb) : dpb' = Bump(dpb, {i}, FALSE) /\ ready' = Append(ready, i)
      BY <1>9 DEF MakeRoom, OutputPicture
    <2>2. UNCHANGED <<taken, discarded>>
      BY <1>9 DEF MakeRoom, OutputPicture
    <2>3. Reorder!Next
      BY <2>1, <2>2, BumpedStep DEF BumpFindsWaiting
    <2> QED
      BY <2>3
  <1>10. ASSUME NEW allocated \in BOOLEAN, StartPicture(allocated) PROVE [Reorder!Next]_(Reorder!vars)
    BY <1>1, <1>10 DEF StartPicture
  <1>11. ASSUME NEW accepted \in BOOLEAN, DecodeSlice(accepted) PROVE [Reorder!Next]_(Reorder!vars)
    BY <1>1, <1>11 DEF DecodeSlice
  <1>12. ASSUME NEW decoded \in BOOLEAN, RunPicture(decoded) PROVE [Reorder!Next]_(Reorder!vars)
    <2>1. /\ phase = "finish" /\ UNCHANGED <<ready, taken, discarded>>
          /\ \/ dpb' = dpb
             \/ dpb' = Store(dpb, current.id, current.pic, sequence.gen)
      BY <1>12 DEF RunPicture
    <2> QED
      BY <1>1, <2>1, AcceptStep
  <1>13. CASE TakeFrames
    <2>1. /\ taken' = taken \o ready /\ ready' = <<>> /\ dpb' = dpb /\ discarded' = discarded
          /\ taken \in Seq(1 .. pictures) /\ ready \in Seq(1 .. pictures)
      BY <1>13 DEF TakeFrames, IInv, TypeOK
    <2>2. taken' \o ready' = taken \o ready
      BY <2>1
    <2> QED
      BY <2>1, <2>2, StutterStep
  <1>14. CASE Reset
    BY <1>2, <1>14 DEF Reset
  <1>15. CASE UNCHANGED vars
    BY <1>1, <1>15 DEF vars
  <1> QED
    BY <1>3, <1>4, <1>5, <1>6, <1>7, <1>8, <1>9, <1>10, <1>11, <1>12, <1>13, <1>14, <1>15
       DEF Next, Step

\* The decoder begins with nothing that waits or is out.
LEMMA InitOutput == Init => NewNumber /\ Reorder!Init
  <1> SUFFICES ASSUME Init PROVE NewNumber /\ Reorder!Init
    OBVIOUS
  <1>1. /\ dpb = NoEntries /\ ready = <<>> /\ taken = <<>> /\ discarded = {}
        /\ current = NoPicture
    BY DEF Init
  <1>2. WaitingCounts(dpb) = [i \in {} |-> 0]
    <2>1. Waiting(dpb) = {}
      BY <1>1 DEF Waiting, NoEntries
    <2> QED
      BY <2>1 DEF WaitingCounts
  <1> QED
    BY <1>1, <1>2 DEF NewNumber, Reorder!Init

\* The decoder keeps the promise of its output for every stream in whose
\* decoding the order counts of the DPB tell the waiting pictures apart.
THEOREM OrderByCounts == Spec /\ []BumpFindsWaiting => OutputInOrder
  <1>1. IInv /\ NewNumber /\ [Next]_vars => NewNumber'
    BY NextNumber
  <1>2. IInv /\ NewNumber /\ BumpFindsWaiting /\ [Next]_vars => [Reorder!Next]_(Reorder!vars)
    BY NextOutput
  <1> QED
    BY InitIInv, NextIInv, InitOutput, <1>1, <1>2, PTL DEF Spec, OutputInOrder

\* In such a stream's decoding no picture is handed over twice, nor after it
\* was dropped or while it still waits.
THEOREM OnceByCounts == Spec /\ []BumpFindsWaiting => []EachPictureOnce
  <1>1. Reorder!Init => Promise!Init
    BY DEF Reorder!Init, Promise!Init
  <1>2. [Reorder!Next]_(Reorder!vars) => [Promise!Next]_(Promise!vars)
    <2>1. Reorder!Due = Promise!Due
      BY DEF Reorder!Due, Promise!Due, Reorder!Before, Promise!Before
    <2>2. ASSUME NEW S PROVE Reorder!Orders(S) = Promise!Orders(S)
      <3>1. Reorder!Cardinality(S) = Promise!Cardinality(S)
        BY DEF Reorder!Cardinality, Promise!Cardinality
      <3> QED
        BY <3>1 DEF Reorder!Orders, Promise!Orders, Reorder!Before, Promise!Before
    <2>3. ASSUME NEW S, NEW s
          PROVE  /\ Reorder!Release(S, s) => Promise!Release(S, s)
                 /\ Reorder!Accept(S, s) => Promise!Accept(S, s)
                 /\ Reorder!Pass(S, s) => Promise!Pass(S, s)
      BY DEF Reorder!Release, Promise!Release, Reorder!Accept, Promise!Accept,
             Reorder!Pass, Promise!Pass, Reorder!Stay, Promise!Stay,
             Reorder!IsNew, Promise!IsNew, Reorder!Released, Promise!Released
    <2>4. Reorder!Discard => Promise!Discard
      BY DEF Reorder!Discard, Promise!Discard
    <2>5. Reorder!Next => Promise!Next
      BY <2>1, <2>2, <2>3, <2>4 DEF Reorder!Next, Promise!Next
    <2> QED
      BY <2>5 DEF Reorder!vars, Promise!vars
  <1>3. Promise!EachPictureOnce => EachPictureOnce
    BY DEF Promise!EachPictureOnce, EachPictureOnce, Reorder!EachPictureOnce, Promise!Released,
           Reorder!Released
  <1> QED
    BY OrderByCounts, Promise!OutputOnce, <1>1, <1>2, <1>3, PTL DEF OutputInOrder, Promise!Spec

-----------------------------------------------------------------------------
(* Where the order counts of a DPB are apart *)

\* A picture joins the DPB with an order count that no picture there waits
\* with and, if it is to wait itself, that no picture there has.
StoredApart ==
    phase = "finish" /\ phase' = "output" =>
        /\ \A j \in Waiting(dpb) : dpb[j].poc # current.pic.poc
        /\ current.pic.output => \A i \in DOMAIN dpb : dpb[i].poc # current.pic.poc

\* e has pictures of d, with their order counts, and none that waits anew.
Fewer(e, d) ==
    /\ DOMAIN e \subseteq DOMAIN d
    /\ Waiting(e) \subseteq Waiting(d)
    /\ \A i \in DOMAIN e : e[i].poc = d[i].poc

LEMMA FewerApart ==
  ASSUME NEW d, NEW e, Fewer(e, d), CountsApart(d)
  PROVE  CountsApart(e)
  <1> SUFFICES ASSUME NEW i \in DOMAIN e, NEW j \in Waiting(e), e[i].poc = e[j].poc
               PROVE  i = j
    BY DEF CountsApart
  <1>1. j \in DOMAIN e
    BY DEF Waiting
  <1> QED
    BY <1>1 DEF Fewer, CountsApart

\* bump() leaves fewer pictures, or fewer that wait.
LEMMA BumpFewer ==
  ASSUME NEW n \in Nat, NEW d \in DpbUpTo(n), NEW S
  PROVE  Fewer(Bump(d, S, FALSE), d)
  <1> DEFINE output == [i \in DOMAIN d |-> [d[i] EXCEPT !.needed = @ /\ i \notin S]]
             kept   == {i \in DOMAIN d : i \notin S \/ (IsRef(d[i]) /\ ~FALSE)}
             u      == Bump(d, S, FALSE)
  <1>1. \A i \in DOMAIN d : d[i] \in Entry
    BY DpbElim
  <1>2. \A i \in DOMAIN d : LET b == d[i].needed /\ i \notin S
                                r == [d[i] EXCEPT !.needed = b]
                            IN  r.poc = d[i].poc /\ r.needed = b
    BY <1>1 DEF Entry
  <1>3. \A i \in DOMAIN d : output[i].poc = d[i].poc
                            /\ output[i].needed = (d[i].needed /\ i \notin S)
    BY <1>2
  <1>4. DOMAIN output = DOMAIN d /\ kept \subseteq DOMAIN d
    OBVIOUS
  <1>5. u = Restrict(output, kept)
    BY DEF Bump
  <1> HIDE DEF output, kept, u
  <1>6. DOMAIN u = kept /\ \A i \in kept : u[i] = output[i]
    BY <1>4, <1>5 DEF Restrict
  <1> QED
    BY <1>3, <1>4, <1>6 DEF u, Fewer, Waiting

\* remove_unused leaves fewer pictures.
LEMMA RemoveUnusedFewer ==
  ASSUME NEW d
  PROVE  Fewer(RemoveUnused(d), d)
  <1> DEFINE u == RemoveUnused(d)
  <1>1. /\ DOMAIN u = Refs(d) \cup Waiting(d)
        /\ \A i \in DOMAIN u : u[i] = d[i]
    BY DEF RemoveUnused, Restrict, Refs, Waiting
  <1> HIDE DEF u
  <1> QED
    BY <1>1 DEF Fewer, Waiting, Refs, u

\* No step but store_picture brings two order counts together.
LEMMA NextApart ==
  ASSUME IInv, BumpFindsWaiting, [StoredApart]_vars, [Next]_vars
  PROVE  BumpFindsWaiting'
  <1>1. CountsApart(NoEntries)
    BY DEF CountsApart, NoEntries
  <1>2. CASE dpb' = dpb
    BY <1>2 DEF BumpFindsWaiting, CountsApart, Waiting
  <1>3. CASE dpb' = NoEntries
    BY <1>1, <1>3 DEF BumpFindsWaiting, CountsApart, Waiting
  <1>4. ASSUME Fewer(dpb', dpb) PROVE BumpFindsWaiting'
    <2>1. CountsApart(dpb')
      BY <1>4, FewerApart DEF BumpFindsWaiting
    <2> QED
      BY <2>1 DEF BumpFindsWaiting, CountsApart, Waiting
  <1>5. CASE BeginPicture
    <2> DEFINE p == PictureData(nal)
               left == DeriveRps(nal, p)
    <2>1. dpb' = dpb \/ dpb' = NoEntries \/ dpb' = RemoveUnused(left)
      BY <1>5, ZenonT(60) DEF BeginPicture
    <2>2. AsItWaited(left, dpb)
      BY DeriveRpsWaits
    <2> HIDE DEF p, left
    <2>3. CASE dpb' = RemoveUnused(left)
      <3>1. Fewer(dpb', left)
        BY <2>3, RemoveUnusedFewer
      <3>2. Waiting(left) = Waiting(dpb)
        BY <2>2, SameWaiting
      <3>3. Fewer(dpb', dpb)
        BY <2>2, <3>1, <3>2 DEF Fewer, AsItWaited
      <3> QED
        BY <1>4, <3>3
    <2> QED
      BY <1>2, <1>3, <2>1, <2>3
  <1>6. CASE MakeRoom \/ OutputPicture
    <2>1. PICK i : dpb' = Bump(dpb, {i}, FALSE)
      BY <1>6, Zenon DEF MakeRoom, OutputPicture
    <2> QED
      BY <1>4, <2>1, Facts, BumpFewer
  <1>7. ASSUME NEW decoded \in BOOLEAN, RunPicture(decoded) PROVE BumpFindsWaiting'
    <2>1. \/ dpb' = dpb
          \/ /\ dpb' = Store(dpb, current.id, current.pic, sequence.gen)
             /\ phase = "finish" /\ phase' = "output"
      BY <1>7, Zenon DEF RunPicture, Go
    <2>2. CASE /\ dpb' = Store(dpb, current.id, current.pic, sequence.gen)
               /\ phase = "finish" /\ phase' = "output"
      <3> DEFINE id == current.id
      <3>1. StoredApart
        BY <2>2 DEF vars
      <3>2. /\ DOMAIN dpb' = DOMAIN dpb \cup {id}
            /\ dpb'[id].needed = current.pic.output /\ dpb'[id].poc = current.pic.poc
            /\ \A i \in DOMAIN dpb \ {id} :
                  dpb'[i].needed = dpb[i].needed /\ dpb'[i].poc = dpb[i].poc
        <4>1. \A i \in DOMAIN dpb : LET l == dpb[i].latency + 1
                                        r == [dpb[i] EXCEPT !.latency = l]
                                    IN  r.needed = dpb[i].needed /\ r.poc = dpb[i].poc
          BY Facts, DpbElim DEF Entry
        <4> QED
          BY <2>2, <4>1 DEF Store
      <3> HIDE DEF id
      <3>3. ASSUME NEW i \in DOMAIN dpb', NEW j \in Waiting(dpb'), dpb'[i].poc = dpb'[j].poc
            PROVE  i = j
        <4>1. j \in DOMAIN dpb' /\ dpb'[j].needed
          BY DEF Waiting
        <4>2. CASE i # id /\ j # id
          <5>1. i \in DOMAIN dpb /\ j \in Waiting(dpb) /\ dpb[i].poc = dpb[j].poc
            BY <3>2, <3>3, <4>1, <4>2 DEF Waiting
          <5> QED
            BY <5>1 DEF BumpFindsWaiting, CountsApart
        <4>3. CASE i = id /\ j # id
          <5>1. j \in Waiting(dpb) /\ dpb[j].poc = current.pic.poc
            BY <3>2, <3>3, <4>1, <4>3 DEF Waiting
          <5> QED
            BY <2>2, <3>1, <5>1 DEF StoredApart
        <4>4. CASE i # id /\ j = id
          <5>1. i \in DOMAIN dpb /\ dpb[i].poc = current.pic.poc /\ current.pic.output
            BY <3>2, <3>3, <4>1, <4>4
          <5> QED
            BY <2>2, <3>1, <5>1 DEF StoredApart
        <4> QED
          BY <4>2, <4>3, <4>4
      <3> QED
        BY <3>3 DEF BumpFindsWaiting, CountsApart, Waiting
    <2> QED
      BY <1>2, <2>1, <2>2
  <1>8. CASE EndUnit
    BY <1>2, <1>3, <1>8 DEF EndUnit
  <1>9. ASSUME NEW built \in BOOLEAN, ApplySps(built) PROVE BumpFindsWaiting'
    BY <1>2, <1>3, <1>9 DEF ApplySps
  <1>10. CASE Reset
    BY <1>3, <1>10 DEF Reset
  <1>11. ASSUME NEW s \in CodedSegment, SubmitSlice(s) PROVE BumpFindsWaiting'
    BY <1>2, <1>11 DEF SubmitSlice
  <1>12. ASSUME NEW end \in Ends, SubmitEnd(end) PROVE BumpFindsWaiting'
    BY <1>2, <1>12 DEF SubmitEnd
  <1>13. CASE RefuseUnit \/ RefuseSps \/ FinishPicture \/ TakeFrames \/ UNCHANGED vars
    BY <1>2, <1>13 DEF RefuseUnit, RefuseSps, FinishPicture, TakeFrames, vars
  <1>14. ASSUME NEW allocated \in BOOLEAN, StartPicture(allocated) PROVE BumpFindsWaiting'
    BY <1>2, <1>14 DEF StartPicture
  <1>15. ASSUME NEW accepted \in BOOLEAN, DecodeSlice(accepted) PROVE BumpFindsWaiting'
    BY <1>2, <1>15 DEF DecodeSlice
  <1> QED
    BY <1>5, <1>6, <1>7, <1>8, <1>9, <1>10, <1>11, <1>12, <1>13, <1>14, <1>15 DEF Next, Step

\* The order counts of the DPB stay apart from one picture stored to the next:
\* marking, bumping, failures and changes of format bring no two together.  So
\* what find_lowest_poc_for_bumping needs is to be asked of each picture once,
\* where store_picture takes it.
THEOREM CountsStayApart == Spec /\ [][StoredApart]_vars => []BumpFindsWaiting
  <1>1. Init => BumpFindsWaiting
    BY DEF Init, BumpFindsWaiting, CountsApart, NoEntries
  <1> QED
    BY <1>1, NextApart, Inductive, PTL DEF Spec

-----------------------------------------------------------------------------
(* Which picture a segment is decoded into *)

\* A segment tells the picture it is of by what it says itself, if it is
\* independent, or by the last independent one that was read, if that was of its
\* picture; and the first of a picture is not missing while the picture before
\* it is in flight.  Other segments may be missing, and any call may fail.
SegmentsWhole ==
    \A s \in CodedSegment : SubmitSlice(s) =>
        /\ ~s.dependent => s.header.coded = s.coded
        /\ s.dependent /\ lastHeader # NoHeader => lastHeader.coded = s.coded
        /\ ~s.first /\ current # NoPicture => s.coded = current.coded

\* A segment has a header of its own picture on its way through finish_picture
\* and begin_picture, and is of the picture begun for it.
Joined ==
    /\ phase \in {"begin", "derive", "room", "slice"} => nal.coded = nal.header.coded
    /\ phase \in {"finish", "output"} => IsEnd(nal) \/ nal.coded = nal.header.coded
    /\ phase \in {"room", "slice"} => nal.coded = current.coded

\* A step after which no segment is worked on.
LEMMA NoSegment ==
  ASSUME phase' \in {"idle", "next", "unit", "ready"}
  PROVE  Joined'
  BY DEF Joined

\* A segment is read.
LEMMA SubmitSliceJoined ==
  ASSUME NEW s \in CodedSegment, SubmitSlice(s), SegmentsWhole
  PROVE  Joined'
  <1>1. s \in Segment
    BY DEF CodedSegment
  <1>2. CASE Fail("slice")
    BY <1>2, NoSegment DEF Fail
  <1>3. CASE /\ s.dependent => lastHeader # NoHeader
             /\ nal' = IF s.dependent THEN [s EXCEPT !.header = lastHeader] ELSE s
             /\ phase' = CASE s.first /\ current # NoPicture  -> "finish"
                           [] current = NoPicture             -> "begin"
                           [] OTHER                           -> "slice"
             /\ UNCHANGED current
    <2>1. nal'.coded = s.coded /\ nal'.header.coded = s.coded
      <3>1. CASE s.dependent
        <4>1. nal' = [s EXCEPT !.header = lastHeader] /\ lastHeader.coded = s.coded
          BY <1>3, <3>1 DEF SegmentsWhole
        <4>2. nal'.coded = s.coded /\ nal'.header = lastHeader
          BY <1>1, <4>1 DEF Segment
        <4> QED
          BY <4>1, <4>2
      <3>2. CASE ~s.dependent
        BY <1>3, <3>2 DEF SegmentsWhole
      <3> QED
        BY <3>1, <3>2
    <2>2. phase' \in {"finish", "begin", "slice"}
      BY <1>3
    <2>3. ASSUME phase' = "slice" PROVE s.coded = current'.coded
      <3>1. ~s.first /\ current # NoPicture
        BY <1>3, <2>3
      <3> QED
        BY <1>3, <3>1 DEF SegmentsWhole
    <2> QED
      BY <2>1, <2>2, <2>3 DEF Joined
  <1> QED
    BY <1>2, <1>3, Zenon DEF SubmitSlice

LEMMA NextJoined ==
  ASSUME IInv, Joined, [SegmentsWhole]_vars, [Next]_vars
  PROVE  Joined'
  <1>0. CASE UNCHANGED vars
    BY <1>0 DEF vars, Joined, IsEnd, NoNal
  <1>1. ASSUME NEW s \in CodedSegment, SubmitSlice(s), SegmentsWhole PROVE Joined'
    BY <1>1, SubmitSliceJoined
  <1>2. ASSUME NEW end \in Ends, SubmitEnd(end) PROVE Joined'
    <2>1. nal' = [end |-> end] /\ (phase' = "unit" \/ phase' = "finish")
      BY <1>2 DEF SubmitEnd
    <2>2. IsEnd(nal)'
      BY <2>1 DEF IsEnd, NoNal
    <2> QED
      BY <2>1, <2>2 DEF Joined
  <1>3. CASE RefuseUnit \/ EndUnit \/ RefuseSps \/ Reset \/ TakeFrames
    BY <1>3, NoSegment DEF RefuseUnit, EndUnit, RefuseSps, Reset, TakeFrames, Fail
  <1>4. ASSUME NEW built \in BOOLEAN, ApplySps(built) PROVE Joined'
    <2>1. phase = "begin" /\ (phase' = "idle" \/ (phase' = "derive" /\ nal' = nal))
      BY <1>4, Zenon DEF ApplySps, Go, Fail
    <2> QED
      BY <2>1 DEF Joined
  <1>5. CASE BeginPicture
    <2>1. \/ phase' = "next"
          \/ phase' = "room" /\ nal' = nal /\ current'.coded = nal.coded
      BY <1>5 DEF BeginPicture
    <2> QED
      BY <1>5, <2>1 DEF Joined, BeginPicture
  <1>6. CASE MakeRoom \/ OutputPicture
    BY <1>6 DEF MakeRoom, OutputPicture, Joined, IsEnd, NoNal
  <1>7. ASSUME NEW allocated \in BOOLEAN, StartPicture(allocated) PROVE Joined'
    <2>1. \/ phase' = "idle"
          \/ phase' = "slice" /\ nal' = nal /\ current' = [current EXCEPT !.id = pictures + 1]
      BY <1>7, Zenon DEF StartPicture, Fail
    <2>2. phase = "room"
      BY <1>7 DEF StartPicture
    <2>3. [current EXCEPT !.id = pictures + 1].coded = current.coded
      BY <2>2 DEF IInv, TypeOK
    <2> QED
      BY <2>1, <2>2, <2>3 DEF Joined
  <1>8. ASSUME NEW accepted \in BOOLEAN, DecodeSlice(accepted) PROVE Joined'
    <2>1. phase' = "next" \/ phase' = "idle"
      BY <1>8, Zenon DEF DecodeSlice, Fail
    <2> QED
      BY <2>1, NoSegment
  <1>9. ASSUME NEW decoded \in BOOLEAN, RunPicture(decoded) PROVE Joined'
    <2>1. phase = "finish" /\ (phase' = "idle" \/ (phase' = "output" /\ nal' = nal))
      BY <1>9, Zenon DEF RunPicture, Go, Fail
    <2> QED
      BY <2>1 DEF Joined, IsEnd, NoNal
  <1>10. CASE FinishPicture
    <2>1. phase = "output" /\ nal' = nal /\ phase' = IF IsEnd(nal) THEN "unit" ELSE "begin"
      BY <1>10 DEF FinishPicture
    <2> QED
      BY <2>1 DEF Joined
  <1> QED
    BY <1>0, <1>1, <1>2, <1>3, <1>4, <1>5, <1>6, <1>7, <1>8, <1>9, <1>10 DEF Next, Step

\* Whatever fails, is refused or is skipped, a segment that names its picture
\* (SegmentsWhole) is decoded into it, with its header: an error leaves neither
\* a picture in flight nor a header of another for the segments behind it.
THEOREM SegmentsApart == Spec /\ [][SegmentsWhole]_vars => []SegmentsOfOnePicture
  <1>1. Init => Joined
    BY DEF Init, Joined
  <1>2. Joined => SegmentsOfOnePicture
    BY DEF Joined, SegmentsOfOnePicture
  <1> QED
    BY <1>1, <1>2, NextJoined, Inductive, PTL DEF Spec

-----------------------------------------------------------------------------
(* Room for every picture *)

\* As 7.4.8 and 7.4.3.2.1 have it: the pictures a reference picture set names
\* leave room for the current one in the buffer the SPS declares, which is
\* within the limit of the level.
RpsFits ==
    phase = "derive" =>
        /\ IsFiniteSet(nal.header.st) /\ IsFiniteSet(nal.header.lt)
        /\ Cardinality(nal.header.st) + Cardinality(nal.header.lt) < nal.sps.maxDecPicBuffering
        /\ nal.sps.maxDecPicBuffering <= nal.sps.maxDpbFrames

\* Every entry is there for a reason.
OnlyUsed(d) == DOMAIN d \subseteq Refs(d) \cup Waiting(d)

\* From the set to the store: first the references leave room, then all do.
RoomInv ==
    /\ phase \in {"derive", "room"} => activeSps = nal.sps
    /\ current # NoPicture => activeSps.maxDecPicBuffering <= activeSps.maxDpbFrames
    /\ phase = "room" => /\ OnlyUsed(dpb)
                         /\ Cardinality(Refs(dpb)) < activeSps.maxDecPicBuffering
    /\ current # NoPicture /\ phase \in {"slice", "next", "finish"} =>
          Cardinality(DOMAIN dpb) < activeSps.maxDecPicBuffering
    /\ NeverRefused

\* Lookups that find at most one picture each find no more than there are.
LEMMA FewFound ==
  ASSUME NEW R, IsFiniteSet(R), NEW F, \A r \in R : \A i, j \in F[r] : i = j
  PROVE  /\ IsFiniteSet(UNION {F[r] : r \in R})
         /\ Cardinality(UNION {F[r] : r \in R}) <= Cardinality(R)
  <1> DEFINE U == UNION {F[r] : r \in R}
             f == [i \in U |-> CHOOSE r \in R : i \in F[r]]
  <1>1. \A i \in U : f[i] \in R /\ i \in F[f[i]]
    OBVIOUS
  <1>2. \A i, j \in U : f[i] = f[j] => i = j
    BY <1>1
  <1>3. f \in Injection(U, R)
    BY <1>1, <1>2 DEF Injection, IsInjective
  <1> HIDE DEF f, U
  <1>4. IsFiniteSet(U) /\ Cardinality(U) <= Cardinality(R)
    BY <1>3, FS_Injection
  <1> QED
    BY <1>4 DEF U

\* What the sets of a slice name are no more pictures than they have entries
\* (derive_rps).
LEMMA FewKept ==
  ASSUME NEW d, NEW e, NEW s, NEW p,
         IsFiniteSet(s.header.st), IsFiniteSet(s.header.lt), DOMAIN d \subseteq Int, DOMAIN e \subseteq Int
  PROVE  LET kept == LongTermSet(d, s, p, BOOLEAN) \cup ShortTermSet(e, s, p, BOOLEAN)
         IN  /\ IsFiniteSet(kept)
             /\ Cardinality(kept) <= Cardinality(s.header.st) + Cardinality(s.header.lt)
  <1> DEFINE lt == {r \in s.header.lt : r.used \in BOOLEAN}
             st == {r \in StSet(s) : r.used \in BOOLEAN}
             L == LongTermSet(d, s, p, BOOLEAN)
             S == ShortTermSet(e, s, p, BOOLEAN)
  <1>1. \A T \in SUBSET Int : \A i, j \in First(T) : i = j
    BY DEF First
  <1>2. IsFiniteSet(L) /\ Cardinality(L) <= Cardinality(s.header.lt)
    <2> DEFINE F == [r \in lt |-> FindLongTerm(d, s, p, r)]
    <2>1. \A r \in lt : \A i, j \in F[r] : i = j
      <3>1. Refs(d) \subseteq Int
        BY DEF Refs
      <3>2. \A poc : \A i, j \in FindRefByPoc(d, poc) : i = j
        BY <1>1, <3>1 DEF FindRefByPoc
      <3>3. \A lsb, max : \A i, j \in FindRefByPocMasked(d, lsb, max) : i = j
        BY <1>1, <3>1 DEF FindRefByPocMasked
      <3> HIDE DEF lt
      <3>4. \A r : \A i, j \in FindLongTerm(d, s, p, r) : i = j
        BY <3>2, <3>3, Zenon DEF FindLongTerm
      <3> QED
        BY <3>4
    <2>2. IsFiniteSet(lt) /\ Cardinality(lt) <= Cardinality(s.header.lt)
      BY FS_Subset
    <2>3. {F[r] : r \in lt} = {FindLongTerm(d, s, p, r) : r \in lt}
      OBVIOUS
    <2> DEFINE U == UNION {F[r] : r \in lt}
    <2>4. L \in {{}, U}
      <3> HIDE DEF lt, F
      <3> QED
        BY <2>3, Zenon DEF LongTermSet, lt
    <2>5. IsFiniteSet(U) /\ Cardinality(U) <= Cardinality(lt)
      <3> HIDE DEF F, lt
      <3> QED
        BY <2>1, <2>2, FewFound
    <2> HIDE DEF U, L, lt
    <2>6. Cardinality(U) \in Nat /\ Cardinality(lt) \in Nat /\ Cardinality(s.header.lt) \in Nat
      BY <2>2, <2>5, FS_CardinalityType
    <2>7. IsFiniteSet({}) /\ Cardinality({}) = 0
      BY FS_EmptySet
    <2>8. CASE L = {}
      BY <2>6, <2>7, <2>8
    <2>9. CASE L = U
      BY <2>2, <2>5, <2>6, <2>9
    <2> QED
      BY <2>4, <2>8, <2>9
  <1>3. IsFiniteSet(S) /\ Cardinality(S) <= Cardinality(s.header.st)
    <2> DEFINE F == [r \in st |-> FindShortTermRefByPoc(e, p.poc + r.delta)]
    <2>1. \A r \in st : \A i, j \in F[r] : i = j
      <3>1. \A poc : \A i, j \in FindShortTermRefByPoc(e, poc) : i = j
        BY <1>1 DEF FindShortTermRefByPoc
      <3> HIDE DEF st
      <3> QED
        BY <3>1
    <2>2. IsFiniteSet(st) /\ Cardinality(st) <= Cardinality(s.header.st)
      <3>1. st \subseteq s.header.st
        BY DEF StSet
      <3> QED
        BY <3>1, FS_Subset
    <2>3. {F[r] : r \in st} = {FindShortTermRefByPoc(e, p.poc + r.delta) : r \in st}
      OBVIOUS
    <2> DEFINE U == UNION {F[r] : r \in st}
    <2>4. S \in {{}, U}
      <3> HIDE DEF st, F
      <3> QED
        BY <2>3, Zenon DEF ShortTermSet, st
    <2>5. IsFiniteSet(U) /\ Cardinality(U) <= Cardinality(st)
      <3> HIDE DEF F, st
      <3> QED
        BY <2>1, <2>2, FewFound
    <2> HIDE DEF U, S, st
    <2>6. Cardinality(U) \in Nat /\ Cardinality(st) \in Nat /\ Cardinality(s.header.st) \in Nat
      BY <2>2, <2>5, FS_CardinalityType
    <2>7. IsFiniteSet({}) /\ Cardinality({}) = 0
      BY FS_EmptySet
    <2>8. CASE S = {}
      BY <2>6, <2>7, <2>8
    <2>9. CASE S = U
      BY <2>2, <2>5, <2>6, <2>9
    <2> QED
      BY <2>4, <2>8, <2>9
  <1> HIDE DEF L, S
  <1>4. IsFiniteSet(L \cup S) /\ Cardinality(L \cup S) <= Cardinality(L) + Cardinality(S)
    <2>1. IsFiniteSet(L \cup S)
          /\ Cardinality(L \cup S) = Cardinality(L) + Cardinality(S) - Cardinality(L \cap S)
      BY <1>2, <1>3, FS_Union
    <2>2. Cardinality(L \cap S) \in Nat
      BY <1>2, FS_Subset, FS_CardinalityType
    <2>3. Cardinality(L) \in Nat /\ Cardinality(S) \in Nat
      BY <1>2, <1>3, FS_CardinalityType
    <2> QED
      BY <2>1, <2>2, <2>3
  <1>5. /\ Cardinality(L) \in Nat /\ Cardinality(S) \in Nat /\ Cardinality(L \cup S) \in Nat
        /\ Cardinality(s.header.lt) \in Nat /\ Cardinality(s.header.st) \in Nat
    BY <1>2, <1>3, <1>4, FS_CardinalityType
  <1>6. Cardinality(L \cup S) <= Cardinality(s.header.st) + Cardinality(s.header.lt)
    BY <1>2, <1>3, <1>4, <1>5
  <1> QED
    BY <1>4, <1>6 DEF L, S

\* Bumping without a flush leaves references where they are, and no picture
\* that nothing needs.
LEMMA BumpUsed ==
  ASSUME NEW n \in Nat, NEW d \in DpbUpTo(n), NEW i, OnlyUsed(d)
  PROVE  /\ OnlyUsed(Bump(d, {i}, FALSE))
         /\ Refs(Bump(d, {i}, FALSE)) \subseteq Refs(d)
  <1> DEFINE e == Bump(d, {i}, FALSE)
             output == [k \in DOMAIN d |-> [d[k] EXCEPT !.needed = @ /\ k \notin {i}]]
             kept == {k \in DOMAIN d : k \notin {i} \/ (IsRef(d[k]) /\ ~FALSE)}
  <1>1. \A k \in DOMAIN d : d[k] \in Entry
    BY DpbElim
  <1>2. /\ DOMAIN e = kept
        /\ \A k \in kept : e[k] = output[k]
    BY DEF Bump, Restrict
  <1>3. \A k \in DOMAIN d : \A b \in BOOLEAN :
           LET f == [d[k] EXCEPT !.needed = b] IN f.needed = b /\ f.ref = d[k].ref
    BY <1>1 DEF Entry
  <1>4. \A k \in DOMAIN d : (d[k].needed /\ k \notin {i}) \in BOOLEAN
    OBVIOUS
  <1>5. \A k \in DOMAIN d : /\ output[k].ref = d[k].ref
                            /\ output[k].needed = (d[k].needed /\ k \notin {i})
    BY <1>3, <1>4
  <1>6. kept \subseteq DOMAIN d
    OBVIOUS
  <1> HIDE DEF e, output
  <1>7. /\ \A k \in kept : e[k].ref = d[k].ref /\ e[k].needed = (d[k].needed /\ k \notin {i})
    BY <1>2, <1>5, <1>6
  <1>8. \A k \in kept : IsRef(d[k]) \/ (d[k].needed /\ k \notin {i})
    BY DEF OnlyUsed, Refs, Waiting
  <1>9. OnlyUsed(e)
    BY <1>2, <1>7, <1>8 DEF OnlyUsed, Refs, Waiting, IsRef
  <1>10. Refs(e) \subseteq Refs(d)
    BY <1>2, <1>6, <1>7 DEF Refs, IsRef
  <1> QED
    BY <1>9, <1>10 DEF e

LEMMA BeginPictureRoom ==
  ASSUME IInv, RoomInv, RpsFits, BeginPicture
  PROVE  RoomInv'
  <1> DEFINE p == PictureData(nal)
             left == DeriveRps(nal, p)
  <1>1. /\ phase = "derive" /\ current = NoPicture
        /\ activeSps = nal.sps /\ activeSps \in SpsSet
        /\ NeverRefused
    BY SpsThere DEF BeginPicture, IInv, TypeOK, RoomInv, InTheMaking
  <1>2. /\ UNCHANGED <<activeSps, result>>
        /\ \/ phase' = "next" /\ UNCHANGED current
           \/ /\ phase' = "room" /\ UNCHANGED nal
              /\ dpb' \in {NoEntries, RemoveUnused(left)}
    BY ZenonT(60) DEF BeginPicture
  <1>3. /\ activeSps.maxDecPicBuffering \in Nat \ {0}
        /\ activeSps.maxDecPicBuffering <= activeSps.maxDpbFrames
    BY <1>1, SpsAssumption DEF SpsInfo, RpsFits
  <1>4. OnlyUsed(NoEntries) /\ Cardinality(Refs(NoEntries)) < activeSps.maxDecPicBuffering
    <2>1. DOMAIN NoEntries = {}
      BY DEF NoEntries
    <2>2. Refs(NoEntries) = {}
      BY <2>1 DEF Refs
    <2> QED
      BY <1>3, <2>1, <2>2, FS_EmptySet DEF OnlyUsed
  <1>5. OnlyUsed(RemoveUnused(left)) /\ Refs(RemoveUnused(left)) \subseteq Refs(left)
    <2> HIDE DEF left
    <2>1. /\ DOMAIN RemoveUnused(left) = Refs(left) \cup Waiting(left)
          /\ \A i \in Refs(left) \cup Waiting(left) : RemoveUnused(left)[i] = left[i]
      BY DEF RemoveUnused, Restrict
    <2>2. Refs(left) \subseteq DOMAIN left /\ Waiting(left) \subseteq DOMAIN left
      BY DEF Refs, Waiting
    <2> QED
      BY <2>1, <2>2 DEF OnlyUsed, Refs, Waiting
  <1>6. Cardinality(Refs(RemoveUnused(left))) < activeSps.maxDecPicBuffering
    <2> DEFINE kept == LongTermSet(BeforeRps(p), nal, p, BOOLEAN)
                          \cup ShortTermSet(LongTermMarked(nal, p), nal, p, BOOLEAN)
    <2> HIDE DEF p
    <2>1. /\ DOMAIN BeforeRps(p) = DOMAIN dpb /\ DOMAIN LongTermMarked(nal, p) = DOMAIN dpb
          /\ DOMAIN dpb \subseteq Int
      BY Facts, DpbElim, DeriveRpsFrom
    <2>2. /\ IsFiniteSet(kept)
          /\ Cardinality(kept) <= Cardinality(nal.header.st) + Cardinality(nal.header.lt)
      BY <1>1, <2>1, FewKept DEF RpsFits
    <2>3. Refs(left) \subseteq kept
      <3> HIDE DEF kept
      <3>1. \A i \in DOMAIN dpb : LongTermMarked(nal, p)[i] \in Entry
        <4>1. \A i \in DOMAIN dpb : dpb[i] \in Entry
          BY Facts, DpbElim
        <4>2. \A i \in DOMAIN dpb : BeforeRps(p)[i] \in Entry
          BY <4>1, Zenon DEF BeforeRps, MarkAllAsUnusedForRef, SetReference, Entry, Marks
        <4> QED
          BY <2>1, <4>2 DEF LongTermMarked, SetReference, Entry, Marks
      <3>2. \A i \in DOMAIN dpb \ kept : left[i].ref = "None"
        BY <2>1, <3>1 DEF DeriveRps, SetReference, Entry, kept
      <3>3. DOMAIN left = DOMAIN dpb
        BY DeriveRpsFrom
      <3> HIDE DEF left
      <3> QED
        BY <3>2, <3>3 DEF Refs, IsRef
    <2> HIDE DEF kept, left
    <2>4. Refs(RemoveUnused(left)) \subseteq kept
      BY <1>5, <2>3
    <2>5. Cardinality(Refs(RemoveUnused(left))) <= Cardinality(kept)
      BY <2>2, <2>4, FS_Subset
    <2>6. /\ Cardinality(kept) \in Nat
          /\ Cardinality(nal.header.st) \in Nat /\ Cardinality(nal.header.lt) \in Nat
          /\ Cardinality(Refs(RemoveUnused(left))) \in Nat
      BY <1>1, <2>2, <2>4, FS_Subset, FS_CardinalityType DEF RpsFits
    <2>7. Cardinality(nal.header.st) + Cardinality(nal.header.lt) < activeSps.maxDecPicBuffering
      BY <1>1 DEF RpsFits
    <2> QED
      BY <1>3, <2>2, <2>5, <2>6, <2>7
  <1> HIDE DEF left, p
  <1>7. CASE phase' = "next" /\ UNCHANGED current
    BY <1>1, <1>2, <1>7 DEF RoomInv, NeverRefused
  <1>8. CASE /\ phase' = "room" /\ UNCHANGED nal
             /\ dpb' \in {NoEntries, RemoveUnused(left)}
    <2>1. OnlyUsed(dpb') /\ Cardinality(Refs(dpb')) < activeSps.maxDecPicBuffering
      BY <1>4, <1>5, <1>6, <1>8
    <2> QED
      BY <1>1, <1>2, <1>3, <1>8, <2>1 DEF RoomInv, NeverRefused
  <1> QED
    BY <1>2, <1>7, <1>8

LEMMA NextRoom == IInv /\ RoomInv /\ RpsFits /\ [Next]_vars => RoomInv'
  <1> SUFFICES ASSUME IInv, RoomInv, RpsFits, [Next]_vars PROVE RoomInv'
    OBVIOUS
  <1>1. /\ phase \in {"idle", "unit", "begin", "derive", "ready"} => current = NoPicture
        /\ phase \in {"room", "slice", "finish", "output"} => current # NoPicture
        /\ current # NoPicture => activeSps \in SpsSet
        /\ activeSps \in SpsSet => /\ activeSps.maxDecPicBuffering \in Nat
                                   /\ activeSps.maxDpbFrames \in Nat
    BY SpsAssumption DEF IInv, TypeOK, InTheMaking, SpsInfo
  <1>2. dpb \in DpbUpTo(pictures) /\ pictures \in Nat
    BY Facts
  <1>3. ASSUME NEW s \in CodedSegment, SubmitSlice(s) PROVE RoomInv'
    BY <1>1, <1>3 DEF SubmitSlice, Fail, RoomInv, NeverRefused
  <1>4. ASSUME NEW end \in Ends, SubmitEnd(end) PROVE RoomInv'
    BY <1>1, <1>4 DEF SubmitEnd, stream, RoomInv, NeverRefused
  <1>5. CASE RefuseUnit
    BY <1>5 DEF RefuseUnit, Fail, stream, RoomInv, NeverRefused
  <1>6. CASE EndUnit
    BY <1>1, <1>6 DEF EndUnit, RoomInv, NeverRefused
  <1>7. CASE RefuseSps
    BY <1>7 DEF RefuseSps, Fail, stream, RoomInv, NeverRefused
  <1>8. ASSUME NEW built \in BOOLEAN, ApplySps(built) PROVE RoomInv'
    <2>1. /\ activeSps' = nal.sps /\ phase = "begin"
          /\ Go("derive") \/ Fail("va")
      BY <1>8, Zenon DEF ApplySps
    <2> QED
      BY <1>1, <2>1 DEF Go, Fail, RoomInv, NeverRefused
  <1>9. CASE BeginPicture
    BY <1>9, BeginPictureRoom
  <1>10. CASE MakeRoom
    <2>1. PICK i \in LowestForBumping(dpb) : dpb' = Bump(dpb, {i}, FALSE)
      BY <1>10 DEF MakeRoom
    <2>2. /\ OnlyUsed(dpb) /\ Cardinality(Refs(dpb)) < activeSps.maxDecPicBuffering
      BY <1>10 DEF MakeRoom, RoomInv
    <2>3. OnlyUsed(dpb') /\ Refs(dpb') \subseteq Refs(dpb)
      BY <1>2, <2>1, <2>2, BumpUsed
    <2>4. IsFiniteSet(Refs(dpb))
      BY <1>2, DpbFinite, FS_Subset DEF Refs
    <2>5. /\ Cardinality(Refs(dpb')) <= Cardinality(Refs(dpb))
          /\ Cardinality(Refs(dpb')) \in Nat /\ Cardinality(Refs(dpb)) \in Nat
      BY <2>3, <2>4, FS_Subset, FS_CardinalityType
    <2>6. Cardinality(Refs(dpb')) < activeSps.maxDecPicBuffering
      <3>1. activeSps.maxDecPicBuffering \in Nat
        BY <1>1, <1>10 DEF MakeRoom
      <3> QED
        BY <2>2, <2>5, <3>1
    <2> QED
      BY <1>10, <2>3, <2>6 DEF MakeRoom, stream, RoomInv, NeverRefused
  <1>11. ASSUME NEW allocated \in BOOLEAN, StartPicture(allocated) PROVE RoomInv'
    <2>1. /\ phase = "room" /\ activeSps = nal.sps
          /\ OnlyUsed(dpb) /\ Cardinality(Refs(dpb)) < activeSps.maxDecPicBuffering
      BY <1>11 DEF StartPicture, RoomInv
    <2>2. Cardinality(DOMAIN dpb) < activeSps.maxDecPicBuffering
      <3>1. CASE Waiting(dpb) = {}
        <4>1. DOMAIN dpb = Refs(dpb)
          BY <2>1, <3>1 DEF OnlyUsed, Refs
        <4> QED
          BY <2>1, <4>1
      <3>2. CASE ~NeedsBumping(dpb, nal.sps)
        BY <1>1, <1>2, <2>1, <3>2, DpbFinite DEF NeedsBumping
      <3> QED
        BY <1>11, <3>1, <3>2 DEF StartPicture
    <2>3. /\ UNCHANGED <<dpb, activeSps>>
          /\ \/ phase' = "slice" /\ UNCHANGED result
             \/ Fail("va")
      BY <1>11, Zenon DEF StartPicture, stream
    <2> QED
      BY <1>1, <2>1, <2>2, <2>3 DEF Fail, RoomInv, NeverRefused
  <1>12. ASSUME NEW accepted \in BOOLEAN, DecodeSlice(accepted) PROVE RoomInv'
    <2>1. /\ UNCHANGED <<dpb, activeSps>> /\ phase = "slice"
          /\ \/ phase' = "next" /\ UNCHANGED <<current, result>>
             \/ Fail("slice")
      BY <1>12, Zenon DEF DecodeSlice, stream
    <2> QED
      BY <2>1 DEF Fail, RoomInv, NeverRefused
  <1>13. ASSUME NEW decoded \in BOOLEAN, RunPicture(decoded) PROVE RoomInv'
    <2>1. /\ phase = "finish" /\ current # NoPicture /\ activeSps \in SpsSet
          /\ Cardinality(DOMAIN dpb) < activeSps.maxDpbFrames
      BY <1>1, <1>2, <1>13, DpbFinite DEF RunPicture, RoomInv
    <2>2. /\ UNCHANGED activeSps
          /\ Go("output") \/ Fail("va")
      BY <1>13, <2>1, Zenon DEF RunPicture
    <2> QED
      BY <2>1, <2>2 DEF Go, Fail, RoomInv, NeverRefused
  <1>14. CASE OutputPicture
    BY <1>14 DEF OutputPicture, stream, RoomInv, NeverRefused
  <1>15. CASE FinishPicture
    BY <1>15 DEF FinishPicture, stream, RoomInv, NeverRefused
  <1>16. CASE Reset
    BY <1>1, <1>16 DEF Reset, RoomInv, NeverRefused
  <1>17. CASE TakeFrames
    BY <1>1, <1>17 DEF TakeFrames, stream, RoomInv, NeverRefused
  <1>18. CASE UNCHANGED vars
    BY <1>18 DEF vars, stream, RoomInv, NeverRefused
  <1> QED
    BY <1>3, <1>4, <1>5, <1>6, <1>7, <1>8, <1>9, <1>10, <1>11, <1>12, <1>13, <1>14, <1>15,
       <1>16, <1>17, <1>18 DEF Next, Step

\* A stream whose sets leave room for the current picture, in a buffer within
\* the limit of its level, is never refused for a full DPB, whatever else is
\* lost, refused or out of order: the two bumping loops and the marking make
\* the room that store_picture asks for.
THEOREM RoomForEachPicture == Spec /\ []RpsFits => []NeverRefused
  <1>1. Init => RoomInv
    BY DEF Init, RoomInv, NeverRefused
  <1>2. RoomInv => NeverRefused
    BY DEF RoomInv
  <1> QED
    BY <1>1, <1>2, NextRoom, Inductive, PTL DEF Spec
=============================================================================
