----------------------------- MODULE NaluEscape -----------------------------
(***************************************************************************)
(* The bytes of NAL units: EmulationPrevention of                          *)
(* src/src/codec/h264/nalu_writer.rs and nal() of src/src/encode/h265.rs   *)
(* on the way out, Nalu::next of src/src/codec/h264/nalu.rs and BitReader  *)
(* of src/src/bitstream_utils.rs on the way in.                            *)
(***************************************************************************)
EXTENDS Integers, Sequences, SequencesExt

\* Where the bytes of s, one after another, take a reader or writer that starts
\* as `first`: its states, by the number of bytes.
Along(Step(_, _), first, s) ==
    LET state[n \in 0 .. Len(s)] == IF n = 0 THEN first ELSE Step(state[n - 1], s[n])
    IN  state

-----------------------------------------------------------------------------
(* EmulationPrevention                                                     *)

\* Mutant: three is not escaped.
WriteByteBelowThree(w, byte) ==
    CASE w.prev = <<0, 0>> /\ byte < 3 -> [out |-> w.out \o <<0, 0, 3, byte>>, prev |-> <<>>]
      [] Len(w.prev) < 2               -> [w EXCEPT !.prev = Append(@, byte)]
      [] OTHER -> [out |-> Append(w.out, Head(w.prev)), prev |-> <<w.prev[2], byte>>]

\* prev_bytes as a sequence, the older first: the bytes not yet written.
WriteByte(w, byte) ==
    CASE w.prev = <<0, 0>> /\ byte <= 3 -> [out |-> w.out \o <<0, 0, 3, byte>>, prev |-> <<>>]
      [] Len(w.prev) < 2                -> [w EXCEPT !.prev = Append(@, byte)]
      [] OTHER -> [out |-> Append(w.out, Head(w.prev)), prev |-> <<w.prev[2], byte>>]

\* write_all and flush.
Escaped(payload) ==
    LET w == Along(WriteByte, [out |-> <<>>, prev |-> <<>>], payload)[Len(payload)]
    IN  w.out \o w.prev

\* The loop of nal() of the H.265 encoder: here the byte after an escape counts.
Push(w, byte) ==
    [out   |-> w.out \o (IF w.zeros = 2 /\ byte <= 3 THEN <<3>> ELSE <<>>) \o <<byte>>,
     zeros |-> CASE byte # 0                -> 0
                 [] byte = 0 /\ w.zeros = 2 -> 1
                 [] OTHER                   -> w.zeros + 1]

EscapedH265(payload) ==
    Along(Push, [out |-> <<>>, zeros |-> 0], payload)[Len(payload)].out

\* The headers of a sequence parameter set: write_header, and that of nal().
HeaderOf(codec) == IF codec = "H264" THEN <<103>> ELSE <<66, 1>>

\* A unit as it is written, without its start code.
NalUnit(codec, payload) ==
    HeaderOf(codec) \o (IF codec = "H264" THEN Escaped(payload) ELSE EscapedH265(payload))

Written(codec, units) ==
    Along(LAMBDA out, payload : out \o <<0, 0, 0, 1>> \o NalUnit(codec, payload),
          <<>>, units)[Len(units)]

-----------------------------------------------------------------------------
(* Nalu::next                                                              *)

\* find_start_code
StartCodes(stream) == {i \in 1 .. Len(stream) - 2 : SubSeq(stream, i, i + 2) = <<0, 0, 1>>}

\* trailing_zero_8bits are discarded.
Untrailed(bytes) ==
    LET ends == {i \in DOMAIN bytes : bytes[i] # 0}
    IN  IF ends = {} THEN <<>> ELSE SubSeq(bytes, 1, Max(ends))

\* The n-th of the numbers in S, from below.
Nth(S, n) == CHOOSE i \in S : Cardinality({k \in S : k < i}) = n - 1

\* The units of a stream, headers and all.
Units(stream) ==
    LET codes  == StartCodes(stream)
        count  == Cardinality(codes)
        end(n) == IF n = count THEN Len(stream) ELSE Nth(codes, n + 1) - 1
    IN  [n \in 1 .. count |-> Untrailed(SubSeq(stream, Nth(codes, n) + 3, end(n)))]

-----------------------------------------------------------------------------
(* BitReader::move_to_next_byte                                            *)

\* `prev` is prev_two_bytes; after a skipped byte they are 0xffff.
ReadByte(r, byte) ==
    IF r.prev = <<0, 0>> /\ byte = 3 THEN [r EXCEPT !.prev = <<255, 255>>]
    ELSE [out |-> Append(r.out, byte), prev |-> <<r.prev[2], byte>>]

\* What the parser reads of a unit past its header.
Read(codec, unit) ==
    LET bytes == SubSeq(unit, Len(HeaderOf(codec)) + 1, Len(unit))
    IN  Along(ReadByte, [out |-> <<>>, prev |-> <<255, 255>>], bytes)[Len(bytes)].out
=============================================================================
