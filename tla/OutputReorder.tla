--------------------------- MODULE OutputReorder ---------------------------
(***************************************************************************)
(* What a decoder of this crate promises about its output, whatever the    *)
(* codec: the doc of Decoder::decode (src/src/decode.rs) says it returns   *)
(* "the pictures that came due, in output order".  A decoded picture waits *)
(* with its picture order count; pictures leave in that order, each once;  *)
(* and a picture that never leaves was discarded with all that waited,     *)
(* which only an IDR or IRAP picture's no_output_of_prior_pics_flag asks   *)
(* for.  H264Decoder implements this specification for any stream,         *)
(* H265Decoder while the order counts in its DPB are apart.                *)
(***************************************************************************)
EXTENDS Integers, FiniteSets, Sequences

VARIABLES
    number,    \* the picture being decoded: its number, in decoding order
    count,     \* and its picture order count; both come from the stream, and
               \* what follows says nothing of how they change
    waiting,   \* the pictures held back, each with its picture order count
    out,       \* the pictures that came due, in the order in which they did
    discarded  \* the pictures dropped without output

vars == <<waiting, out, discarded>>

Released == {out[k] : k \in DOMAIN out}

Before(i, j) ==
    \/ waiting[i] < waiting[j]
    \/ waiting[i] = waiting[j] /\ i < j

\* The sets of waiting pictures that may leave together: none overtakes one
\* that stays.
Due == {S \in SUBSET DOMAIN waiting :
           \A i \in S, j \in DOMAIN waiting \ S : Before(i, j)}

\* The sequences of the pictures of S in output order.
Orders(S) == {s \in [1 .. Cardinality(S) -> S] :
                 \A m, n \in 1 .. Cardinality(S) : m < n => Before(s[m], s[n])}

Stay(S) == [i \in DOMAIN waiting \ S |-> waiting[i]]

Init ==
    /\ waiting = [i \in {} |-> 0]
    /\ out = <<>>
    /\ discarded = {}

\* Pictures come due.
Release(S, s) ==
    /\ waiting' = Stay(S)
    /\ out' = out \o s
    /\ UNCHANGED discarded

\* A picture that was never seen before.
IsNew ==
    /\ number \in Nat \ (DOMAIN waiting \cup Released \cup discarded)
    /\ count \in Int

\* The picture is decoded and waits, after the pictures of S left.
Accept(S, s) ==
    /\ IsNew
    /\ waiting' = [j \in DOMAIN Stay(S) \cup {number} |-> IF j = number THEN count ELSE waiting[j]]
    /\ out' = out \o s
    /\ UNCHANGED discarded

\* The picture is decoded and is itself due, after the pictures of S left: none
\* of those that stay comes before it.
Pass(S, s) ==
    /\ IsNew
    /\ \A j \in DOMAIN Stay(S) : count <= waiting[j]
    /\ waiting' = Stay(S)
    /\ out' = out \o s \o <<number>>
    /\ UNCHANGED discarded

\* Everything that waits is dropped.
Discard ==
    /\ discarded' = discarded \cup DOMAIN waiting
    /\ waiting' = [i \in {} |-> 0]
    /\ UNCHANGED out

Next ==
    \/ \E S \in Due : \E s \in Orders(S) :
          Release(S, s) \/ Accept(S, s) \/ Pass(S, s)
    \/ Discard

Spec == Init /\ [][Next]_vars

-----------------------------------------------------------------------------

TypeOK ==
    /\ DOMAIN waiting \subseteq Nat
    /\ waiting \in [DOMAIN waiting -> Int]
    /\ out \in Seq(Nat)
    /\ discarded \subseteq Nat

\* No picture comes due twice, and none that waits or was discarded ever did:
\* decode() and flush() between them hand each picture over at most once.
EachPictureOnce ==
    /\ \A m, n \in DOMAIN out : m # n => out[m] # out[n]
    /\ Released \cap DOMAIN waiting = {}
    /\ Released \cap discarded = {}
    /\ discarded \cap DOMAIN waiting = {}
=============================================================================
