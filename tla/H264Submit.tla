----------------------------- MODULE H264Submit -----------------------------
(***************************************************************************)
(* H264::submit of src/src/decode.rs: the loop over the units of an access *)
(* unit, which tells where one picture ends and the next begins.           *)
(*                                                                         *)
(* A slice says whether it is the first of its picture, and nothing else   *)
(* of where it belongs: it goes to the picture in flight, begins one if    *)
(* there is none, or, being a first one, finishes the one in flight and    *)
(* begins the next.  An error returns from the loop: the rest of the       *)
(* access unit is not read.  Units other than slices are left out here:    *)
(* their tables are module ParameterSets, and one that is refused ends the *)
(* call as a refused slice does.                                           *)
(***************************************************************************)
EXTENDS H264Decoder

VARIABLES
    units, \* the slices of the access unit that are still to be read
    read,  \* the slice that was read, until it is handed to the driver
    begun  \* history: the coded picture begin_picture was last called for

submitVars == <<vars, units, read, begun>>

\* coded: which picture of the stream it is a slice of; first:
\* first_mb_in_slice is 0.
Slice == [coded : Nat \ {0}, picture : CodedPicture, first : BOOLEAN]

NoSlice == [none |-> TRUE]

SubmitInit ==
    /\ Init
    /\ units = <<>>
    /\ read = NoSlice
    /\ begun = 0

\* No call is in progress.
Outside == phase = "idle" /\ units = <<>>

\* submit() begins.
Submit(accessUnit) ==
    /\ Outside
    /\ units' = accessUnit
    /\ UNCHANGED <<vars, read, begun>>

\* Mutant: an error skips the slice, and the loop goes on with the next.
RestOfUnitSkipping ==
    /\ read' = IF phase' = "idle" THEN NoSlice ELSE read
    /\ UNCHANGED <<units, begun>>

\* What a step leaves of the access unit: nothing, if it failed.
RestOfUnit ==
    /\ units' = IF phase' = "idle" THEN <<>> ELSE units
    /\ read' = IF phase' = "idle" THEN NoSlice ELSE read
    /\ UNCHANGED begun

\* begin_picture for the slice s, of which `left` follow.
BeginWith(s, left) ==
    /\ BeginPicture(s.picture)
    /\ begun' = s.coded
    /\ IF phase' = "idle"
       THEN units' = <<>> /\ read' = NoSlice
       ELSE units' = left /\ read' = s

\* The next slice is read: it begins a picture, finishes the one in flight, or
\* belongs to it.
ReadSlice ==
    /\ units # <<>>
    /\ read = NoSlice
    /\ \/ phase = "idle" /\ BeginWith(Head(units), Tail(units))
       \/ /\ phase = "picture"
          /\ IF Head(units).first THEN MarkReference ELSE UNCHANGED vars
          /\ read' = Head(units)
          /\ units' = Tail(units)
          /\ UNCHANGED begun

\* The picture before is finished: begin_picture for the slice that was read.
NextPicture ==
    /\ phase = "ready"
    /\ read # NoSlice
    /\ BeginWith(read, units)

DecodeSlice ==
    /\ phase = "picture"
    /\ read # NoSlice
    /\ read' = NoSlice
    /\ UNCHANGED <<vars, units, begun>>

\* The loop is done: finish_picture for the picture in flight.
EndUnit ==
    /\ units = <<>>
    /\ read = NoSlice
    /\ MarkReference
    /\ UNCHANGED <<units, read, begun>>

\* The steps of begin_picture and finish_picture, and their errors.
Proceed ==
    /\ \/ RefuseGap
       \/ FillGap
       \/ \E allocated \in BOOLEAN : StartPicture(allocated)
       \/ Mmco
       \/ StorePicture
    /\ RestOfUnit

\* decode_slice, the parser or the driver refuse.
Abandon == AbandonPicture /\ RestOfUnit

\* The calls outside of submit.
Call ==
    /\ units = <<>>
    /\ read = NoSlice
    /\ SubmitParameterSets \/ Reset \/ TakeFrames
    /\ UNCHANGED <<units, read, begun>>

SubmitNext ==
    \/ \E accessUnit \in Seq(Slice) : Submit(accessUnit)
    \/ ReadSlice
    \/ NextPicture
    \/ DecodeSlice
    \/ EndUnit
    \/ Proceed
    \/ Abandon
    \/ Call

SubmitSpec == SubmitInit /\ [][SubmitNext]_submitVars

-----------------------------------------------------------------------------
(* Properties *)

\* What the driver gets with a picture are the slices of one coded picture,
\* also when a call holds several, slices are missing, or calls fail half way;
\* and a coded picture is begun only once, so no remainder of a failed one is
\* decoded as a picture.  submit: "`first_mb_in_slice == 0` starts a new one,
\* so the picture in flight is done".
SlicesOfOnePicture ==
    [][/\ DecodeSlice => read.coded = begun
       /\ phase' = "gap" /\ phase # "gap" => begun' > begun]_submitVars
=============================================================================
