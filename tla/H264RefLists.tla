---------------------------- MODULE H264RefLists ----------------------------
(***************************************************************************)
(* The reference picture lists of a slice (8.2.4), for frames: those the   *)
(* DPB builds for a picture (src/src/codec/h264/dpb.rs) and what the       *)
(* slice header makes of them (src/src/decode.rs).  A list is a sequence   *)
(* of picture numbers of the DPB.                                          *)
(***************************************************************************)
EXTENDS H264Dpb, SequencesExt

\* RefPicListModification: idc 0 and 1 carry abs_diff_pic_num_minus1 + 1, idc 2
\* a long-term number.  The parser ends the list at an idc of 3.
Modification == [idc : 0 .. 2, value : Nat]

-----------------------------------------------------------------------------
(* build_ref_pic_lists *)

\* sort_by_key: a stable sort of the pictures of S.
Sorted(S, key(_)) ==
    SetToSortSeq(S, LAMBDA i, j : key(i) < key(j) \/ (key(i) = key(j) /\ i < j))

LongTermSorted(d) == Sorted(LongTerm(d), LAMBDA i : d[i].longTermPicNum)

\* Without a reference that exists there are no lists.
NoLists(d) == \A i \in Refs(d) : d[i].nonexisting

ListP(d) ==
    IF NoLists(d) THEN <<>>
    ELSE Sorted(ShortTerm(d), LAMBDA i : -d[i].picNum) \o LongTermSorted(d)

\* Pictures invented for a gap have no order count of type 0.
Ordered(d, type) == {i \in ShortTerm(d) : type = 0 => ~d[i].nonexisting}

Falling(d, S) == Sorted(S, LAMBDA i : -d[i].poc)
Rising(d, S) == Sorted(S, LAMBDA i : d[i].poc)

ListB0(d, poc, type) ==
    LET short == Ordered(d, type)
        past  == {i \in short : d[i].poc < poc}
    IN  IF NoLists(d) THEN <<>>
        ELSE Falling(d, past) \o Rising(d, short \ past) \o LongTermSorted(d)

Swapped(list) == <<list[2], list[1]>> \o SubSeq(list, 3, Len(list))

ListB1(d, poc, type) ==
    LET short  == Ordered(d, type)
        future == {i \in short : d[i].poc > poc}
        list   == Rising(d, future) \o Falling(d, short \ future) \o LongTermSorted(d)
    IN  CASE NoLists(d) -> <<>>
          [] ~NoLists(d) /\ Len(list) > 1 /\ list = ListB0(d, poc, type) -> Swapped(list)
          [] OTHER -> list

-----------------------------------------------------------------------------
(* modify_ref_pic_list *)

\* insert_modification: `at` counts from 0, `same` are the pictures shuffled out.
\* The picture that was last stays behind when the list was short.
Inserted(list, entry, active, at, same) ==
    LET n     == Min({at, Len(list)})
        whole == InsertAt(list, n + 1, entry)
        last  == Min({Len(whole), active + 1})
        kept  == SelectSeq(SubSeq(whole, n + 2, last), LAMBDA i : i \notin same)
        moved == SubSeq(whole, 1, n + 1) \o kept
                     \o SubSeq(whole, n + 2 + Len(kept), Len(whole))
    IN  SubSeq(moved, 1, Min({active, Len(moved)}))

\* Mutant: each difference is to the current picture.
PredictedFromCurrent(picNum, named) == picNum

\* picNumLXPred: the next difference is to the picture this one named.
Predicted(picNum, named) == named

\* picNumLXNoWrap
NoWrap(pred, value, idc, maxPicNum) ==
    IF idc = 0 THEN IF pred - value < 0 THEN pred - value + maxPicNum ELSE pred - value
    ELSE IF pred + value >= maxPicNum THEN pred + value - maxPicNum ELSE pred + value

\* One round of the loop: the list, the prediction and the index, or an error
\* once there is no such picture.
Modified(d, picNum, maxPicNum, active, state, m) ==
    LET named == NoWrap(state.pred, m.value, m.idc, maxPicNum)
        wanted == IF named > picNum THEN named - maxPicNum ELSE named
        same  == IF m.idc = 2 THEN {i \in LongTerm(d) : d[i].longTermPicNum = m.value}
                 ELSE {i \in ShortTerm(d) : d[i].picNum = wanted}
    IN  IF state.failed \/ same = {} THEN [state EXCEPT !.failed = TRUE]
        ELSE LET entry == CHOOSE i \in First(same) : TRUE
             IN  [failed |-> FALSE,
                  pred   |-> IF m.idc = 2 THEN state.pred
                             ELSE Predicted(picNum, named),
                  idx    |-> Min({state.idx, Len(state.list)}) + 1,
                  list   |-> Inserted(state.list, entry, active, state.idx, same)]

\* The list of a slice with `active` indices, from the list of its picture.
ListOfSlice(d, picNum, maxPicNum, initial, active, modifications) ==
    FoldLeft(LAMBDA state, m : Modified(d, picNum, maxPicNum, active, state, m),
             [failed |-> FALSE, pred |-> picNum, idx |-> 0,
              list |-> SubSeq(initial, 1, Min({active, Len(initial)}))],
             modifications)
=============================================================================
