---------------------------- MODULE ParameterSets ----------------------------
(***************************************************************************)
(* The tables of parameter sets of both parsers (struct Parser in          *)
(* src/src/codec/h264/parser.rs and src/src/codec/h265/parser.rs).  A set  *)
(* is kept with the one above it as that was when it was parsed, the Rc of *)
(* the code; H.264 has no video parameter sets.                            *)
(*                                                                         *)
(* submit() reads the units of a call in order and ends at the first one   *)
(* the parser refuses: what came before it stays, what comes after is      *)
(* lost.                                                                   *)
(***************************************************************************)
EXTENDS Integers, FiniteSets, Sequences, Functions

CONSTANTS
    MaxVps, \* MAX_VPS_COUNT
    MaxSps, \* MAX_SPS_COUNT
    MaxPps  \* MAX_PPS_COUNT

ASSUME ParameterSetsAssumption == {MaxVps, MaxSps, MaxPps} \subseteq Nat

\* A unit of a call: the set `id`, of the set `of` above it; a slice names a
\* picture parameter set.  Its version is its place in what was submitted.
Unit == [kind : {"vps", "sps", "pps", "slice"}, id : Nat, of : Nat, version : Nat]

VARIABLES
    vpses,  \* Parser::active_vpses
    spses,  \* Parser::active_spses
    ppses,  \* Parser::active_ppses
    call,   \* the units of the call in progress still to be read
    parsed, \* history: the sets kept, in order
    sliced, \* history: the sets the last slice was read with, or NoSet
    sent    \* history: the units submitted, in order

setVars == <<vpses, spses, ppses, call, parsed, sliced, sent>>

NoSet == [version |-> 0]

SetsInit ==
    /\ vpses = [i \in {} |-> NoSet]
    /\ spses = [i \in {} |-> NoSet]
    /\ ppses = [i \in {} |-> NoSet]
    /\ call = <<>>
    /\ parsed = <<>>
    /\ sliced = NoSet
    /\ sent = <<>>

Submit(units) ==
    /\ call = <<>>
    /\ \A i \in DOMAIN units : units[i].version = Len(sent) + i
    /\ call' = units
    /\ sent' = sent \o units
    /\ UNCHANGED <<vpses, spses, ppses, parsed, sliced>>

\* The next unit is of this kind.
Reading(kind) == call # <<>> /\ Head(call).kind = kind

\* Mutant: a set that was there already stays.
KeptFirst(table, max, id, set) ==
    IF Cardinality(DOMAIN table) >= max THEN {}
    ELSE {[i \in DOMAIN table \cup {id} |-> IF i \in DOMAIN table THEN table[i] ELSE set]}

\* The table with one more set, or with one replaced; a full one takes neither.
Kept(table, max, id, set) ==
    IF Cardinality(DOMAIN table) >= max THEN {}
    ELSE {[i \in DOMAIN table \cup {id} |-> IF i = id THEN set ELSE table[i]]}

Go ==
    /\ call' = Tail(call)
    /\ parsed' = Append(parsed, Head(call))
    /\ UNCHANGED sent

ParseVps ==
    /\ Reading("vps")
    /\ vpses' \in Kept(vpses, MaxVps, Head(call).id, [version |-> Head(call).version])
    /\ Go
    /\ UNCHANGED <<spses, ppses, sliced>>

\* "A non-existing VPS means the SPS is not using any VPS."
ParseSps ==
    /\ Reading("sps")
    /\ LET vps == IF Head(call).of \in DOMAIN vpses THEN vpses[Head(call).of] ELSE NoSet
       IN  spses' \in Kept(spses, MaxSps, Head(call).id, [version |-> Head(call).version, vps |-> vps])
    /\ Go
    /\ UNCHANGED <<vpses, ppses, sliced>>

ParsePps ==
    /\ Reading("pps")
    /\ Head(call).of \in DOMAIN spses
    /\ ppses' \in Kept(ppses, MaxPps, Head(call).id,
                       [version |-> Head(call).version, sps |-> spses[Head(call).of]])
    /\ Go
    /\ UNCHANGED <<vpses, spses, sliced>>

\* parse_slice_header reads the slice with its set and the ones that one keeps.
ParseSlice ==
    /\ Reading("slice")
    /\ Head(call).id \in DOMAIN ppses
    /\ sliced' = ppses[Head(call).id]
    /\ call' = Tail(call)
    /\ UNCHANGED <<vpses, spses, ppses, parsed, sent>>

\* The parser refuses the unit: its table is full, the set it refers to is not
\* there, or it is not well formed.
Refuse ==
    /\ call # <<>>
    /\ call' = <<>>
    /\ UNCHANGED <<vpses, spses, ppses, parsed, sliced, sent>>

SetsNext == ParseVps \/ ParseSps \/ ParsePps \/ ParseSlice \/ Refuse

\* Any calls, of any units.
SetsSpec ==
    SetsInit /\ [][(\E units \in Seq(Unit) : Submit(units)) \/ SetsNext]_setVars

-----------------------------------------------------------------------------

\* The sets of that kind and identifier among the units sent before the one
\* that is read, the last of them only.
LatestSent(kind, id) ==
    LET before == 1 .. Len(sent) - Len(call)
    IN  {sent[i] : i \in {i \in before :
            /\ sent[i].kind = kind /\ sent[i].id = id
            /\ \A j \in before : j > i => sent[j].kind # kind \/ sent[j].id # id}}

\* Once the sets a slice uses have arrived from the top down in their last
\* version, it is read with exactly these, whatever was replaced, refused or
\* lost before.
SlicesReadAsWritten ==
    [][ParseSlice =>
          \A p \in LatestSent("pps", Head(call).id) : \A s \in LatestSent("sps", p.of) :
          LET vs == LatestSent("vps", s.of)
          IN  /\ {p, s} \cup vs \subseteq Range(parsed)
              /\ s.version < p.version /\ \A v \in vs : v.version < s.version
              => \E vps \in IF vs = {} THEN {NoSet} ELSE {[version |-> v.version] : v \in vs} :
                    sliced' = [version |-> p.version,
                               sps |-> [version |-> s.version, vps |-> vps]]
      ]_setVars
=============================================================================
