----------------------------- MODULE CodecProofs -----------------------------
(***************************************************************************)
(* Six of the algorithms under the codecs, for any sizes: the tables of    *)
(* parameter sets, told by what was parsed; the loops of the H.264 DPB,    *)
(* each of which comes to what H264Dpb says of it; the bytes of NAL units, *)
(* split and read back as they were written; the reference lists of H.265, *)
(* against the procedure of the standard; the order counts of H.264,       *)
(* against those of the encoder; the predicted reference picture sets of   *)
(* H.265, against the pictures that are meant.                             *)
(***************************************************************************)
EXTENDS MCCodec, H264DpbProofs, SequenceTheorems

-----------------------------------------------------------------------------
(* Parameter sets: what the tables hold, told by what was parsed.          *)

\* The last unit of K with that kind and identifier before version n, as a set
\* of at most one.
Latest(K, kind, id, n) ==
    {u \in K : /\ u.kind = kind /\ u.id = id /\ u.version < n
               /\ \A w \in K : w.kind = kind /\ w.id = id /\ w.version < n
                                  => w.version <= u.version}

\* What is kept of a set that was parsed: its version, with what was kept of
\* the last set above it that was parsed before it.
VpsAbove(K, s) ==
    LET vs == Latest(K, "vps", s.of, s.version)
    IN  IF vs = {} THEN {NoSet} ELSE {[version |-> v.version] : v \in vs}

SpsKept(K, s) == {[version |-> s.version, vps |-> vps] : vps \in VpsAbove(K, s)}

SpsAbove(K, p) == UNION {SpsKept(K, s) : s \in Latest(K, "sps", p.of, p.version)}

PpsKept(K, p) == {[version |-> p.version, sps |-> sps] : sps \in SpsAbove(K, p)}

\* The place in the stream of the unit that is read next.
Place == Len(sent) - Len(call) + 1

\* The call in progress is the end of what was sent, what was parsed is from
\* before it, and a unit's version is its place.
StreamRead ==
    /\ sent \in Seq(Unit) /\ call \in Seq(Unit) /\ parsed \in Seq(Unit)
    /\ Len(call) <= Len(sent)
    /\ \A i \in 1 .. Len(sent) : sent[i].version = i
    /\ \A i \in 1 .. Len(call) : call[i] = sent[Len(sent) - Len(call) + i]
    /\ \A u \in Range(parsed) : /\ u.version \in 1 .. Len(sent) - Len(call)
                                /\ u = sent[u.version]

VpsesHold(K, n) ==
    /\ \A i \in DOMAIN vpses : \E v \in Latest(K, "vps", i, n) : vpses[i] = [version |-> v.version]
    /\ \A u \in K : u.kind = "vps" => u.id \in DOMAIN vpses

SpsesHold(K, n) ==
    \A i \in DOMAIN spses : \E s \in Latest(K, "sps", i, n) : spses[i] \in SpsKept(K, s)

PpsesHold(K, n) ==
    \A i \in DOMAIN ppses : \E p \in Latest(K, "pps", i, n) : ppses[i] \in PpsKept(K, p)

\* Each table holds of each identifier the last set that was parsed, with the
\* sets above it as they were then.
TablesHold ==
    /\ VpsesHold(Range(parsed), Place)
    /\ SpsesHold(Range(parsed), Place)
    /\ PpsesHold(Range(parsed), Place)

SetsInv == StreamRead /\ TablesHold

\* All of K comes before place n.
Before(K, n) == K \subseteq Unit /\ \A w \in K : w.version < n

\* The numbers in a unit.
LEMMA UnitFields ==
  ASSUME NEW u \in Unit
  PROVE  u.version \in Nat /\ u.id \in Nat /\ u.of \in Nat
  BY DEF Unit

\* What the last unit of a kind is once the unit of version n is parsed too.
LEMMA LatestOfMore ==
  ASSUME NEW K, NEW n \in Nat, Before(K, n), NEW u \in Unit, u.version = n,
         NEW kind, NEW id
  PROVE  /\ \A m \in Nat : m <= n => Latest(K \cup {u}, kind, id, m) = Latest(K, kind, id, m)
         /\ u.kind = kind /\ u.id = id => u \in Latest(K \cup {u}, kind, id, n + 1)
         /\ ~(u.kind = kind /\ u.id = id) =>
                Latest(K \cup {u}, kind, id, n + 1) = Latest(K, kind, id, n)
  <1>0. \A w \in K : w.version \in Nat /\ w.version < n
    BY UnitFields DEF Before
  <1>1. ASSUME NEW m \in Nat, m <= n
        PROVE  Latest(K \cup {u}, kind, id, m) = Latest(K, kind, id, m)
    BY <1>0, <1>1, SMTT(20) DEF Latest
  <1>2. ASSUME u.kind = kind, u.id = id
        PROVE  u \in Latest(K \cup {u}, kind, id, n + 1)
    BY <1>0, <1>2 DEF Latest
  <1>3. ASSUME ~(u.kind = kind /\ u.id = id)
        PROVE  Latest(K \cup {u}, kind, id, n + 1) = Latest(K, kind, id, n)
    BY <1>0, <1>3, SMTT(20) DEF Latest
  <1> QED
    BY <1>1, <1>2, <1>3

\* It is the same at any later place.
LEMMA LatestLater ==
  ASSUME NEW K, NEW n \in Nat, NEW m \in Nat, n <= m, Before(K, n), NEW kind, NEW id
  PROVE  Latest(K, kind, id, m) = Latest(K, kind, id, n)
  <1>0. \A w \in K : w.version \in Nat /\ w.version < n
    BY UnitFields DEF Before
  <1> QED
    BY <1>0 DEF Latest

\* What was kept of a set does not change when another is parsed after it.
LEMMA KeptStays ==
  ASSUME NEW K, NEW n \in Nat, Before(K, n), NEW u \in Unit, u.version = n,
         NEW s \in Unit, s.version <= n
  PROVE  /\ VpsAbove(K \cup {u}, s) = VpsAbove(K, s)
         /\ SpsKept(K \cup {u}, s) = SpsKept(K, s)
         /\ SpsAbove(K \cup {u}, s) = SpsAbove(K, s)
         /\ PpsKept(K \cup {u}, s) = PpsKept(K, s)
  <1>1. ASSUME NEW t \in Unit, t.version <= n
        PROVE  /\ VpsAbove(K \cup {u}, t) = VpsAbove(K, t)
               /\ SpsKept(K \cup {u}, t) = SpsKept(K, t)
    <2>1. Latest(K \cup {u}, "vps", t.of, t.version) = Latest(K, "vps", t.of, t.version)
      BY <1>1, UnitFields, LatestOfMore
    <2>2. VpsAbove(K \cup {u}, t) = VpsAbove(K, t)
      BY <2>1, Zenon DEF VpsAbove
    <2> QED
      BY <2>2, Zenon DEF SpsKept
  <1>2. Latest(K \cup {u}, "sps", s.of, s.version) = Latest(K, "sps", s.of, s.version)
    BY UnitFields, LatestOfMore
  <1>3. \A t \in Latest(K, "sps", s.of, s.version) : SpsKept(K \cup {u}, t) = SpsKept(K, t)
    <2> TAKE t \in Latest(K, "sps", s.of, s.version)
    <2>1. t \in Unit /\ t.version < n
      BY DEF Latest, Before
    <2>2. t.version \in Nat
      BY <2>1, UnitFields
    <2>3. t.version <= n
      BY <2>1, <2>2
    <2> QED
      BY <1>1, <2>1, <2>3
  <1>4. SpsAbove(K \cup {u}, s) = SpsAbove(K, s)
    BY <1>2, <1>3, Zenon DEF SpsAbove
  <1>5. PpsKept(K \cup {u}, s) = PpsKept(K, s)
    BY <1>4, Zenon DEF PpsKept
  <1> QED
    BY <1>1, <1>4, <1>5

-----------------------------------------------------------------------------
(* Reading the units of a call *)

\* How many units there are, and where those that were parsed come from.
LEMMA UnitsOfCall ==
  ASSUME StreamRead
  PROVE  /\ Len(sent) \in Nat /\ Len(call) \in Nat /\ Place \in Nat
         /\ Before(Range(parsed), Place)
         /\ DOMAIN sent = 1 .. Len(sent) /\ DOMAIN call = 1 .. Len(call)
         /\ DOMAIN parsed = 1 .. Len(parsed)
  <1>1. /\ Len(sent) \in Nat /\ Len(call) \in Nat /\ Place \in Nat
        /\ DOMAIN sent = 1 .. Len(sent) /\ DOMAIN call = 1 .. Len(call)
        /\ DOMAIN parsed = 1 .. Len(parsed)
    BY DEF StreamRead, Place
  <1>2. Range(parsed) \subseteq Unit
    BY RangeOfSeq DEF StreamRead
  <1>3. \A w \in Range(parsed) : w.version < Place
    BY <1>1 DEF StreamRead, Place
  <1> QED
    BY <1>1, <1>2, <1>3 DEF Before

\* The unit that is read is the one of its place.
LEMMA HeadOfCall ==
  ASSUME StreamRead, call # <<>>
  PROVE  /\ Head(call) \in Unit /\ Tail(call) \in Seq(Unit)
         /\ Len(Tail(call)) = Len(call) - 1 /\ Len(call) > 0
         /\ \A i \in 1 .. Len(call) - 1 : Tail(call)[i] = call[i + 1]
         /\ Head(call) = sent[Place] /\ Head(call).version = Place
         /\ Place \in 1 .. Len(sent)
  <1>1. /\ Head(call) \in Unit /\ Tail(call) \in Seq(Unit)
        /\ Len(Tail(call)) = Len(call) - 1 /\ Len(call) > 0
        /\ \A i \in 1 .. Len(call) - 1 : Tail(call)[i] = call[i + 1]
    BY DEF StreamRead
  <1>2. Place \in 1 .. Len(sent)
    BY <1>1, UnitsOfCall DEF StreamRead, Place
  <1>3. call[1] = sent[Len(sent) - Len(call) + 1]
    BY <1>1, UnitsOfCall DEF StreamRead
  <1>4. Head(call) = call[1]
    BY DEF StreamRead
  <1>5. Head(call) = sent[Place]
    BY <1>3, <1>4 DEF Place
  <1> QED
    BY <1>1, <1>2, <1>5 DEF StreamRead

\* One more unit was parsed.
LEMMA RangeOfAppend ==
  ASSUME NEW s \in Seq(Unit), NEW u \in Unit
  PROVE  Append(s, u) \in Seq(Unit) /\ Range(Append(s, u)) = Range(s) \cup {u}
  <1>0. Append(s, u) \in Seq(Unit)
    OBVIOUS
  <1>1. /\ Len(s) \in Nat /\ DOMAIN s = 1 .. Len(s)
        /\ DOMAIN Append(s, u) = 1 .. Len(s) + 1
        /\ \A i \in 1 .. Len(s) : Append(s, u)[i] = s[i]
        /\ Append(s, u)[Len(s) + 1] = u
    OBVIOUS
  <1>2. ASSUME NEW w \in Range(Append(s, u))
        PROVE  w \in Range(s) \cup {u}
    <2>1. PICK i \in 1 .. Len(s) + 1 : w = Append(s, u)[i]
      BY <1>1 DEF Range
    <2>2. CASE i = Len(s) + 1
      BY <1>1, <2>1, <2>2
    <2>3. CASE i # Len(s) + 1
      <3>1. i \in 1 .. Len(s)
        BY <1>1, <2>3
      <3>2. w = s[i]
        BY <1>1, <2>1, <3>1
      <3> QED
        BY <1>1, <3>1, <3>2 DEF Range
    <2> QED
      BY <2>2, <2>3
  <1>3. ASSUME NEW i \in 1 .. Len(s)
        PROVE  s[i] \in Range(Append(s, u))
    <2>1. i \in 1 .. Len(s) + 1 /\ Append(s, u)[i] = s[i]
      BY <1>1
    <2> QED
      BY <1>1, <2>1 DEF Range
  <1>4. u \in Range(Append(s, u))
    <2>1. Len(s) + 1 \in 1 .. Len(s) + 1
      BY <1>1
    <2> QED
      BY <1>1, <2>1 DEF Range
  <1> QED
    BY <1>0, <1>1, <1>2, <1>3, <1>4 DEF Range

\* A unit that was read is behind the call.
LEMMA GoStream ==
  ASSUME StreamRead, call # <<>>, call' = Tail(call), sent' = sent,
         parsed' = parsed \/ parsed' = Append(parsed, Head(call))
  PROVE  StreamRead' /\ Place' = Place + 1
  <1>1. /\ Len(sent) \in Nat /\ Len(call) \in Nat /\ Place \in Nat
    BY UnitsOfCall
  <1>2. Len(call') = Len(call) - 1
    BY HeadOfCall
  <1>3. Place' = Place + 1
    BY <1>1, <1>2 DEF Place
  <1>4. ASSUME NEW u \in Range(parsed')
        PROVE  u.version \in 1 .. Place /\ u = sent[u.version]
    <2>1. CASE u \in Range(parsed)
      BY <1>1, <2>1 DEF StreamRead, Place
    <2>2. CASE u = Head(call)
      BY <1>1, <2>2, HeadOfCall
    <2>3. Range(Append(parsed, Head(call))) = Range(parsed) \cup {Head(call)}
      BY HeadOfCall, RangeOfAppend, Zenon DEF StreamRead
    <2>4. u \in Range(parsed) \/ u = Head(call)
      BY <2>3
    <2> QED
      BY <2>1, <2>2, <2>4
  <1>5. Len(sent') - Len(call') = Place
    BY <1>1, <1>2 DEF Place
  <1>6. parsed' \in Seq(Unit)
    BY HeadOfCall, RangeOfAppend, Zenon DEF StreamRead
  <1>7. \A i \in 1 .. Len(call') : call'[i] = sent[Place + i]
    <2> TAKE i \in 1 .. Len(call')
    <2>1. i + 1 \in 1 .. Len(call) /\ call'[i] = call[i + 1]
      BY <1>1, <1>2, HeadOfCall
    <2>2. call[i + 1] = sent[Len(sent) - Len(call) + (i + 1)]
      BY <2>1 DEF StreamRead
    <2>3. Len(sent) - Len(call) + (i + 1) = Place + i
      BY <1>1, <1>2 DEF Place
    <2> QED
      BY <2>1, <2>2, <2>3
  <1>8. sent' \in Seq(Unit) /\ call' \in Seq(Unit) /\ Len(call') <= Len(sent')
    BY <1>1, <1>2, HeadOfCall DEF StreamRead
  <1> QED
    BY <1>3, <1>4, <1>5, <1>6, <1>7, <1>8 DEF StreamRead

-----------------------------------------------------------------------------
(* What is read changes no more of the tables than it says                 *)

\* The table with the set, as Kept has it.
Extended(table, id, set) ==
    [i \in DOMAIN table \cup {id} |-> IF i = id THEN set ELSE table[i]]

\* A set that is kept replaces the one of its identifier.
LEMMA KeptExtends ==
  ASSUME NEW table, NEW max, NEW id, NEW set, NEW next \in Kept(table, max, id, set)
  PROVE  next = Extended(table, id, set)
  BY Zenon DEF Kept, Extended

\* The table of VPSs once one more was parsed,
LEMMA VpsesRead ==
  ASSUME NEW K, NEW n \in Nat, Before(K, n), NEW u \in Unit, u.version = n,
         VpsesHold(K, n),
         IF u.kind = "vps" THEN vpses' = Extended(vpses, u.id, [version |-> n])
                           ELSE vpses' = vpses
  PROVE  VpsesHold(K \cup {u}, n + 1)'
  <1>1. ASSUME NEW i \in DOMAIN vpses'
        PROVE  \E v \in Latest(K \cup {u}, "vps", i, n + 1) : vpses'[i] = [version |-> v.version]
    <2>1. CASE u.kind = "vps" /\ i = u.id
      <3>1. u \in Latest(K \cup {u}, "vps", i, n + 1)
        BY <2>1, LatestOfMore
      <3>2. vpses'[i] = [version |-> u.version]
        BY <1>1, <2>1 DEF Extended
      <3> QED
        BY <3>1, <3>2
    <2>2. CASE ~(u.kind = "vps" /\ i = u.id)
      <3>1. i \in DOMAIN vpses /\ vpses'[i] = vpses[i]
        BY <1>1, <2>2 DEF Extended
      <3>2. Latest(K \cup {u}, "vps", i, n + 1) = Latest(K, "vps", i, n)
        BY <2>2, LatestOfMore
      <3> QED
        BY <3>1, <3>2 DEF VpsesHold
    <2> QED
      BY <2>1, <2>2
  <1>2. ASSUME NEW w \in K \cup {u}, w.kind = "vps"
        PROVE  w.id \in DOMAIN vpses'
    <2>1. CASE w \in K
      <3>1. w.id \in DOMAIN vpses
        BY <1>2, <2>1 DEF VpsesHold
      <3> QED
        BY <3>1 DEF Extended
    <2>2. CASE w = u
      BY <1>2, <2>2 DEF Extended
    <2> QED
      BY <2>1, <2>2
  <1> QED
    BY <1>1, <1>2 DEF VpsesHold

\* of SPSs,
LEMMA SpsesRead ==
  ASSUME NEW K, NEW n \in Nat, Before(K, n), NEW u \in Unit, u.version = n,
         SpsesHold(K, n), NEW set,
         IF u.kind = "sps" THEN spses' = Extended(spses, u.id, set) /\ set \in SpsKept(K, u)
                           ELSE spses' = spses
  PROVE  SpsesHold(K \cup {u}, n + 1)'
  <1> SUFFICES ASSUME NEW i \in DOMAIN spses'
               PROVE  \E s \in Latest(K \cup {u}, "sps", i, n + 1) :
                         spses'[i] \in SpsKept(K \cup {u}, s)
    BY DEF SpsesHold
  <1>1. CASE u.kind = "sps" /\ i = u.id
    <2>1. u \in Latest(K \cup {u}, "sps", i, n + 1)
      BY <1>1, LatestOfMore
    <2>2. spses'[i] = set
      BY <1>1 DEF Extended
    <2>3. SpsKept(K \cup {u}, u) = SpsKept(K, u)
      BY KeptStays
    <2> QED
      BY <1>1, <2>1, <2>2, <2>3
  <1>2. CASE ~(u.kind = "sps" /\ i = u.id)
    <2>1. i \in DOMAIN spses /\ spses'[i] = spses[i]
      BY <1>2 DEF Extended
    <2>2. Latest(K \cup {u}, "sps", i, n + 1) = Latest(K, "sps", i, n)
      BY <1>2, LatestOfMore
    <2>3. PICK s \in Latest(K, "sps", i, n) : spses[i] \in SpsKept(K, s)
      BY <2>1 DEF SpsesHold
    <2>4. s \in Unit /\ s.version <= n
      BY UnitFields DEF Latest, Before
    <2>5. SpsKept(K \cup {u}, s) = SpsKept(K, s)
      BY <2>4, KeptStays
    <2> QED
      BY <2>1, <2>2, <2>3, <2>5
  <1> QED
    BY <1>1, <1>2

\* and of PPSs.
LEMMA PpsesRead ==
  ASSUME NEW K, NEW n \in Nat, Before(K, n), NEW u \in Unit, u.version = n,
         PpsesHold(K, n), NEW set,
         IF u.kind = "pps" THEN ppses' = Extended(ppses, u.id, set) /\ set \in PpsKept(K, u)
                           ELSE ppses' = ppses
  PROVE  PpsesHold(K \cup {u}, n + 1)'
  <1> SUFFICES ASSUME NEW i \in DOMAIN ppses'
               PROVE  \E p \in Latest(K \cup {u}, "pps", i, n + 1) :
                         ppses'[i] \in PpsKept(K \cup {u}, p)
    BY DEF PpsesHold
  <1>1. CASE u.kind = "pps" /\ i = u.id
    <2>1. u \in Latest(K \cup {u}, "pps", i, n + 1)
      BY <1>1, LatestOfMore
    <2>2. ppses'[i] = set
      BY <1>1 DEF Extended
    <2>3. PpsKept(K \cup {u}, u) = PpsKept(K, u)
      BY KeptStays
    <2> QED
      BY <1>1, <2>1, <2>2, <2>3
  <1>2. CASE ~(u.kind = "pps" /\ i = u.id)
    <2>1. i \in DOMAIN ppses /\ ppses'[i] = ppses[i]
      BY <1>2 DEF Extended
    <2>2. Latest(K \cup {u}, "pps", i, n + 1) = Latest(K, "pps", i, n)
      BY <1>2, LatestOfMore
    <2>3. PICK p \in Latest(K, "pps", i, n) : ppses[i] \in PpsKept(K, p)
      BY <2>1 DEF PpsesHold
    <2>4. p \in Unit /\ p.version <= n
      BY UnitFields DEF Latest, Before
    <2>5. PpsKept(K \cup {u}, p) = PpsKept(K, p)
      BY <2>4, KeptStays
    <2> QED
      BY <2>1, <2>2, <2>3, <2>5
  <1> QED
    BY <1>1, <1>2

\* A unit that is not kept leaves the tables right for any later place.
LEMMA TablesLater ==
  ASSUME NEW K, NEW n \in Nat, NEW m \in Nat, n <= m, Before(K, n),
         VpsesHold(K, n), SpsesHold(K, n), PpsesHold(K, n),
         UNCHANGED <<vpses, spses, ppses>>
  PROVE  VpsesHold(K, m)' /\ SpsesHold(K, m)' /\ PpsesHold(K, m)'
  <1>1. \A kind, id : Latest(K, kind, id, m) = Latest(K, kind, id, n)
    BY LatestLater
  <1>2. VpsesHold(K, m)'
    BY <1>1 DEF VpsesHold
  <1>3. SpsesHold(K, m)'
    BY <1>1 DEF SpsesHold
  <1>4. PpsesHold(K, m)'
    BY <1>1 DEF PpsesHold
  <1> QED
    BY <1>2, <1>3, <1>4

-----------------------------------------------------------------------------
(* The steps *)

\* What a step that keeps a unit has to show: the unit's own table.
LEMMA ParseStep ==
  ASSUME SetsInv, call # <<>>, Go,
         LET u == Head(call)
         IN  /\ IF u.kind = "vps" THEN vpses' = Extended(vpses, u.id, [version |-> Place])
                                  ELSE vpses' = vpses
             /\ IF u.kind = "sps"
                THEN \E set \in SpsKept(Range(parsed), u) : spses' = Extended(spses, u.id, set)
                ELSE spses' = spses
             /\ IF u.kind = "pps"
                THEN \E set \in PpsKept(Range(parsed), u) : ppses' = Extended(ppses, u.id, set)
                ELSE ppses' = ppses
  PROVE  SetsInv'
  <1>1. StreamRead /\ TablesHold
    BY DEF SetsInv
  <1>2. PICK K, u, n : K = Range(parsed) /\ u = Head(call) /\ n = Place
    OBVIOUS
  <1>3. StreamRead' /\ Place' = n + 1
    BY <1>1, <1>2, GoStream DEF Go
  <1>4. Range(parsed') = K \cup {u}
    BY <1>1, <1>2, HeadOfCall, RangeOfAppend, Zenon DEF Go, StreamRead
  <1>5. Before(K, n) /\ n \in Nat /\ u \in Unit /\ u.version = n
    BY <1>1, <1>2, HeadOfCall, UnitsOfCall
  <1>6. VpsesHold(K, n) /\ SpsesHold(K, n) /\ PpsesHold(K, n)
    BY <1>1, <1>2 DEF TablesHold
  <1>7. VpsesHold(K \cup {u}, n + 1)'
    BY <1>2, <1>5, <1>6, VpsesRead
  <1>8. SpsesHold(K \cup {u}, n + 1)'
    <2>1. CASE u.kind = "sps"
      <3>1. PICK set \in SpsKept(K, u) : spses' = Extended(spses, u.id, set)
        BY <1>2, <2>1
      <3> QED
        BY <1>5, <1>6, <2>1, <3>1, SpsesRead
    <2>2. CASE u.kind # "sps"
      BY <1>2, <1>5, <1>6, <2>2, SpsesRead
    <2> QED
      BY <2>1, <2>2
  <1>9. PpsesHold(K \cup {u}, n + 1)'
    <2>1. CASE u.kind = "pps"
      <3>1. PICK set \in PpsKept(K, u) : ppses' = Extended(ppses, u.id, set)
        BY <1>2, <2>1
      <3> QED
        BY <1>5, <1>6, <2>1, <3>1, PpsesRead
    <2>2. CASE u.kind # "pps"
      BY <1>2, <1>5, <1>6, <2>2, PpsesRead
    <2> QED
      BY <2>1, <2>2
  <1>10. TablesHold'
    BY <1>3, <1>4, <1>7, <1>8, <1>9 DEF TablesHold, VpsesHold, SpsesHold, PpsesHold
  <1> QED
    BY <1>3, <1>10 DEF SetsInv

\* Parsing a VPS,
LEMMA ParseVpsStep == SetsInv /\ ParseVps => SetsInv'
  <1> SUFFICES ASSUME SetsInv, ParseVps PROVE SetsInv'
    OBVIOUS
  <1>1. call # <<>> /\ Head(call).kind = "vps" /\ Go
    BY DEF ParseVps, Reading
  <1>2. Head(call).version = Place
    BY <1>1, HeadOfCall DEF SetsInv
  <1>3. vpses' = Extended(vpses, Head(call).id, [version |-> Place])
    BY <1>2, KeptExtends DEF ParseVps
  <1> QED
    BY <1>1, <1>3, ParseStep DEF ParseVps

\* an SPS,
LEMMA ParseSpsStep == SetsInv /\ ParseSps => SetsInv'
  <1> SUFFICES ASSUME SetsInv, ParseSps PROVE SetsInv'
    OBVIOUS
  <1> DEFINE u == Head(call)
             K == Range(parsed)
             vps == IF u.of \in DOMAIN vpses THEN vpses[u.of] ELSE NoSet
             set == [version |-> u.version, vps |-> vps]
  <1>1. call # <<>> /\ u.kind = "sps" /\ Go
    BY DEF ParseSps, Reading
  <1>2. u.version = Place
    BY <1>1, HeadOfCall DEF SetsInv
  <1>3. spses' = Extended(spses, u.id, set)
    BY KeptExtends DEF ParseSps
  <1>4. VpsesHold(K, Place)
    BY DEF SetsInv, TablesHold
  <1>5. vps \in VpsAbove(K, u)
    <2>1. CASE u.of \in DOMAIN vpses
      <3>1. PICK v \in Latest(K, "vps", u.of, Place) : vpses[u.of] = [version |-> v.version]
        BY <1>4, <2>1 DEF VpsesHold
      <3>2. vps = [version |-> v.version] /\ v \in Latest(K, "vps", u.of, u.version)
        BY <1>2, <2>1, <3>1
      <3> HIDE DEF K, vps, u
      <3> QED
        BY <3>2, Zenon DEF VpsAbove
    <2>2. CASE u.of \notin DOMAIN vpses
      <3>1. Latest(K, "vps", u.of, Place) = {}
        <4>1. \A w \in K : w.kind = "vps" => w.id \in DOMAIN vpses
          BY <1>4 DEF VpsesHold
        <4> HIDE DEF K, u, vps
        <4>2. \A w \in Latest(K, "vps", u.of, Place) : w \in K /\ w.kind = "vps" /\ w.id = u.of
          BY DEF Latest
        <4> QED
          BY <2>2, <4>1, <4>2
      <3>2. vps = NoSet
        BY <2>2
      <3>3. Latest(K, "vps", u.of, u.version) = {}
        BY <1>2, <3>1, Zenon
      <3> HIDE DEF K, vps, u
      <3> QED
        BY <3>2, <3>3, Zenon DEF VpsAbove
    <2> QED
      BY <2>1, <2>2
  <1>6. set \in SpsKept(K, u)
    BY <1>5, Zenon DEF SpsKept
  <1> HIDE DEF set, vps
  <1> QED
    BY <1>1, <1>3, <1>6, ParseStep DEF ParseSps

\* a PPS
LEMMA ParsePpsStep == SetsInv /\ ParsePps => SetsInv'
  <1> SUFFICES ASSUME SetsInv, ParsePps PROVE SetsInv'
    OBVIOUS
  <1> DEFINE u == Head(call)
             K == Range(parsed)
             set == [version |-> u.version, sps |-> spses[u.of]]
  <1>1. call # <<>> /\ u.kind = "pps" /\ Go
    BY DEF ParsePps, Reading
  <1>2. u.version = Place
    BY <1>1, HeadOfCall DEF SetsInv
  <1>3. ppses' = Extended(ppses, u.id, set)
    BY KeptExtends DEF ParsePps
  <1>4. SpsesHold(K, Place) /\ u.of \in DOMAIN spses
    BY DEF SetsInv, TablesHold, ParsePps
  <1>5. PICK s \in Latest(K, "sps", u.of, Place) : spses[u.of] \in SpsKept(K, s)
    BY <1>4 DEF SpsesHold
  <1>6. spses[u.of] \in SpsAbove(K, u)
    BY <1>2, <1>5, Zenon DEF SpsAbove
  <1>7. set \in PpsKept(K, u)
    BY <1>6, Zenon DEF PpsKept
  <1> HIDE DEF set
  <1> QED
    BY <1>1, <1>3, <1>7, ParseStep DEF ParsePps

\* or a slice keeps the tables right;
LEMMA ParseSliceStep == SetsInv /\ ParseSlice => SetsInv'
  <1> SUFFICES ASSUME SetsInv, ParseSlice PROVE SetsInv'
    OBVIOUS
  <1>1. /\ StreamRead /\ call # <<>> /\ call' = Tail(call) /\ sent' = sent /\ parsed' = parsed
        /\ UNCHANGED <<vpses, spses, ppses>>
    BY DEF SetsInv, ParseSlice, Reading
  <1>2. PICK K, n : K = Range(parsed) /\ n = Place
    OBVIOUS
  <1>3. StreamRead' /\ Place' = n + 1 /\ Range(parsed') = K
    BY <1>1, <1>2, GoStream
  <1>4. Before(K, n) /\ n \in Nat
    BY <1>1, <1>2, UnitsOfCall
  <1>5. VpsesHold(K, n + 1)' /\ SpsesHold(K, n + 1)' /\ PpsesHold(K, n + 1)'
    BY <1>1, <1>2, <1>4, TablesLater DEF SetsInv, TablesHold
  <1>6. TablesHold'
    BY <1>3, <1>5 DEF TablesHold, VpsesHold, SpsesHold, PpsesHold
  <1> QED
    BY <1>3, <1>6 DEF SetsInv

\* so does refusing what is left of a call,
LEMMA RefuseStep == SetsInv /\ Refuse => SetsInv'
  <1> SUFFICES ASSUME SetsInv, Refuse PROVE SetsInv'
    OBVIOUS
  <1>1. /\ StreamRead /\ call' = <<>> /\ sent' = sent /\ parsed' = parsed
        /\ UNCHANGED <<vpses, spses, ppses>>
    BY DEF SetsInv, Refuse
  <1>2. PICK K, n, m : K = Range(parsed) /\ n = Place /\ m = Len(sent) + 1
    OBVIOUS
  <1>3. Before(K, n) /\ n \in Nat /\ Len(sent) \in Nat /\ Len(call) \in Nat
    BY <1>1, <1>2, UnitsOfCall
  <1>4. Len(call') = 0 /\ Place' = m /\ Range(parsed') = K
    BY <1>1, <1>2, <1>3 DEF Place
  <1>5. StreamRead'
    BY <1>1, <1>3, <1>4 DEF StreamRead
  <1>6. m \in Nat /\ n <= m
    BY <1>2, <1>3 DEF Place
  <1>7. VpsesHold(K, m)' /\ SpsesHold(K, m)' /\ PpsesHold(K, m)'
    BY <1>1, <1>2, <1>3, <1>6, TablesLater DEF SetsInv, TablesHold
  <1>8. TablesHold'
    BY <1>4, <1>7 DEF TablesHold, VpsesHold, SpsesHold, PpsesHold
  <1> QED
    BY <1>5, <1>8 DEF SetsInv

\* and so does a new call.
LEMMA SubmitStep ==
  ASSUME SetsInv, NEW units \in Seq(Unit), Submit(units)
  PROVE  SetsInv'
  <1>1. /\ StreamRead /\ call = <<>> /\ call' = units /\ sent' = sent \o units
        /\ parsed' = parsed /\ UNCHANGED <<vpses, spses, ppses>>
        /\ \A i \in DOMAIN units : units[i].version = Len(sent) + i
    BY DEF SetsInv, Submit
  <1>2. Len(call) = 0 /\ Len(sent) \in Nat /\ Len(units) \in Nat /\ DOMAIN units = 1 .. Len(units)
    BY <1>1, UnitsOfCall
  <1>3. /\ sent' \in Seq(Unit) /\ Len(sent') = Len(sent) + Len(units)
        /\ \A i \in 1 .. Len(sent) : sent'[i] = sent[i]
        /\ \A i \in 1 .. Len(units) : sent'[Len(sent) + i] = units[i]
    BY <1>1, <1>2 DEF StreamRead
  <1>4. Place' = Place
    BY <1>1, <1>2, <1>3 DEF Place
  <1>5. ASSUME NEW i \in 1 .. Len(sent')
        PROVE  sent'[i].version = i
    <2>1. CASE i <= Len(sent)
      BY <1>1, <1>2, <1>3, <2>1 DEF StreamRead
    <2>2. CASE i > Len(sent)
      <3>1. PICK k \in 1 .. Len(units) : i = Len(sent) + k
        <4>1. i - Len(sent) \in 1 .. Len(units) /\ i = Len(sent) + (i - Len(sent))
          BY <1>2, <1>3, <2>2
        <4> QED
          BY <4>1
      <3> QED
        BY <1>1, <1>2, <1>3, <3>1
    <2> QED
      BY <1>2, <1>3, <2>1, <2>2
  <1>6. \A u \in Range(parsed) : /\ u.version \in 1 .. Len(sent)
                                 /\ u = sent'[u.version]
    BY <1>1, <1>2, <1>3 DEF StreamRead
  <1>7. Len(sent') - Len(call') = Len(sent)
    BY <1>1, <1>2, <1>3
  <1>8. StreamRead'
    BY <1>1, <1>2, <1>3, <1>5, <1>6, <1>7 DEF StreamRead
  <1> QED
    BY <1>1, <1>4, <1>8 DEF SetsInv, TablesHold, VpsesHold, SpsesHold, PpsesHold

\* The tables are right when the decoder is new,
LEMMA SetsInvInit == SetsInit => SetsInv
  <1> SUFFICES ASSUME SetsInit PROVE SetsInv
    OBVIOUS
  <1>1. /\ sent = <<>> /\ call = <<>> /\ parsed = <<>>
        /\ DOMAIN vpses = {} /\ DOMAIN spses = {} /\ DOMAIN ppses = {}
    BY DEF SetsInit
  <1>2. Range(parsed) = {}
    BY <1>1 DEF Range
  <1>3. StreamRead
    BY <1>1, <1>2 DEF StreamRead
  <1>4. TablesHold
    BY <1>1, <1>2 DEF TablesHold, VpsesHold, SpsesHold, PpsesHold
  <1> QED
    BY <1>3, <1>4 DEF SetsInv

AnyCall == \E units \in Seq(Unit) : Submit(units)

\* and every step keeps them so.
LEMMA SetsInvStep == SetsInv /\ [AnyCall \/ SetsNext]_setVars => SetsInv'
  <1> SUFFICES ASSUME SetsInv, [AnyCall \/ SetsNext]_setVars PROVE SetsInv'
    OBVIOUS
  <1>1. CASE AnyCall
    BY <1>1, SubmitStep DEF AnyCall
  <1>2. CASE SetsNext
    BY <1>2, ParseVpsStep, ParseSpsStep, ParsePpsStep, ParseSliceStep, RefuseStep DEF SetsNext
  <1>3. CASE UNCHANGED setVars
    BY <1>3 DEF setVars, SetsInv, StreamRead, TablesHold, VpsesHold, SpsesHold, PpsesHold, Place
  <1> QED
    BY <1>1, <1>2, <1>3

-----------------------------------------------------------------------------
(* What was sent last, against what was parsed last                        *)

\* Of any places up to one, one is last.
LEMMA LastOf ==
  ASSUME NEW len \in Nat, NEW T \in SUBSET (1 .. len), T # {}
  PROVE  \E n \in T : \A k \in T : k <= n
  <1> DEFINE Above(n) == {k \in T : k > n}
             R == StrictSubsetOrdering(T)
  <1>1. IsFiniteSet(T)
    <2>1. IsFiniteSet(1 .. len)
      BY FS_Interval
    <2> QED
      BY <2>1, FS_Subset
  <1>2. IsWellFoundedOn(R, SUBSET T)
    BY <1>1, FS_StrictSubsetOrderingWellFounded, FS_FiniteSubsetsOfFinite
  <1>3. {Above(n) : n \in T} \subseteq SUBSET T /\ {Above(n) : n \in T} # {}
    OBVIOUS
  <1>4. PICK x \in {Above(n) : n \in T} : \A y \in {Above(n) : n \in T} : ~(<<y, x>> \in R)
    <2> HIDE DEF Above, R
    <2> QED
      BY <1>2, <1>3, WFMin
  <1>5. PICK n \in T : x = Above(n)
    OBVIOUS
  <1>6. ASSUME NEW k \in T, k > n PROVE FALSE
    <2>1. \A i \in T : i \in Int
      OBVIOUS
    <2>2. Above(k) \subseteq Above(n)
      <3> SUFFICES ASSUME NEW i \in T, i > k PROVE i > n
        OBVIOUS
      <3> QED
        BY <1>6, <2>1
    <2>3. k \in Above(n) /\ k \notin Above(k)
      BY <1>6, <2>1
    <2>4. <<Above(k), Above(n)>> \in R
      BY <2>2, <2>3 DEF StrictSubsetOrdering
    <2> QED
      BY <1>4, <1>5, <2>4
  <1> QED
    BY <1>6

\* A unit of the last version sent, once parsed, is the last of its kind and
\* identifier that was parsed, at any place behind it.
LEMMA SentIsParsed ==
  ASSUME StreamRead, NEW kind, NEW id, NEW p \in LatestSent(kind, id), p \in Range(parsed),
         NEW m \in Nat, p.version < m
  PROVE  Latest(Range(parsed), kind, id, m) = {p}
  <1> DEFINE read == Len(sent) - Len(call)
  <1>1. PICK i \in 1 .. read : /\ sent[i] = p /\ p.kind = kind /\ p.id = id
                               /\ \A j \in 1 .. read : j > i => sent[j].kind # kind \/ sent[j].id # id
    BY DEF LatestSent
  <1>2. Len(sent) \in Nat /\ Len(call) \in Nat
    BY UnitsOfCall
  <1>3. \A u \in Range(parsed) : u.version \in 1 .. read /\ u = sent[u.version]
    BY DEF StreamRead
  <1>4. p.version = i
    BY <1>1, <1>2 DEF StreamRead
  <1>5. ASSUME NEW w \in Range(parsed), w.kind = kind, w.id = id
        PROVE  w.version <= i
    BY <1>1, <1>2, <1>3, <1>5
  <1>6. p \in Latest(Range(parsed), kind, id, m)
    BY <1>1, <1>4, <1>5 DEF Latest
  <1>7. ASSUME NEW w \in Latest(Range(parsed), kind, id, m)
        PROVE  w = p
    <2>1. w \in Range(parsed) /\ w.kind = kind /\ w.id = id /\ p.version <= w.version
      BY <1>1, <1>7 DEF Latest
    <2>2. w.version = p.version
      BY <1>2, <1>3, <1>4, <1>5, <2>1
    <2> QED
      BY <1>3, <2>1, <2>2
  <1> QED
    BY <1>6, <1>7

\* No set is parsed that was not sent.
LEMMA NoneSentNoneParsed ==
  ASSUME StreamRead, NEW kind, NEW id, LatestSent(kind, id) = {}, NEW m
  PROVE  Latest(Range(parsed), kind, id, m) = {}
  <1> DEFINE read == Len(sent) - Len(call)
             T == {i \in 1 .. read : sent[i].kind = kind /\ sent[i].id = id}
  <1>1. Len(sent) \in Nat /\ Len(call) \in Nat /\ read \in Nat
    BY UnitsOfCall DEF StreamRead
  <1>2. T = {}
    <2> SUFFICES ASSUME T # {} PROVE FALSE
      OBVIOUS
    <2>1. PICK n \in T : \A k \in T : k <= n
      <3> HIDE DEF read
      <3> QED
        BY <1>1, LastOf
    <2>2. sent[n] \in LatestSent(kind, id)
      BY <1>1, <2>1 DEF LatestSent
    <2> QED
      BY <2>2
  <1>3. \A u \in Range(parsed) : u.version \in 1 .. read /\ u = sent[u.version]
    BY DEF StreamRead
  <1> QED
    BY <1>2, <1>3 DEF Latest

\* What a slice is read with, if the sets it uses are the last that were sent.
SliceRead ==
    ParseSlice =>
        \A p \in LatestSent("pps", Head(call).id) : \A s \in LatestSent("sps", p.of) :
        LET vs == LatestSent("vps", s.of)
        IN  /\ {p, s} \cup vs \subseteq Range(parsed)
            /\ s.version < p.version /\ \A v \in vs : v.version < s.version
            => \E vps \in IF vs = {} THEN {NoSet} ELSE {[version |-> v.version] : v \in vs} :
                  sliced' = [version |-> p.version,
                             sps |-> [version |-> s.version, vps |-> vps]]

\* So a slice is read with the sets it was written with.
LEMMA SliceReadStep == SetsInv => SliceRead
  <1> SUFFICES ASSUME SetsInv, ParseSlice,
                      NEW p \in LatestSent("pps", Head(call).id),
                      NEW s \in LatestSent("sps", p.of),
                      {p, s} \cup LatestSent("vps", s.of) \subseteq Range(parsed),
                      s.version < p.version,
                      \A v \in LatestSent("vps", s.of) : v.version < s.version
               PROVE  LET vs == LatestSent("vps", s.of)
                      IN  \E vps \in IF vs = {} THEN {NoSet} ELSE {[version |-> v.version] : v \in vs} :
                             sliced' = [version |-> p.version,
                                        sps |-> [version |-> s.version, vps |-> vps]]
    BY DEF SliceRead
  <1> DEFINE K  == Range(parsed)
             vs == LatestSent("vps", s.of)
  <1>1. /\ StreamRead /\ PpsesHold(K, Place) /\ call # <<>>
        /\ Head(call).id \in DOMAIN ppses /\ sliced' = ppses[Head(call).id]
    BY DEF SetsInv, TablesHold, ParseSlice, Reading
  <1>2. p \in K /\ s \in K /\ vs \subseteq K
    OBVIOUS
  <1>3. Place \in Nat /\ Before(K, Place)
    BY <1>1, UnitsOfCall
  <1>4. \A u \in K : u.version \in Nat /\ u.version < Place
    BY <1>3, UnitFields DEF Before
  <1> HIDE DEF K, vs
  <1>5. Latest(K, "pps", Head(call).id, Place) = {p}
    BY <1>1, <1>2, <1>3, <1>4, SentIsParsed DEF K
  <1>6. Latest(K, "sps", p.of, p.version) = {s}
    BY <1>1, <1>2, <1>4, SentIsParsed DEF K
  <1>7. VpsAbove(K, s) = IF vs = {} THEN {NoSet} ELSE {[version |-> v.version] : v \in vs}
    <2>1. CASE vs = {}
      <3>1. Latest(K, "vps", s.of, s.version) = {}
        BY <1>1, <2>1, NoneSentNoneParsed DEF K, vs
      <3> QED
        BY <2>1, <3>1 DEF VpsAbove
    <2>2. CASE vs # {}
      <3>1. PICK v \in vs : TRUE
        BY <2>2
      <3>2. \A w \in vs : Latest(K, "vps", s.of, s.version) = {w}
        BY <1>1, <1>2, <1>4, SentIsParsed DEF K, vs
      <3>3. vs = {v} /\ Latest(K, "vps", s.of, s.version) = {v}
        BY <3>1, <3>2
      <3> QED
        BY <3>3 DEF VpsAbove
    <2> QED
      BY <2>1, <2>2
  <1>8. sliced' \in PpsKept(K, p)
    BY <1>1, <1>5 DEF PpsesHold
  <1>9. PICK r \in SpsAbove(K, p) : sliced' = [version |-> p.version, sps |-> r]
    BY <1>8 DEF PpsKept
  <1>10. PICK t \in Latest(K, "sps", p.of, p.version) : r \in SpsKept(K, t)
    BY <1>9 DEF SpsAbove
  <1>11. r \in SpsKept(K, s)
    BY <1>6, <1>10
  <1>12. PICK vps \in VpsAbove(K, s) : r = [version |-> s.version, vps |-> vps]
    BY <1>11 DEF SpsKept
  <1> QED
    BY <1>7, <1>9, <1>12 DEF vs

\* A slice is read with the sets its sender meant, for any number of sets, any
\* sizes of the tables, and whatever was replaced, refused or lost before
\* (Parser::parse_vps, parse_sps, parse_pps and parse_slice_header).
THEOREM SlicesGetTheirSets == SetsSpec => SlicesReadAsWritten
  <1>1. SetsInv /\ [AnyCall \/ SetsNext]_setVars => [SliceRead]_setVars
    BY SliceReadStep
  <1> QED
    BY <1>1, SetsInvInit, SetsInvStep, PTL
       DEF SetsSpec, SlicesReadAsWritten, SliceRead, AnyCall

-----------------------------------------------------------------------------
(* The loops of the DPB: one round more of each                            *)

\* The pictures of S come before the others that wait.
InFront(d, S) == \A i \in S, j \in Waiting(d) \ S : OutputBefore(d, i, j)

\* The entries after the pictures of S were bumped and none removed.
Cleared(d, S) == [i \in DOMAIN d |-> [d[i] EXCEPT !.needed = @ /\ i \notin S]]

\* Where a front of the queue has left, the lowest picture is the next of it,
\* and there is one as long as any is left (find_lowest_poc_for_bumping_mut).
LEMMA LowestIsNext ==
  ASSUME NEW n \in Nat, NEW d \in EntriesUpTo(n), NEW S \in SUBSET Waiting(d), InFront(d, S),
         NEW e, Waiting(e) = Waiting(d) \ S, \A i \in Waiting(e) : e[i].poc = d[i].poc
  PROVE  /\ LowestPoc(e) = {} <=> Waiting(d) = S
         /\ \A i \in LowestPoc(e) :
               /\ i \in Waiting(d) \ S
               /\ {j \in Waiting(d) : OutputBefore(d, j, i)} = S
               /\ \A j \in S : OutputBefore(d, j, i)
               /\ InFront(d, S \cup {i})
  <1> DEFINE T == Waiting(d) \ S
  <1>1. T \in SUBSET DOMAIN d /\ Waiting(d) \subseteq DOMAIN d
    BY DEF Waiting
  <1>2. \A i, j \in T : OutputBefore(e, i, j) <=> OutputBefore(d, i, j)
    BY DEF OutputBefore
  <1>3. LowestPoc(e) = {i \in T : \A j \in T \ {i} : OutputBefore(d, i, j)}
    BY <1>2 DEF LowestPoc
  <1>4. ASSUME T # {} PROVE LowestPoc(e) # {}
    <2>1. PICK m \in T : \A j \in T : ~OutputBefore(d, j, m)
      <3> HIDE DEF T
      <3> QED
        BY <1>1, <1>4, FirstInOrder
    <2>2. \A j \in T \ {m} : OutputBefore(d, m, j)
      BY <1>1, <2>1, OutputBeforeTotal
    <2> QED
      BY <1>3, <2>2
  <1>5. ASSUME NEW i \in LowestPoc(e)
        PROVE  /\ i \in T
               /\ {j \in Waiting(d) : OutputBefore(d, j, i)} = S
               /\ \A j \in S : OutputBefore(d, j, i)
               /\ InFront(d, S \cup {i})
    <2>1. i \in T /\ \A j \in T \ {i} : OutputBefore(d, i, j)
      BY <1>3, <1>5
    <2>2. \A j \in S : OutputBefore(d, j, i)
      BY <2>1 DEF InFront
    <2>3. \A j \in T : ~OutputBefore(d, j, i)
      BY <1>1, <2>1, OutputBeforeTotal
    <2>4. {j \in Waiting(d) : OutputBefore(d, j, i)} = S
      BY <2>2, <2>3
    <2>5. InFront(d, S \cup {i})
      BY <2>1 DEF InFront
    <2> QED
      BY <2>1, <2>2, <2>4, <2>5
  <1>6. Waiting(d) = S => LowestPoc(e) = {}
    BY <1>3
  <1> QED
    BY <1>4, <1>5, <1>6

\* No picture is output in one order.
LEMMA NoOutput ==
  ASSUME NEW d
  PROVE  <<>> \in OutputOrders(d, {})
  <1>1. {i \in {} : ~d[i].nonexisting} = {}
    OBVIOUS
  <1>2. Cardinality({}) = 0
    BY FS_EmptySet
  <1> QED
    BY <1>1, <1>2 DEF OutputOrders

\* The picture that comes after all of S joins the end of the queue.
LEMMA OneMoreOutput ==
  ASSUME NEW n \in Nat, NEW d \in EntriesUpTo(n), NEW S \in SUBSET DOMAIN d,
         NEW s \in OutputOrders(d, S), NEW i \in DOMAIN d \ S,
         \A j \in S : OutputBefore(d, j, i)
  PROVE  (IF d[i].nonexisting THEN s ELSE Append(s, i)) \in OutputOrders(d, S \cup {i})
  <1> DEFINE real == {j \in S : ~d[j].nonexisting}
             more == {j \in S \cup {i} : ~d[j].nonexisting}
             size == Cardinality(real)
  <1>1. s \in [1 .. size -> real] /\ \A m, k \in DOMAIN s : m < k => OutputBefore(d, s[m], s[k])
    BY DEF OutputOrders
  <1>2. CASE d[i].nonexisting
    <2>1. more = real
      BY <1>2
    <2> QED
      BY <1>2, <2>1 DEF OutputOrders
  <1>3. CASE ~d[i].nonexisting
    <2>1. more = real \cup {i} /\ i \notin real
      BY <1>3
    <2>2. IsFiniteSet(real)
      BY EntriesFinite, FS_Subset
    <2> HIDE DEF real, more
    <2>3. size \in Nat /\ Cardinality(more) = size + 1
      BY <2>1, <2>2, FS_AddElement, FS_CardinalityType
    <2> HIDE DEF size
    <2>4. s \in Seq(real) /\ Len(s) = size
      BY <1>1, <2>3
    <2> DEFINE t == Append(s, i)
    <2>5. /\ DOMAIN t = 1 .. size + 1 /\ t[size + 1] = i
          /\ \A m \in 1 .. size : t[m] = s[m] /\ s[m] \in real
          /\ t = [m \in 1 .. size + 1 |-> t[m]]
      <3> DEFINE X == real \cup {i}
      <3>1. s \in Seq(X) /\ i \in X
        BY <2>4, SeqMonotonic
      <3>2. /\ t \in Seq(X) /\ Len(t) = size + 1
            /\ \A m \in 1 .. size : t[m] = s[m]
            /\ t[size + 1] = i
        BY <2>4, <3>1, AppendProperties
      <3>3. t \in [1 .. size + 1 -> X]
        BY <3>2, LenProperties
      <3>4. \A m \in 1 .. size : s[m] \in real
        BY <2>4, ElementOfSeq
      <3> QED
        BY <3>2, <3>3, <3>4
    <2> HIDE DEF t
    <2>6. t \in [1 .. size + 1 -> more]
      <3>1. ASSUME NEW m \in 1 .. size + 1 PROVE t[m] \in more
        <4>1. m = size + 1 \/ m \in 1 .. size
          BY <2>3
        <4> QED
          BY <2>1, <2>5, <4>1
      <3> QED
        BY <2>5, <3>1
    <2>7. ASSUME NEW m \in DOMAIN t, NEW k \in DOMAIN t, m < k
          PROVE  OutputBefore(d, t[m], t[k])
      <3>1. m \in 1 .. size /\ (k = size + 1 \/ k \in 1 .. size)
        BY <2>3, <2>5, <2>7
      <3>2. CASE k = size + 1
        <4>1. t[k] = i /\ t[m] \in S
          BY <2>5, <3>1, <3>2 DEF real
        <4> QED
          BY <4>1
      <3>3. CASE k \in 1 .. size
        <4>1. m \in DOMAIN s /\ k \in DOMAIN s
          BY <1>1, <3>1, <3>3
        <4> QED
          BY <1>1, <2>5, <2>7, <3>1, <3>3, <4>1
      <3> QED
        BY <3>1, <3>2, <3>3
    <2>8. t \in OutputOrders(d, S \cup {i})
      BY <2>3, <2>6, <2>7 DEF OutputOrders, more
    <2> QED
      BY <1>3, <2>8 DEF t
  <1> QED
    BY <1>2, <1>3

\* Which pictures wait once those of S have been output.
LEMMA ClearedWaiting ==
  ASSUME NEW n \in Nat, NEW d \in EntriesUpTo(n), NEW S \in SUBSET Waiting(d)
  PROVE  /\ DOMAIN Cleared(d, S) = DOMAIN d
         /\ \A i \in DOMAIN d : /\ Cleared(d, S)[i].poc = d[i].poc
                                /\ Cleared(d, S)[i].ref = d[i].ref
                                /\ Cleared(d, S)[i].nonexisting = d[i].nonexisting
                                /\ Cleared(d, S)[i].needed = (d[i].needed /\ i \notin S)
         /\ Waiting(Cleared(d, S)) = Waiting(d) \ S
         /\ \A i \in DOMAIN d : Cleared(d, S)[i].needed <=> d[i].needed /\ i \notin S
         /\ \A i \in DOMAIN d : IsRef(Cleared(d, S)[i]) <=> IsRef(d[i])
         /\ Cleared(d, {}) = d
  <1>1. \A i \in DOMAIN d : d[i] \in Entry
    BY EntriesElim
  <1>2. \A i \in DOMAIN d : \A b \in BOOLEAN :
           LET f == [d[i] EXCEPT !.needed = b]
           IN  f.needed = b /\ f.ref = d[i].ref /\ f.poc = d[i].poc /\ f.nonexisting = d[i].nonexisting
    BY <1>1 DEF Entry
  <1>3. \A i \in DOMAIN d : (d[i].needed /\ i \notin S) \in BOOLEAN
    OBVIOUS
  <1>4. /\ DOMAIN Cleared(d, S) = DOMAIN d
        /\ \A i \in DOMAIN d : /\ Cleared(d, S)[i].poc = d[i].poc
                               /\ Cleared(d, S)[i].ref = d[i].ref
                               /\ Cleared(d, S)[i].nonexisting = d[i].nonexisting
                               /\ Cleared(d, S)[i].needed = (d[i].needed /\ i \notin S)
    BY <1>2, <1>3 DEF Cleared
  <1>5. Waiting(Cleared(d, S)) = Waiting(d) \ S
    BY <1>4 DEF Waiting
  <1>6. \A i \in DOMAIN d : [d[i] EXCEPT !.needed = @ /\ i \notin {}] = d[i]
    <2> SUFFICES ASSUME NEW i \in DOMAIN d
                 PROVE  [d[i] EXCEPT !.needed = @ /\ i \notin {}] = d[i]
      OBVIOUS
    <2>1. d[i] \in Entry /\ d[i].needed \in BOOLEAN
      BY <1>1 DEF Entry
    <2>2. (d[i].needed /\ i \notin {}) = d[i].needed
      BY <2>1, Zenon
    <2>3. [d[i] EXCEPT !.needed = d[i].needed] = d[i]
      BY <2>1 DEF Entry
    <2> QED
      BY <2>2, <2>3
  <1>7. d = [i \in DOMAIN d |-> d[i]]
    BY EntriesElim
  <1>8. Cleared(d, {}) = d
    BY <1>6, <1>7, Zenon DEF Cleared
  <1>9. \A i \in DOMAIN d : Cleared(d, S)[i].needed <=> d[i].needed /\ i \notin S
    BY <1>4, Zenon
  <1>10. \A i \in DOMAIN d : IsRef(Cleared(d, S)[i]) <=> IsRef(d[i])
    BY <1>4 DEF IsRef
  <1> QED
    BY <1>4, <1>5, <1>8, <1>9, <1>10

\* Bumping one more after those of S is bumping them all.
LEMMA OneMoreCleared ==
  ASSUME NEW n \in Nat, NEW d \in EntriesUpTo(n), NEW S \in SUBSET Waiting(d),
         NEW i \in Waiting(d) \ S
  PROVE  BumpOne(Cleared(d, S), i) = Cleared(d, S \cup {i})
  <1>1. i \in DOMAIN d /\ \A j \in DOMAIN d : d[j] \in Entry
    BY EntriesElim DEF Waiting
  <1>2. ASSUME NEW j \in DOMAIN d, j # i
        PROVE  [d[j] EXCEPT !.needed = @ /\ j \notin S] = [d[j] EXCEPT !.needed = @ /\ j \notin S \cup {i}]
    <2>1. (d[j].needed /\ j \notin S) = (d[j].needed /\ j \notin S \cup {i})
      BY <1>2
    <2> QED
      BY <2>1, Zenon
  <1>3. [[d[i] EXCEPT !.needed = @ /\ i \notin S] EXCEPT !.needed = FALSE]
            = [d[i] EXCEPT !.needed = @ /\ i \notin S \cup {i}]
    <2>1. (d[i].needed /\ i \notin S \cup {i}) = FALSE
      OBVIOUS
    <2>2. [[d[i] EXCEPT !.needed = d[i].needed /\ i \notin S] EXCEPT !.needed = FALSE]
              = [d[i] EXCEPT !.needed = FALSE]
      BY <1>1 DEF Entry
    <2> QED
      BY <2>1, <2>2, Zenon
  <1> DEFINE a == Cleared(d, S)
             b == Cleared(d, S \cup {i})
  <1>4. DOMAIN a = DOMAIN d /\ a = [j \in DOMAIN d |-> a[j]] /\ DOMAIN b = DOMAIN d
        /\ b = [j \in DOMAIN d |-> b[j]]
    BY DEF Cleared
  <1>5. \A j \in DOMAIN d : j # i => a[j] = b[j]
    BY <1>2 DEF Cleared
  <1>6. [a[i] EXCEPT !.needed = FALSE] = b[i]
    BY <1>1, <1>3 DEF Cleared
  <1> HIDE DEF a, b
  <1>7. BumpOne(a, i) = [j \in DOMAIN d |-> IF j = i THEN [a[i] EXCEPT !.needed = FALSE] ELSE a[j]]
    BY <1>4 DEF BumpOne
  <1>8. BumpOne(a, i) = b
    BY <1>4, <1>5, <1>6, <1>7
  <1> QED
    BY <1>8 DEF a, b

\* Bumping pictures outputs them and drops what is used no more.
LEMMA BumpIsCleared ==
  ASSUME NEW d, NEW S, S # {}
  PROVE  Bump(d, S) = RemoveUnused(Cleared(d, S))
  BY Zenon DEF Bump, Cleared

\* So does bumping one more.
LEMMA OneMoreBumped ==
  ASSUME NEW n \in Nat, NEW d \in EntriesUpTo(n), NEW S \in SUBSET Waiting(d),
         NEW i \in Waiting(d) \ S
  PROVE  RemoveUnused(BumpOne(Bump(d, S), i)) = Bump(d, S \cup {i})
  <1> DEFINE more == S \cup {i}
  <1>0. more \in SUBSET Waiting(d) /\ more # {} /\ i \in DOMAIN d
    BY DEF Waiting
  <1>1. Bump(d, more) = RemoveUnused(Cleared(d, more))
    BY <1>0, BumpIsCleared
  <1>2. CASE S = {}
    <2>1. Bump(d, S) = d /\ Cleared(d, S) = d
      BY <1>2, ClearedWaiting DEF Bump
    <2> QED
      BY <1>1, <2>1, OneMoreCleared
  <1>3. CASE S # {}
    <2> DEFINE a == Cleared(d, S)
               b == Cleared(d, more)
               used == {j \in DOMAIN d : IsRef(d[j]) \/ (d[j].needed /\ j \notin S)}
               rest == {j \in DOMAIN d : IsRef(d[j]) \/ (d[j].needed /\ j \notin more)}
    <2>1. /\ DOMAIN a = DOMAIN d
          /\ \A j \in DOMAIN d : IsRef(a[j]) \/ a[j].needed <=> j \in used
      BY ClearedWaiting
    <2>2. /\ DOMAIN b = DOMAIN d
          /\ \A j \in DOMAIN d : IsRef(b[j]) \/ b[j].needed <=> j \in rest
      <3> HIDE DEF more
      <3> QED
        BY <1>0, ClearedWaiting
    <2>3. BumpOne(a, i) = b
      BY OneMoreCleared
    <2>4. rest \subseteq used /\ i \in used /\ used \subseteq DOMAIN d
      BY <1>0 DEF Waiting
    <2> HIDE DEF a, b, used, rest
    <2>5. RemoveUnused(a) = [j \in used |-> a[j]]
      BY <2>1, <2>4 DEF RemoveUnused, Restrict
    <2>6. RemoveUnused(b) = [j \in rest |-> b[j]]
      BY <2>2, <2>4 DEF RemoveUnused, Restrict
    <2> DEFINE r == RemoveUnused(a)
               c == BumpOne(r, i)
    <2>7. DOMAIN c = used /\ \A j \in used : c[j] = b[j]
      <3>1. \A j \in DOMAIN d : b[j] = IF j = i THEN [a[i] EXCEPT !.needed = FALSE] ELSE a[j]
        BY <1>0, <2>1, <2>3 DEF BumpOne
      <3>2. c = [j \in used |-> IF j = i THEN [a[i] EXCEPT !.needed = FALSE] ELSE a[j]]
        BY <2>4, <2>5 DEF BumpOne
      <3> QED
        BY <2>4, <3>1, <3>2
    <2> HIDE DEF c
    <2>8. RemoveUnused(c) = [j \in rest |-> b[j]]
      <3>1. {j \in DOMAIN c : IsRef(c[j]) \/ c[j].needed} = rest
        BY <2>2, <2>4, <2>7
      <3>2. RemoveUnused(c) = [j \in DOMAIN c \cap rest |-> c[j]]
        BY <3>1 DEF RemoveUnused, Restrict
      <3>3. DOMAIN c \cap rest = rest /\ \A j \in rest : c[j] = b[j]
        BY <2>4, <2>7
      <3> QED
        BY <3>2, <3>3
    <2>9. Bump(d, S) = RemoveUnused(a)
      BY <1>3, BumpIsCleared DEF a
    <2>10. Bump(d, more) = RemoveUnused(b)
      BY <1>1 DEF b
    <2> QED
      BY <2>6, <2>8, <2>9, <2>10 DEF c
  <1> QED
    BY <1>2, <1>3

\* When its turn comes, a picture is bumped if the loop goes on.
LEMMA TurnOfNext ==
  ASSUME NEW n \in Nat, NEW b \in DpbUpTo(n), NEW p, NEW S \in SUBSET Waiting(b.entries),
         InFront(b.entries, S), NEW i \in LowestPoc(Bump(b.entries, S))
  PROVE  i \in BumpedAsNeeded(b, p) <=> GoesOn(b, Bump(b.entries, S), p)
  <1> DEFINE d == b.entries
  <1>1. d \in EntriesUpTo(n)
    BY DEF DpbUpTo
  <1> HIDE DEF d
  <1>2. S \in SUBSET Waiting(d) /\ InFront(d, S) /\ i \in LowestPoc(Bump(d, S))
    BY DEF d
  <1>3. /\ Waiting(Bump(d, S)) = Waiting(d) \ S
        /\ \A j \in Waiting(Bump(d, S)) : Bump(d, S)[j].poc = d[j].poc
    <2>1. Waiting(Bump(d, S)) \subseteq DOMAIN Bump(d, S)
      BY DEF Waiting
    <2> QED
      BY <1>1, <1>2, <2>1, BumpWaiting
  <1>4. i \in Waiting(d) /\ {j \in Waiting(d) : OutputBefore(d, j, i)} = S
    BY <1>1, <1>2, <1>3, LowestIsNext
  <1>5. LeftAt(b, i) = Bump(d, S)
    BY <1>4 DEF LeftAt, d
  <1> QED
    BY <1>4, <1>5, BumpedWhileItGoesOn DEF d

\* Where the loop ends, all that bump_as_needed is to let out has left.
LEMMA NoneLeftToBump ==
  ASSUME NEW n \in Nat, NEW b \in DpbUpTo(n), NEW p,
         NEW S \in SUBSET BumpedAsNeeded(b, p), InFront(b.entries, S),
         ~GoesOn(b, Bump(b.entries, S), p) \/ LowestPoc(Bump(b.entries, S)) = {}
  PROVE  S = BumpedAsNeeded(b, p)
  <1> DEFINE d == b.entries
             B == BumpedAsNeeded(b, p)
             e == Bump(d, S)
  <1>1. d \in EntriesUpTo(n)
    BY DEF DpbUpTo
  <1>2. B \subseteq Waiting(d) /\ \A i \in B, j \in Waiting(d) \ B : OutputBefore(d, i, j)
    BY BumpedFirst
  <1>3. Waiting(d) \subseteq DOMAIN d /\ S \in SUBSET Waiting(d)
    BY <1>2 DEF Waiting
  <1>4. Waiting(e) = Waiting(d) \ S /\ \A j \in Waiting(e) : e[j].poc = d[j].poc
    <2>1. Waiting(e) \subseteq DOMAIN e
      BY DEF Waiting
    <2> HIDE DEF d
    <2> QED
      BY <1>1, <1>3, <2>1, BumpWaiting
  <1>5. \A i \in LowestPoc(e) : i \in B <=> GoesOn(b, e, p)
    BY <1>3, TurnOfNext
  <1>6. InFront(d, S)
    OBVIOUS
  <1> HIDE DEF d, B, e
  <1>7. ASSUME NEW k \in B, k \notin S PROVE FALSE
    <2>1. PICK i \in LowestPoc(e) : TRUE
      BY <1>1, <1>2, <1>3, <1>4, <1>6, <1>7, LowestIsNext
    <2>2. i \in Waiting(d) \ S /\ InFront(d, S \cup {i})
      BY <1>1, <1>3, <1>4, <1>6, <2>1, LowestIsNext
    <2>3. i = k \/ OutputBefore(d, i, k)
      BY <1>2, <1>7, <2>2 DEF InFront
    <2>4. i \in B
      BY <1>1, <1>2, <1>3, <2>2, <2>3, OutputBeforeTotal
    <2> QED
      BY <1>5, <2>1, <2>4 DEF d, e
  <1> QED
    BY <1>7 DEF B

-----------------------------------------------------------------------------
(* The invariant of drain and bump_as_needed *)

DpbWith(entries) == [start.dpb EXCEPT !.entries = entries]

\* Pictures from the front of the queue have left, in order.
DrainSoFar ==
    \E S \in SUBSET Waiting(start.dpb.entries) :
        /\ InFront(start.dpb.entries, S)
        /\ dpb = DpbWith(Cleared(start.dpb.entries, S))
        /\ out \in OutputOrders(start.dpb.entries, S)

BumpSoFar ==
    \E S \in SUBSET BumpedAsNeeded(start.dpb, pic) :
        /\ InFront(start.dpb.entries, S)
        /\ dpb = DpbWith(Bump(start.dpb.entries, S))
        /\ out \in OutputOrders(start.dpb.entries, S)

\* A DPB that differs in its entries alone.
LEMMA DpbWithFields ==
  ASSUME start.dpb \in DpbUpTo(MaxEntries), NEW e
  PROVE  /\ DpbWith(e).entries = e
         /\ DpbWith(e).maxNumPics = start.dpb.maxNumPics
         /\ DpbWith(e).maxReorder = start.dpb.maxReorder
         /\ \A f : [DpbWith(e) EXCEPT !.entries = f] = DpbWith(f)
         /\ Clear(DpbWith(e)) = Clear(start.dpb)
  BY DEF DpbUpTo, DpbWith, Clear

\* A round of drain comes to its end, or has one more picture output.
LEMMA DrainRound ==
  ASSUME start.dpb \in DpbUpTo(MaxEntries), DrainSoFar, Drain
  PROVE  \/ loop' = "done" /\ dpb' = Clear(start.dpb) /\ out' \in Drained(start.dpb)
         \/ loop' = "drain" /\ DrainSoFar'
  <1> DEFINE d == start.dpb.entries
  <1>1. d \in EntriesUpTo(MaxEntries) /\ MaxEntries \in Nat
    BY LoopsAssumption DEF DpbUpTo
  <1>2. PICK S \in SUBSET Waiting(d) :
            /\ InFront(d, S) /\ dpb = DpbWith(Cleared(d, S)) /\ out \in OutputOrders(d, S)
    BY DEF DrainSoFar
  <1>3. start' = start
    BY DEF Drain
  <1> DEFINE e == Cleared(d, S)
  <1>4. dpb.entries = e
    BY <1>2, DpbWithFields
  <1>5. Waiting(d) \subseteq DOMAIN d
    BY DEF Waiting
  <1>6. Waiting(e) = Waiting(d) \ S /\ \A i \in Waiting(e) : e[i].poc = d[i].poc
    <2> HIDE DEF d
    <2> QED
      BY <1>1, <1>5, ClearedWaiting
  <1>7. CASE LowestPoc(e) = {}
    <2>1. loop' = "done" /\ dpb' = Clear(dpb) /\ out' = out
      BY <1>4, <1>7 DEF Drain
    <2>2. S = Waiting(d)
      <3> HIDE DEF d, e
      <3> QED
        BY <1>1, <1>2, <1>6, <1>7, LowestIsNext
    <2>3. Clear(dpb) = Clear(start.dpb)
      BY <1>2, DpbWithFields
    <2> QED
      BY <1>2, <2>1, <2>2, <2>3 DEF Drained
  <1>8. CASE LowestPoc(e) # {}
    <2>1. PICK i \in LowestPoc(e) : /\ dpb' = [dpb EXCEPT !.entries = BumpOne(@, i)]
                                    /\ out' = HandOver(e, i)
                                    /\ loop' = "drain"
      BY <1>4, <1>8 DEF Drain
    <2> HIDE DEF d, e
    <2>2. /\ i \in Waiting(d) \ S /\ \A j \in S : OutputBefore(d, j, i)
          /\ InFront(d, S \cup {i})
      BY <1>1, <1>2, <1>6, LowestIsNext
    <2>3. BumpOne(e, i) = Cleared(d, S \cup {i})
      BY <1>1, <2>2, OneMoreCleared DEF e
    <2>4. dpb' = DpbWith(Cleared(d, S \cup {i}))
      BY <1>2, <1>4, <2>1, <2>3, DpbWithFields
    <2>5. e[i].nonexisting = d[i].nonexisting
      BY <1>1, <1>5, <2>2, ClearedWaiting DEF e
    <2>6. out' \in OutputOrders(d, S \cup {i})
      <3>1. out' = IF d[i].nonexisting THEN out ELSE Append(out, i)
        BY <2>1, <2>5 DEF HandOver
      <3>2. S \in SUBSET DOMAIN d /\ i \in DOMAIN d \ S
        BY <1>5, <2>2
      <3> QED
        BY <1>1, <1>2, <2>2, <3>1, <3>2, OneMoreOutput
    <2>7. S \cup {i} \in SUBSET Waiting(d)
      BY <2>2
    <2>8. DrainSoFar'
      BY <1>3, <2>2, <2>4, <2>6, <2>7 DEF DrainSoFar, DpbWith, d
    <2> QED
      BY <2>1, <2>8
  <1> QED
    BY <1>7, <1>8

\* So does a round of bump_as_needed.
LEMMA BumpRound ==
  ASSUME start.dpb \in DpbUpTo(MaxEntries), BumpSoFar, BumpAsNeeded
  PROVE  \/ /\ loop' = "done" /\ pic' = pic
            /\ dpb' = DpbWith(Bump(start.dpb.entries, BumpedAsNeeded(start.dpb, pic)))
            /\ out' \in OutputOrders(start.dpb.entries, BumpedAsNeeded(start.dpb, pic))
         \/ loop' = "bump" /\ BumpSoFar'
  <1> DEFINE b == start.dpb
             d == b.entries
             B == BumpedAsNeeded(b, pic)
  <1>1. d \in EntriesUpTo(MaxEntries) /\ MaxEntries \in Nat
    BY LoopsAssumption DEF DpbUpTo
  <1>2. PICK S \in SUBSET B :
            /\ InFront(d, S) /\ dpb = DpbWith(Bump(d, S)) /\ out \in OutputOrders(d, S)
    BY DEF BumpSoFar
  <1>3. start' = start /\ pic' = pic
    BY DEF BumpAsNeeded
  <1> DEFINE e == Bump(d, S)
  <1>4. /\ dpb.entries = e /\ dpb.maxNumPics = b.maxNumPics /\ dpb.maxReorder = b.maxReorder
    BY <1>2, DpbWithFields
  <1>5. NeedsBumping(dpb, pic) /\ Cardinality(DOMAIN dpb.entries) >= dpb.maxReorder
            <=> GoesOn(b, e, pic)
    <2> HIDE DEF e
    <2> QED
      BY <1>4 DEF NeedsBumping, HasEmptyFrameBuffer, GoesOn
  <1>6. B \subseteq Waiting(d) /\ Waiting(d) \subseteq DOMAIN d
    BY <1>1, BumpedFirst DEF Waiting
  <1>7. Waiting(e) = Waiting(d) \ S /\ \A i \in Waiting(e) : e[i].poc = d[i].poc
    <2>1. Waiting(e) \subseteq DOMAIN e /\ S \in SUBSET Waiting(d)
      BY <1>6 DEF Waiting
    <2> HIDE DEF d, B
    <2> QED
      BY <1>1, <2>1, BumpWaiting
  <1>8. CASE ~GoesOn(b, e, pic) \/ LowestPoc(e) = {}
    <2>1. loop' = "done" /\ dpb' = dpb /\ out' = out
      BY <1>4, <1>5, <1>8 DEF BumpAsNeeded, Return
    <2>2. S = B
      <3> HIDE DEF b, B
      <3> QED
        BY <1>1, <1>2, <1>8, NoneLeftToBump DEF b, B
    <2> QED
      BY <1>2, <1>3, <2>1, <2>2
  <1>9. CASE GoesOn(b, e, pic) /\ LowestPoc(e) # {}
    <2>1. PICK i \in LowestPoc(e) : /\ dpb' = [dpb EXCEPT !.entries = RemoveUnused(BumpOne(@, i))]
                                    /\ out' = HandOver(e, i)
                                    /\ loop' = "bump"
      BY <1>4, <1>5, <1>9 DEF BumpAsNeeded
    <2>2. i \in B
      BY <1>1, <1>2, <1>6, <1>9, <2>1, TurnOfNext
    <2> HIDE DEF d, e, B
    <2>3. /\ i \in Waiting(d) \ S /\ \A j \in S : OutputBefore(d, j, i)
          /\ InFront(d, S \cup {i})
      BY <1>1, <1>2, <1>6, <1>7, LowestIsNext
    <2>4. RemoveUnused(BumpOne(e, i)) = Bump(d, S \cup {i})
      BY <1>1, <1>6, <2>3, OneMoreBumped DEF e
    <2>5. dpb' = DpbWith(Bump(d, S \cup {i}))
      BY <1>2, <1>4, <2>1, <2>4, DpbWithFields
    <2>6. e[i].nonexisting = d[i].nonexisting
      <3>1. i \in DOMAIN e
        BY <1>7, <2>3 DEF Waiting
      <3> QED
        BY <1>1, <3>1, BumpFrom DEF e, From
    <2>7. out' \in OutputOrders(d, S \cup {i})
      <3>1. out' = IF d[i].nonexisting THEN out ELSE Append(out, i)
        BY <2>1, <2>6 DEF HandOver
      <3>2. S \in SUBSET DOMAIN d /\ i \in DOMAIN d \ S
        BY <1>6, <2>3
      <3> QED
        BY <1>1, <1>2, <2>3, <3>1, <3>2, OneMoreOutput
    <2>8. S \cup {i} \in SUBSET B
      BY <2>2
    <2>9. BumpSoFar'
      BY <1>3, <2>3, <2>5, <2>7, <2>8 DEF BumpSoFar, DpbWith, b, d, B
    <2> QED
      BY <2>1, <2>9
  <1> QED
    BY <1>8, <1>9

-----------------------------------------------------------------------------
(* The sliding window *)

\* The references numbered as if they were to be handed out.
ByWrap(d) == [i \in DOMAIN d |-> [d[i] EXCEPT !.poc = d[i].picNum]]

\* FrameNumWrap orders entries as their order counts would,
LEMMA WrapOrder ==
  ASSUME NEW n \in Nat, NEW d \in EntriesUpTo(n)
  PROVE  /\ ByWrap(d) \in EntriesUpTo(n) /\ DOMAIN ByWrap(d) = DOMAIN d
         /\ \A i, j \in DOMAIN d : OutputBefore(ByWrap(d), i, j) <=> WrapBefore(d, i, j)
  <1> DEFINE w == ByWrap(d)
  <1>1. DOMAIN d \subseteq 1 .. n /\ \A i \in DOMAIN d : d[i] \in Entry
    BY EntriesElim
  <1>2. \A i \in DOMAIN d : LET f == [d[i] EXCEPT !.poc = d[i].picNum]
                            IN  f \in Entry /\ f.poc = d[i].picNum
    BY <1>1 DEF Entry
  <1>3. /\ DOMAIN w = DOMAIN d /\ w = [i \in DOMAIN d |-> w[i]]
        /\ \A i \in DOMAIN d : w[i] \in Entry /\ w[i].poc = d[i].picNum
    BY <1>2 DEF ByWrap
  <1> HIDE DEF w
  <1>4. w \in EntriesUpTo(n)
    BY <1>1, <1>3, EntriesIntro
  <1> QED
    BY <1>3, <1>4 DEF w, OutputBefore, WrapBefore

\* one before the other of any two.
LEMMA WrapBeforeTotal ==
  ASSUME NEW n \in Nat, NEW d \in EntriesUpTo(n), NEW i \in DOMAIN d, NEW j \in DOMAIN d
  PROVE  /\ i = j \/ WrapBefore(d, i, j) \/ WrapBefore(d, j, i)
         /\ ~(WrapBefore(d, i, j) /\ WrapBefore(d, j, i))
  <1>1. \A k \in DOMAIN d : k \in Int /\ d[k].picNum \in Int
    BY EntriesElim DEF Entry
  <1> QED
    BY <1>1 DEF WrapBefore

\* What unmarking the entries S leaves.
LEMMA UnmarkFields ==
  ASSUME NEW n \in Nat, NEW d \in EntriesUpTo(n), NEW S
  PROVE  /\ DOMAIN Unmark(d, S) = DOMAIN d
         /\ \A i \in DOMAIN d : Unmark(d, S)[i].picNum = d[i].picNum
         /\ Refs(Unmark(d, S)) = Refs(d) \ S
         /\ ShortTerm(Unmark(d, S)) = ShortTerm(d) \ S
         /\ Unmark(d, {}) = d
         /\ \A T : Unmark(Unmark(d, S), T) = Unmark(d, S \cup T)
  <1> DEFINE u == Unmark(d, S)
  <1>1. d = [i \in DOMAIN d |-> d[i]] /\ \A i \in DOMAIN d : d[i] \in Entry
    BY EntriesElim
  <1>2. \A i \in DOMAIN d : LET f == [d[i] EXCEPT !.ref = "None"]
                            IN  /\ f.picNum = d[i].picNum /\ f.ref = "None"
                                /\ [f EXCEPT !.ref = "None"] = f
    BY <1>1 DEF Entry
  <1>3. /\ DOMAIN u = DOMAIN d
        /\ \A i \in DOMAIN d : /\ u[i].picNum = d[i].picNum
                               /\ u[i].ref = IF i \in S THEN "None" ELSE d[i].ref
    BY <1>2 DEF Unmark
  <1>4. ASSUME NEW T PROVE Unmark(u, T) = Unmark(d, S \cup T)
    <2>1. \A i \in DOMAIN d :
             (IF i \in T THEN [u[i] EXCEPT !.ref = "None"] ELSE u[i])
                = IF i \in S \cup T THEN [d[i] EXCEPT !.ref = "None"] ELSE d[i]
      <3> SUFFICES ASSUME NEW i \in DOMAIN d
                   PROVE  (IF i \in T THEN [u[i] EXCEPT !.ref = "None"] ELSE u[i])
                             = IF i \in S \cup T THEN [d[i] EXCEPT !.ref = "None"] ELSE d[i]
        OBVIOUS
      <3> DEFINE f == [d[i] EXCEPT !.ref = "None"]
      <3>1. u[i] = IF i \in S THEN f ELSE d[i]
        BY DEF Unmark
      <3>2. [f EXCEPT !.ref = "None"] = f
        BY <1>2
      <3> HIDE DEF u
      <3>3. CASE i \in S
        <4>1. u[i] = f
          BY <3>1, <3>3
        <4> HIDE DEF f
        <4> QED
          BY <3>2, <3>3, <4>1 DEF f
      <3>4. CASE i \notin S
        <4>1. u[i] = d[i]
          BY <3>1, <3>4
        <4> QED
          BY <3>4, <4>1
      <3> QED
        BY <3>3, <3>4
    <2> HIDE DEF u
    <2>2. Unmark(u, T) = [i \in DOMAIN d |-> IF i \in T THEN [u[i] EXCEPT !.ref = "None"] ELSE u[i]]
      BY <1>3 DEF Unmark
    <2> QED
      BY <2>1, <2>2 DEF Unmark
  <1>5. Unmark(d, {}) = d
    BY <1>1 DEF Unmark
  <1> HIDE DEF u
  <1>6. Refs(u) = Refs(d) \ S /\ ShortTerm(u) = ShortTerm(d) \ S
    BY <1>3 DEF Refs, ShortTerm, IsRef
  <1> QED
    BY <1>3, <1>4, <1>5, <1>6 DEF u

\* The pictures of S are the oldest short-term references.
OldestFirst(d, S) == \A i \in S, j \in ShortTerm(d) \ S : WrapBefore(d, i, j)

\* Where the oldest are unmarked, the lowest is the oldest of the others
\* (find_short_term_lowest_frame_num_wrap).
LEMMA LowestIsOldest ==
  ASSUME NEW n \in Nat, NEW d \in EntriesUpTo(n), NEW S \in SUBSET ShortTerm(d),
         OldestFirst(d, S)
  PROVE  \/ LowestWrap(Unmark(d, S)) = {} /\ S = ShortTerm(d)
         \/ \E i \in ShortTerm(d) \ S : /\ LowestWrap(Unmark(d, S)) = {i}
                                        /\ OldestFirst(d, S \cup {i})
  <1> DEFINE T == ShortTerm(d) \ S
             u == Unmark(d, S)
  <1>1. T \in SUBSET DOMAIN d
    BY DEF ShortTerm
  <1>2. ShortTerm(u) = T /\ \A i \in DOMAIN d : u[i].picNum = d[i].picNum
    BY UnmarkFields
  <1> HIDE DEF u
  <1>3. \A i, j \in T : WrapBefore(u, i, j) <=> WrapBefore(d, i, j)
    BY <1>1, <1>2 DEF WrapBefore
  <1>4. LowestWrap(u) = {i \in T : \A j \in T \ {i} : WrapBefore(d, i, j)}
    BY <1>2, <1>3 DEF LowestWrap
  <1>5. CASE T = {}
    BY <1>4, <1>5 DEF u
  <1>6. CASE T # {}
    <2>1. PICK m \in T : \A j \in T : ~OutputBefore(ByWrap(d), j, m)
      <3>1. ByWrap(d) \in EntriesUpTo(n) /\ T \in SUBSET DOMAIN ByWrap(d)
        BY <1>1, WrapOrder
      <3> HIDE DEF T
      <3> QED
        BY <1>6, <3>1, FirstInOrder
    <2>2. \A j \in T \ {m} : WrapBefore(d, m, j)
      BY <1>1, <2>1, WrapOrder, WrapBeforeTotal
    <2>3. LowestWrap(u) = {m}
      BY <1>1, <1>4, <2>2, WrapBeforeTotal
    <2>4. OldestFirst(d, S \cup {m})
      BY <2>2 DEF OldestFirst
    <2> QED
      BY <2>3, <2>4 DEF u
  <1> QED
    BY <1>5, <1>6

\* How many pictures the window has to unmark.
Limit(maxNumRefFrames) == IF maxNumRefFrames > 1 THEN maxNumRefFrames ELSE 1

Excess(d, maxNumRefFrames) == Cardinality(Refs(d)) - Limit(maxNumRefFrames) + 1

\* As many of the oldest as are in excess, or all there are if that is fewer,
\* are those the window means.
LEMMA OldestCounted ==
  ASSUME NEW n \in Nat, NEW d \in EntriesUpTo(n), NEW S \in SUBSET ShortTerm(d),
         OldestFirst(d, S), NEW excess \in Int, excess > 0, Cardinality(S) <= excess,
         Cardinality(S) = excess \/ S = ShortTerm(d)
  PROVE  S = {i \in ShortTerm(d) :
                 Cardinality({j \in ShortTerm(d) : WrapBefore(d, j, i)}) < excess}
  <1> DEFINE ST == ShortTerm(d)
             Older(i) == {j \in ST : WrapBefore(d, j, i)}
  <1>1. ST \subseteq DOMAIN d /\ IsFiniteSet(ST)
    BY EntriesFinite, FS_Subset DEF ShortTerm
  <1>2. IsFiniteSet(S) /\ Cardinality(S) \in Nat
    BY <1>1, FS_Subset, FS_CardinalityType
  <1>3. \A i \in ST : IsFiniteSet(Older(i)) /\ Cardinality(Older(i)) \in Nat
    BY <1>1, FS_Subset, FS_CardinalityType
  <1>4. ASSUME NEW i \in S
        PROVE  Cardinality(Older(i)) < excess
    <2>1. Older(i) \subseteq S \ {i}
      BY <1>1, WrapBeforeTotal DEF OldestFirst
    <2>2. IsFiniteSet(S \ {i}) /\ Cardinality(S \ {i}) = Cardinality(S) - 1
      BY <1>2, FS_RemoveElement
    <2>3. Cardinality(Older(i)) <= Cardinality(S \ {i})
      BY <2>1, <2>2, FS_Subset
    <2>4. Cardinality(Older(i)) \in Nat
      BY <1>3
    <2> HIDE DEF Older
    <2> QED
      BY <1>2, <2>2, <2>3, <2>4
  <1>5. ASSUME NEW i \in ST, i \notin S
        PROVE  ~(Cardinality(Older(i)) < excess)
    <2>1. Cardinality(S) = excess
      BY <1>5
    <2>2. S \subseteq Older(i)
      BY <1>5 DEF OldestFirst
    <2>3. Cardinality(S) <= Cardinality(Older(i))
      BY <1>3, <2>2, FS_Subset
    <2>4. Cardinality(Older(i)) \in Nat
      BY <1>3
    <2> HIDE DEF Older
    <2> QED
      BY <1>2, <2>1, <2>3, <2>4
  <1> QED
    BY <1>4, <1>5

WindowSoFar ==
    /\ out = <<>>
    /\ \E S \in SUBSET ShortTerm(start.dpb.entries) :
          /\ OldestFirst(start.dpb.entries, S)
          /\ dpb = DpbWith(Unmark(start.dpb.entries, S))
          /\ loop = "window" => S = {}
          /\ loop = "unmark" =>
                /\ numRefPics = Cardinality(Refs(dpb.entries))
                /\ Cardinality(S) <= Excess(start.dpb.entries, pic)
                /\ Excess(start.dpb.entries, pic) > 0

\* Each picture unmarked is a reference less.
LEMMA RefsUnmarked ==
  ASSUME NEW n \in Nat, NEW d \in EntriesUpTo(n), NEW S \in SUBSET ShortTerm(d)
  PROVE  /\ IsFiniteSet(S) /\ Cardinality(S) \in Nat /\ Cardinality(Refs(d)) \in Nat
         /\ Cardinality(Refs(Unmark(d, S))) = Cardinality(Refs(d)) - Cardinality(S)
  <1>1. Refs(Unmark(d, S)) = Refs(d) \ S /\ S \subseteq Refs(d) /\ IsFiniteSet(Refs(d))
    BY UnmarkFields, EntriesFinite, FS_Subset DEF ShortTerm, Refs, IsRef
  <1>2. Refs(d) \cap S = S
    BY <1>1
  <1>3. IsFiniteSet(S)
    BY <1>1, FS_Subset
  <1>4. Cardinality(S) \in Nat /\ Cardinality(Refs(d)) \in Nat
    BY <1>1, <1>3, FS_CardinalityType
  <1>5. Cardinality(Refs(d) \ S) = Cardinality(Refs(d)) - Cardinality(Refs(d) \cap S)
    BY <1>1, FS_Difference
  <1> QED
    BY <1>1, <1>2, <1>3, <1>4, <1>5, Zenon

\* sliding_window_marking returns at once, or starts its loop with the count.
LEMMA WindowStart ==
  ASSUME start.dpb \in DpbUpTo(MaxEntries), pic \in Nat, WindowSoFar, CountRefs
  PROVE  /\ out' = <<>> /\ pic' = pic
         /\ \/ /\ loop' = "done"
               /\ dpb'.entries = SlidingWindowMarking(start.dpb.entries, pic)
            \/ loop' = "unmark" /\ WindowSoFar'
  <1> DEFINE d == start.dpb.entries
             excess == Excess(d, pic)
  <1>1. d \in EntriesUpTo(MaxEntries) /\ MaxEntries \in Nat
    BY LoopsAssumption DEF DpbUpTo
  <1>2. OldestFirst(d, {}) /\ dpb = DpbWith(Unmark(d, {})) /\ out = <<>>
    BY DEF WindowSoFar, CountRefs
  <1>3. start' = start /\ pic' = pic /\ out' = out /\ dpb' = dpb
        /\ numRefPics' = Cardinality(Refs(dpb.entries))
        /\ loop' = IF numRefPics' < Limit(pic) THEN "done" ELSE "unmark"
    BY DEF CountRefs, MaxNumRefFrames, Limit
  <1>4. Unmark(d, {}) = d /\ dpb.entries = d
    BY <1>1, <1>2, UnmarkFields, DpbWithFields
  <1>5. Cardinality(Refs(d)) \in Nat /\ Limit(pic) \in Nat
    BY <1>1, EntriesFinite, FS_Subset, FS_CardinalityType DEF Limit, Refs
  <1>6. excess \in Int /\ (numRefPics' < Limit(pic) <=> excess <= 0)
    BY <1>3, <1>4, <1>5 DEF Excess
  <1>7. CASE numRefPics' < Limit(pic)
    <2>1. loop' = "done" /\ dpb'.entries = d /\ excess <= 0
      BY <1>3, <1>4, <1>6, <1>7
    <2>2. SlidingWindowMarking(d, pic) = d
      BY <2>1 DEF SlidingWindowMarking, Excess, Limit
    <2> QED
      BY <1>2, <1>3, <2>1, <2>2
  <1>8. CASE ~(numRefPics' < Limit(pic))
    <2>1. loop' = "unmark" /\ excess > 0
      BY <1>3, <1>6, <1>8
    <2>2. Cardinality({}) = 0
      BY FS_EmptySet
    <2>3. WindowSoFar'
      BY <1>2, <1>3, <1>6, <2>1, <2>2 DEF WindowSoFar, DpbWith, Excess
    <2> QED
      BY <1>2, <1>3, <2>1, <2>3
  <1> QED
    BY <1>7, <1>8

\* A round of its loop is the last, or has one more unmarked.
LEMMA WindowRound ==
  ASSUME start.dpb \in DpbUpTo(MaxEntries), pic \in Nat, WindowSoFar, UnmarkOldest
  PROVE  /\ out' = <<>> /\ pic' = pic
         /\ \/ /\ loop' = "done"
               /\ dpb'.entries = SlidingWindowMarking(start.dpb.entries, pic)
            \/ loop' = "unmark" /\ WindowSoFar'
  <1> DEFINE d == start.dpb.entries
             limit == Limit(pic)
             excess == Excess(d, pic)
  <1>1. d \in EntriesUpTo(MaxEntries) /\ MaxEntries \in Nat
    BY LoopsAssumption DEF DpbUpTo
  <1>2. PICK S \in SUBSET ShortTerm(d) :
          /\ OldestFirst(d, S)
          /\ dpb = DpbWith(Unmark(d, S))
          /\ numRefPics = Cardinality(Refs(dpb.entries))
          /\ Cardinality(S) <= excess
          /\ excess > 0
    BY DEF WindowSoFar, UnmarkOldest
  <1>3. start' = start /\ pic' = pic /\ out' = out /\ out = <<>> /\ loop = "unmark"
    BY DEF UnmarkOldest, WindowSoFar
  <1> DEFINE e == Unmark(d, S)
             full == numRefPics >= limit
  <1>4. dpb.entries = e
    BY <1>2, DpbWithFields
  <1>5. limit \in Nat \ {0}
    BY DEF Limit
  <1> HIDE DEF d
  <1>6. /\ IsFiniteSet(S) /\ Cardinality(S) \in Nat /\ Cardinality(Refs(d)) \in Nat
        /\ numRefPics = Cardinality(Refs(d)) - Cardinality(S)
    BY <1>1, <1>2, <1>4, RefsUnmarked
  <1> HIDE DEF limit
  <1>7. excess \in Int /\ (full <=> Cardinality(S) < excess)
    BY <1>5, <1>6 DEF Excess, limit
  <1> HIDE DEF e, full, excess
  <1>8. IF full /\ LowestWrap(e) # {}
        THEN /\ dpb' = [dpb EXCEPT !.entries = Unmark(e, LowestWrap(e))]
             /\ numRefPics' = numRefPics - 1 /\ loop' = "unmark"
        ELSE dpb' = [dpb EXCEPT !.entries = RemoveUnused(e)] /\ loop' = "done"
    BY <1>3, <1>4, Zenon DEF UnmarkOldest, full, limit, Limit, MaxNumRefFrames
  <1>9. CASE full /\ LowestWrap(e) # {}
    <2>1. PICK i \in ShortTerm(d) \ S : LowestWrap(e) = {i} /\ OldestFirst(d, S \cup {i})
      BY <1>1, <1>2, <1>9, LowestIsOldest DEF e
    <2> DEFINE more == S \cup {i}
    <2>2. dpb' = DpbWith(Unmark(d, more)) /\ dpb'.entries = Unmark(d, more)
      <3>1. Unmark(e, {i}) = Unmark(d, more)
        BY <1>1, UnmarkFields DEF e
      <3> QED
        BY <1>2, <1>8, <1>9, <2>1, <3>1, DpbWithFields
    <2>3. Cardinality(more) = Cardinality(S) + 1 /\ Cardinality(more) <= excess
      <3>1. i \notin S /\ Cardinality(S) < excess
        BY <1>7, <1>9
      <3>2. Cardinality(more) = Cardinality(S) + 1
        BY <1>6, <3>1, FS_AddElement
      <3> QED
        BY <1>6, <1>7, <3>1, <3>2
    <2>4. loop' = "unmark" /\ more \in SUBSET ShortTerm(d)
      BY <1>8, <1>9, <2>1
    <2>5. numRefPics' = Cardinality(Refs(dpb'.entries))
      <3>1. Cardinality(Refs(Unmark(d, more))) = Cardinality(Refs(d)) - Cardinality(more)
        BY <1>1, <2>4, RefsUnmarked
      <3>2. numRefPics' = Cardinality(Refs(d)) - (Cardinality(S) + 1)
        BY <1>6, <1>8, <1>9
      <3> QED
        BY <2>2, <2>3, <3>1, <3>2, Zenon
    <2> HIDE DEF more
    <2>6. WindowSoFar'
      BY <1>2, <1>3, <2>1, <2>2, <2>3, <2>4, <2>5 DEF WindowSoFar, DpbWith, d, excess, Excess, more
    <2> QED
      BY <1>3, <2>4, <2>6
  <1>10. CASE ~(full /\ LowestWrap(e) # {})
    <2>1. loop' = "done" /\ dpb'.entries = RemoveUnused(e)
      <3>1. dpb' = DpbWith(RemoveUnused(e))
        BY <1>2, <1>8, <1>10, DpbWithFields
      <3> QED
        BY <1>8, <1>10, <3>1, DpbWithFields
    <2>2. Cardinality(S) = excess \/ S = ShortTerm(d)
      <3>1. CASE full
        <4>1. LowestWrap(Unmark(d, S)) = {}
          BY <1>10, <3>1 DEF e
        <4>2. S = ShortTerm(d) \/ \E i \in ShortTerm(d) \ S : LowestWrap(Unmark(d, S)) = {i}
          BY <1>1, <1>2, LowestIsOldest
        <4> QED
          BY <4>1, <4>2, Zenon
      <3>2. CASE ~full
        BY <1>2, <1>6, <1>7, <3>2
      <3> QED
        BY <3>1, <3>2
    <2>3. S = {i \in ShortTerm(d) :
                  Cardinality({j \in ShortTerm(d) : WrapBefore(d, j, i)}) < excess}
      BY <1>1, <1>2, <1>7, <2>2, OldestCounted
    <2>4. SlidingWindowMarking(d, pic) = RemoveUnused(Unmark(d, S))
      BY <1>2, <1>7, <2>3 DEF SlidingWindowMarking, excess, Excess, Limit
    <2> QED
      BY <1>3, <2>1, <2>4 DEF e, d
  <1> QED
    BY <1>9, <1>10

-----------------------------------------------------------------------------
(* The loops, from the call to the return *)

\* Where a call stands: its loop has taken a front of what it is to take, or it
\* has returned.
LoopInv ==
    /\ start.dpb \in DpbUpTo(MaxEntries)
    /\ \/ start.loop = "drain" /\ loop = "drain" /\ DrainSoFar
       \/ start.loop = "bump" /\ loop = "bump" /\ BumpSoFar
       \/ start.loop = "window" /\ loop \in {"window", "unmark"} /\ pic \in Nat /\ WindowSoFar
       \/ start.loop \in {"drain", "bump", "window"} /\ loop = "done" /\ LoopsAgree

\* The entries a loop is started on.
LEMMA EntriesForType ==
  ASSUME NEW l
  PROVE  EntriesFor(l) \subseteq Entry
  <1> SUFFICES ASSUME NEW e \in EntriesFor(l)
               PROVE  e \in Entry
    OBVIOUS
  <1>1. PICK v \in [poc : IF l = "window" THEN {0} ELSE Values,
                   wrap : IF l = "window" THEN Values ELSE {0},
                   ref : {"None", "ShortTerm", "LongTerm"},
                   needed : BOOLEAN, nonexisting : BOOLEAN] :
                e = EntryOf(v.poc, v.wrap, v.ref, v.needed, v.nonexisting)
    BY DEF EntriesFor
  <1>2. /\ v.poc \in Int /\ v.wrap \in Int /\ v.ref \in {"None", "ShortTerm", "LongTerm"}
        /\ v.needed \in BOOLEAN /\ v.nonexisting \in BOOLEAN
    <2>1. (IF l = "window" THEN {0} ELSE Values) \subseteq Int
          /\ (IF l = "window" THEN Values ELSE {0}) \subseteq Int
      BY LoopsAssumption
    <2> DEFINE pocs == IF l = "window" THEN {0} ELSE Values
               wraps == IF l = "window" THEN Values ELSE {0}
    <2> HIDE DEF pocs, wraps
    <2> QED
      BY <2>1 DEF pocs, wraps
  <1> QED
    BY <1>1, <1>2 DEF EntryOf, Entry, Marks

\* The invariant holds at the call,
LEMMA LoopInit == Init => LoopInv
  <1> SUFFICES ASSUME Init PROVE LoopInv
    OBVIOUS
  <1> DEFINE d == dpb.entries
  <1>1. dpb \in DpbUpTo(MaxEntries)
    <2>1. PICK n \in 0 .. MaxEntries, maxNumPics \in 1 .. MaxLimit, maxReorder \in 0 .. MaxLimit :
             \E f \in [1 .. n -> EntriesFor(loop)] :
                dpb = [entries |-> f, maxNumPics |-> maxNumPics, maxReorder |-> maxReorder]
      BY DEF Init
    <2>2. PICK f \in [1 .. n -> EntriesFor(loop)] :
             dpb = [entries |-> f, maxNumPics |-> maxNumPics, maxReorder |-> maxReorder]
      BY <2>1
    <2>3. 1 .. n \subseteq 1 .. MaxEntries /\ maxNumPics \in Nat /\ maxReorder \in Nat
      BY LoopsAssumption
    <2>4. f \in [1 .. n -> Entry]
      BY EntriesForType
    <2>5. f \in EntriesUpTo(MaxEntries)
      BY <2>3, <2>4 DEF EntriesUpTo
    <2> QED
      BY <2>2, <2>3, <2>5 DEF DpbUpTo
  <1>2. start.dpb = dpb /\ start.loop = loop /\ out = <<>> /\ pic \in PicturesFor(loop)
        /\ loop \in {"drain", "bump", "window"}
    BY LoopsAssumption DEF Init
  <1>3. d \in EntriesUpTo(MaxEntries) /\ MaxEntries \in Nat
    BY <1>1, LoopsAssumption DEF DpbUpTo
  <1>4. DpbWith(d) = dpb
    BY <1>1, <1>2 DEF DpbWith, DpbUpTo
  <1>5. Cleared(d, {}) = d /\ Bump(d, {}) = d /\ Unmark(d, {}) = d
    BY <1>3, ClearedWaiting, UnmarkFields DEF Bump
  <1>6. InFront(d, {}) /\ OldestFirst(d, {}) /\ <<>> \in OutputOrders(d, {})
    BY NoOutput DEF InFront, OldestFirst
  <1>7. CASE loop = "drain"
    BY <1>1, <1>2, <1>4, <1>5, <1>6, <1>7 DEF LoopInv, DrainSoFar
  <1>8. CASE loop = "bump"
    BY <1>1, <1>2, <1>4, <1>5, <1>6, <1>8 DEF LoopInv, BumpSoFar
  <1>9. CASE loop = "window"
    <2>1. pic \in Nat
      BY <1>2, <1>9, LoopsAssumption DEF PicturesFor
    <2> QED
      BY <1>1, <1>2, <1>4, <1>5, <1>6, <1>9, <2>1 DEF LoopInv, WindowSoFar
  <1> QED
    BY <1>2, <1>7, <1>8, <1>9

\* and after every round.
LEMMA LoopStep == LoopInv /\ [Next]_vars => LoopInv'
  <1> SUFFICES ASSUME LoopInv, [Next]_vars PROVE LoopInv'
    OBVIOUS
  <1>1. start.dpb \in DpbUpTo(MaxEntries)
    BY DEF LoopInv
  <1>2. CASE Drain
    <2>1. start.loop = "drain" /\ DrainSoFar /\ start' = start /\ pic' = pic
      BY <1>2 DEF LoopInv, Drain
    <2>2. CASE loop' = "done" /\ dpb' = Clear(start.dpb) /\ out' \in Drained(start.dpb)
      BY <1>1, <2>1, <2>2 DEF LoopInv, LoopsAgree
    <2>3. CASE loop' = "drain" /\ DrainSoFar'
      BY <1>1, <2>1, <2>3 DEF LoopInv
    <2> QED
      BY <1>1, <1>2, <2>1, <2>2, <2>3, DrainRound
  <1>3. CASE BumpAsNeeded
    <2>1. start.loop = "bump" /\ BumpSoFar /\ start' = start /\ pic' = pic
      BY <1>3 DEF LoopInv, BumpAsNeeded
    <2>2. CASE /\ loop' = "done"
               /\ dpb' = DpbWith(Bump(start.dpb.entries, BumpedAsNeeded(start.dpb, pic)))
               /\ out' \in OutputOrders(start.dpb.entries, BumpedAsNeeded(start.dpb, pic))
      BY <1>1, <2>1, <2>2 DEF LoopInv, LoopsAgree, DpbWith
    <2>3. CASE loop' = "bump" /\ BumpSoFar'
      BY <1>1, <2>1, <2>3 DEF LoopInv
    <2> QED
      BY <1>1, <1>3, <2>1, <2>2, <2>3, BumpRound
  <1>4. CASE CountRefs \/ UnmarkOldest
    <2>1. start.loop = "window" /\ WindowSoFar /\ start' = start /\ pic' = pic /\ pic \in Nat
      BY <1>4 DEF LoopInv, CountRefs, UnmarkOldest
    <2>2. CASE /\ loop' = "done" /\ out' = <<>>
               /\ dpb'.entries = SlidingWindowMarking(start.dpb.entries, pic)
      BY <1>1, <2>1, <2>2 DEF LoopInv, LoopsAgree
    <2>3. CASE loop' = "unmark" /\ WindowSoFar'
      BY <1>1, <2>1, <2>3 DEF LoopInv
    <2> QED
      BY <1>1, <1>4, <2>1, <2>2, <2>3, WindowStart, WindowRound
  <1>5. CASE UNCHANGED vars
    BY <1>5 DEF vars, LoopInv, LoopsAgree, DrainSoFar, BumpSoFar, WindowSoFar, DpbWith
  <1> QED
    BY <1>2, <1>3, <1>4, <1>5 DEF Next

\* drain(), bump_as_needed() and sliding_window_marking(), run round by round
\* from any DPB, return what H264Dpb says of each in one expression: the same
\* pictures in the same order, and the same entries left.
THEOREM LoopsComeToTheSame == Spec => []LoopsAgree
  <1>1. LoopInv => LoopsAgree
    BY DEF LoopInv, LoopsAgree
  <1> QED
    BY <1>1, LoopInit, LoopStep, PTL DEF Spec

-----------------------------------------------------------------------------
(* Emulation prevention: what is written is read.                          *)

Byte == 0 .. 255

\* Of some numbers one is the first.
LEMMA FirstOf ==
  ASSUME NEW len \in Nat, NEW T \in SUBSET (1 .. len), T # {}
  PROVE  \E n \in T : \A k \in T : n <= k
  <1> DEFINE Below(n) == {k \in T : k < n}
             R == StrictSubsetOrdering(T)
  <1>1. IsFiniteSet(T)
    <2>1. 1 \in Int /\ len \in Int
      OBVIOUS
    <2>2. IsFiniteSet(1 .. len)
      BY <2>1, FS_Interval
    <2> QED
      BY <2>2, FS_Subset
  <1>2. IsWellFoundedOn(R, SUBSET T)
    BY <1>1, FS_StrictSubsetOrderingWellFounded, FS_FiniteSubsetsOfFinite
  <1>3. {Below(n) : n \in T} \subseteq SUBSET T /\ {Below(n) : n \in T} # {}
    OBVIOUS
  <1>4. PICK x \in {Below(n) : n \in T} : \A y \in {Below(n) : n \in T} : ~(<<y, x>> \in R)
    <2> HIDE DEF Below, R
    <2> QED
      BY <1>2, <1>3, WFMin
  <1>5. PICK n \in T : x = Below(n)
    OBVIOUS
  <1>6. ASSUME NEW k \in T, k < n PROVE FALSE
    <2>1. \A i \in T : i \in Int
      OBVIOUS
    <2>2. Below(k) \subseteq Below(n)
      <3> SUFFICES ASSUME NEW i \in T, i < k PROVE i < n
        OBVIOUS
      <3> QED
        BY <1>6, <2>1
    <2>3. k \in Below(n) /\ k \notin Below(k)
      BY <1>6, <2>1
    <2>4. <<Below(k), Below(n)>> \in R
      <3> HIDE DEF Below
      <3>1. Below(k) \subseteq T /\ Below(n) \subseteq T
        BY DEF Below
      <3> QED
        BY <2>2, <2>3, <3>1 DEF StrictSubsetOrdering
    <2> QED
      BY <1>4, <1>5, <2>4
  <1> QED
    <2>1. \A i \in T : i \in Int
      OBVIOUS
    <2> QED
      BY <1>5, <1>6, <2>1

\* What holds of no bytes, and of one more whenever it does of some, holds of all.
LEMMA Onwards ==
  ASSUME NEW len \in Nat, NEW T \in SUBSET (0 .. len), 0 \in T,
         \A n \in 1 .. len : n - 1 \in T => n \in T
  PROVE  T = 0 .. len
  <1> DEFINE M == (1 .. len) \ T
  <1>1. ASSUME M # {} PROVE FALSE
    <2>1. PICK n \in M : \A k \in M : n <= k
      BY <1>1, FirstOf
    <2>2. n \in 1 .. len /\ n \notin T
      BY <2>1
    <2>3. n - 1 \in T
      BY <2>1, <2>2
    <2> QED
      BY <2>2, <2>3
  <1>2. \A n \in 0 .. len : n = 0 \/ n \in 1 .. len
    OBVIOUS
  <1>3. \A n \in 1 .. len : n \in T
    BY <1>1, Zenon
  <1> QED
    BY <1>2, <1>3, Zenon

\* w begins with `first`, and goes on from each state by the next element of s.
Runs(w, step, first, s) ==
    w[0] = first /\ \A n \in 1 .. Len(s) : w[n] = step[<<w[n - 1], s[n]>>]

\* There are such states for any s.
LEMMA RunExists ==
  ASSUME NEW S, NEW B, NEW step \in [S \X B -> S], NEW first \in S, NEW s \in Seq(B)
  PROVE  \E w \in [0 .. Len(s) -> S] : Runs(w, step, first, s)
  <1> DEFINE len == Len(s)
             Run(w, k) == w \in [0 .. k -> S] /\ w[0] = first
                          /\ \A n \in 1 .. k : w[n] = step[<<w[n - 1], s[n]>>]
             T == {k \in 0 .. len : \E w : Run(w, k)}
  <1>0. len \in Nat
    OBVIOUS
  <1>1. 0 \in T
    <2>1. Run([k \in 0 .. 0 |-> first], 0)
      OBVIOUS
    <2>2. 0 \in 0 .. len
      BY <1>0
    <2> HIDE DEF Run, len
    <2> QED
      BY <2>1, <2>2
  <1>2. ASSUME NEW n \in 1 .. len, n - 1 \in T
        PROVE  n \in T
    <2>1. PICK w : Run(w, n - 1)
      BY <1>2
    <2>2. s[n] \in B /\ w[n - 1] \in S
      BY <1>0, <2>1
    <2> DEFINE v == [k \in 0 .. n |-> IF k = n THEN step[<<w[n - 1], s[n]>>] ELSE w[k]]
    <2>3. v \in [0 .. n -> S] /\ v[0] = first
      BY <1>0, <2>1, <2>2
    <2>4. \A k \in 1 .. n : v[k] = step[<<v[k - 1], s[k]>>]
      BY <1>0, <2>1
    <2> HIDE DEF v
    <2>5. Run(v, n)
      BY <2>3, <2>4
    <2> QED
      BY <1>0, <2>5
  <1>3. T = 0 .. len
    <2> HIDE DEF T, len
    <2>1. T \subseteq 0 .. len
      BY DEF T
    <2> QED
      BY <1>0, <1>1, <1>2, <2>1, Onwards
  <1>4. PICK w : Run(w, len)
    BY <1>0, <1>3
  <1> QED
    BY <1>0, <1>4 DEF Runs

\* So does this w, from what is a state in S.
RunsFrom(w, S, step, first, s) ==
    /\ w = [n \in 0 .. Len(s) |-> w[n]]
    /\ w[0] = first
    /\ \A n \in 1 .. Len(s) : w[n - 1] \in S => w[n] = step[<<w[n - 1], s[n]>>]

\* It stays among the states.
LEMMA RunTyped ==
  ASSUME NEW S, NEW B, NEW step \in [S \X B -> S], NEW first \in S, NEW s \in Seq(B),
         NEW w, RunsFrom(w, S, step, first, s)
  PROVE  w \in [0 .. Len(s) -> S]
  <1>0. Len(s) \in Nat /\ \A n \in 1 .. Len(s) : s[n] \in B
    OBVIOUS
  <1> DEFINE T == {n \in 0 .. Len(s) : w[n] \in S}
  <1>1. 0 \in T
    BY <1>0 DEF RunsFrom
  <1>2. ASSUME NEW n \in 1 .. Len(s), n - 1 \in T
        PROVE  n \in T
    <2>1. w[n - 1] \in S /\ s[n] \in B
      BY <1>0, <1>2
    <2>2. w[n] = step[<<w[n - 1], s[n]>>]
      BY <2>1 DEF RunsFrom
    <2>3. w[n] \in S
      BY <2>1, <2>2
    <2> QED
      BY <1>0, <2>3
  <1>3. T \subseteq 0 .. Len(s)
    OBVIOUS
  <1>4. T = 0 .. Len(s)
    <2> HIDE DEF T
    <2> QED
      BY <1>0, <1>1, <1>2, <1>3, Onwards
  <1> QED
    BY <1>4 DEF RunsFrom

-----------------------------------------------------------------------------

\* The states of the writers and of the reader.
WriterStates == [out : Seq(Byte), prev : Seq(Byte)]

PusherStates == [out : Seq(Byte), zeros : 0 .. 2]

ReaderStates == [out : Seq(Byte), prev : Byte \X Byte]

\* A byte more leaves the H.265 writer in one of its states,
LEMMA PushTyped ==
  ASSUME NEW w \in PusherStates, NEW b \in Byte
  PROVE  Push(w, b) \in PusherStates
  <1>1. 3 \in Byte /\ w.out \in Seq(Byte)
    BY DEF Byte, PusherStates
  <1>2. <<3>> \in Seq(Byte) /\ <<>> \in Seq(Byte) /\ <<b>> \in Seq(Byte)
    BY <1>1
  <1>3. (IF w.zeros = 2 /\ b <= 3 THEN <<3>> ELSE <<>>) \in Seq(Byte)
    BY <1>2
  <1>4. w.out \o (IF w.zeros = 2 /\ b <= 3 THEN <<3>> ELSE <<>>) \o <<b>> \in Seq(Byte)
    BY <1>1, <1>2, <1>3
  <1>5. (CASE b # 0 -> 0 [] b = 0 /\ w.zeros = 2 -> 1 [] OTHER -> w.zeros + 1) \in 0 .. 2
    BY DEF PusherStates
  <1> QED
    BY <1>4, <1>5 DEF Push, PusherStates

\* the reader in one of its own,
LEMMA ReadByteTyped ==
  ASSUME NEW r \in ReaderStates, NEW b \in Byte
  PROVE  ReadByte(r, b) \in ReaderStates
  <1>0. r.out \in Seq(Byte) /\ r.prev[2] \in Byte /\ 255 \in Byte
    BY DEF ReaderStates, Byte
  <1>1. /\ Append(r.out, b) \in Seq(Byte) /\ <<255, 255>> \in Byte \X Byte
        /\ <<r.prev[2], b>> \in Byte \X Byte
    BY <1>0
  <1>2. [r EXCEPT !.prev = <<255, 255>>] \in ReaderStates
    BY <1>1 DEF ReaderStates
  <1>3. [out |-> Append(r.out, b), prev |-> <<r.prev[2], b>>] \in ReaderStates
    BY <1>1 DEF ReaderStates
  <1> QED
    BY <1>2, <1>3 DEF ReadByte

\* and the H.264 writer too.
LEMMA WriteByteTyped ==
  ASSUME NEW w \in WriterStates, NEW b \in Byte
  PROVE  WriteByte(w, b) \in WriterStates
  <1>1. w.out \in Seq(Byte) /\ w.prev \in Seq(Byte) /\ 0 \in Byte /\ 3 \in Byte
    BY DEF WriterStates, Byte
  <1>2. CASE w.prev = <<0, 0>> /\ b <= 3
    <2>1. <<0, 0, 3, b>> \in Seq(Byte) /\ <<>> \in Seq(Byte)
      BY <1>1
    <2>2. w.out \o <<0, 0, 3, b>> \in Seq(Byte)
      BY <1>1, <2>1
    <2>3. WriteByte(w, b) = [out |-> w.out \o <<0, 0, 3, b>>, prev |-> <<>>]
      BY <1>2 DEF WriteByte
    <2> QED
      BY <2>1, <2>2, <2>3 DEF WriterStates
  <1>3. CASE ~(w.prev = <<0, 0>> /\ b <= 3) /\ Len(w.prev) < 2
    <2>1. WriteByte(w, b) = [w EXCEPT !.prev = Append(@, b)]
      BY <1>3 DEF WriteByte
    <2>2. Append(w.prev, b) \in Seq(Byte)
      BY <1>1
    <2>3. WriteByte(w, b) = [out |-> w.out, prev |-> Append(w.prev, b)]
      BY <2>1 DEF WriterStates
    <2> QED
      BY <1>1, <2>2, <2>3 DEF WriterStates
  <1>4. CASE ~(w.prev = <<0, 0>> /\ b <= 3) /\ ~(Len(w.prev) < 2)
    <2>1. WriteByte(w, b) = [out |-> Append(w.out, Head(w.prev)), prev |-> <<w.prev[2], b>>]
      BY <1>4 DEF WriteByte
    <2>2. Head(w.prev) \in Byte /\ w.prev[2] \in Byte
      BY <1>1, <1>4
    <2>3. Append(w.out, Head(w.prev)) \in Seq(Byte) /\ <<w.prev[2], b>> \in Seq(Byte)
      BY <1>1, <2>2
    <2> QED
      BY <2>1, <2>3 DEF WriterStates
  <1> QED
    BY <1>2, <1>3, <1>4

\* The states of the writer of the H.265 encoder,
LEMMA PushRun ==
  ASSUME NEW s \in Seq(Byte), NEW first \in PusherStates
  PROVE  /\ Along(Push, first, s) \in [0 .. Len(s) -> PusherStates]
         /\ Along(Push, first, s)[0] = first
         /\ \A n \in 1 .. Len(s) :
               Along(Push, first, s)[n] = Push(Along(Push, first, s)[n - 1], s[n])
  <1> DEFINE w == Along(Push, first, s)
             step == [x \in PusherStates \X Byte |-> Push(x[1], x[2])]
             Goes(v) == v = [n \in 0 .. Len(s) |-> IF n = 0 THEN first ELSE Push(v[n - 1], s[n])]
  <1>0. Len(s) \in Nat /\ \A n \in 1 .. Len(s) : s[n] \in Byte
    OBVIOUS
  <1>1. step \in [PusherStates \X Byte -> PusherStates]
    BY PushTyped
  <1>2. \A x \in PusherStates, b \in Byte : step[<<x, b>>] = Push(x, b)
    OBVIOUS
  <1> HIDE DEF step
  <1>3. PICK v \in [0 .. Len(s) -> PusherStates] : Runs(v, step, first, s)
    BY <1>1, RunExists
  <1>4. Goes(v)
    <2>1. \A n \in 0 .. Len(s) : v[n] = IF n = 0 THEN first ELSE Push(v[n - 1], s[n])
      BY <1>0, <1>2, <1>3 DEF Runs
    <2>2. v = [n \in 0 .. Len(s) |-> v[n]]
      BY <1>3
    <2> QED
      BY <2>1, <2>2, Zenon
  <1>5. w = CHOOSE u : Goes(u)
    BY DEF Along
  <1> HIDE DEF w
  <1>6. Goes(w)
    <2> HIDE DEF Goes
    <2> QED
      BY <1>4, <1>5
  <1>7. w[0] = first /\ \A n \in 1 .. Len(s) : w[n] = Push(w[n - 1], s[n])
    BY <1>0, <1>6
  <1>8. w = [n \in 0 .. Len(s) |-> w[n]]
    BY <1>6
  <1>9. w \in [0 .. Len(s) -> PusherStates]
    <2>1. \A n \in 1 .. Len(s) : w[n - 1] \in PusherStates => w[n] = step[<<w[n - 1], s[n]>>]
      BY <1>0, <1>2, <1>7
    <2>2. RunsFrom(w, PusherStates, step, first, s)
      BY <1>7, <1>8, <2>1, Zenon DEF RunsFrom
    <2> QED
      BY <1>1, <2>2, RunTyped
  <1> QED
    BY <1>7, <1>9 DEF w

\* of the other writer,
LEMMA WriteByteRun ==
  ASSUME NEW s \in Seq(Byte), NEW first \in WriterStates
  PROVE  /\ Along(WriteByte, first, s) \in [0 .. Len(s) -> WriterStates]
         /\ Along(WriteByte, first, s)[0] = first
         /\ \A n \in 1 .. Len(s) :
               Along(WriteByte, first, s)[n] = WriteByte(Along(WriteByte, first, s)[n - 1], s[n])
  <1> DEFINE w == Along(WriteByte, first, s)
             step == [x \in WriterStates \X Byte |-> WriteByte(x[1], x[2])]
             Goes(v) == v = [n \in 0 .. Len(s) |-> IF n = 0 THEN first ELSE WriteByte(v[n - 1], s[n])]
  <1>0. Len(s) \in Nat /\ \A n \in 1 .. Len(s) : s[n] \in Byte
    OBVIOUS
  <1>1. step \in [WriterStates \X Byte -> WriterStates]
    BY WriteByteTyped
  <1>2. \A x \in WriterStates, b \in Byte : step[<<x, b>>] = WriteByte(x, b)
    OBVIOUS
  <1> HIDE DEF step
  <1>3. PICK v \in [0 .. Len(s) -> WriterStates] : Runs(v, step, first, s)
    BY <1>1, RunExists
  <1>4. Goes(v)
    <2>1. \A n \in 0 .. Len(s) : v[n] = IF n = 0 THEN first ELSE WriteByte(v[n - 1], s[n])
      BY <1>0, <1>2, <1>3 DEF Runs
    <2>2. v = [n \in 0 .. Len(s) |-> v[n]]
      BY <1>3
    <2> QED
      BY <2>1, <2>2, Zenon
  <1>5. w = CHOOSE u : Goes(u)
    BY DEF Along
  <1> HIDE DEF w
  <1>6. Goes(w)
    <2> HIDE DEF Goes
    <2> QED
      BY <1>4, <1>5
  <1>7. w[0] = first /\ \A n \in 1 .. Len(s) : w[n] = WriteByte(w[n - 1], s[n])
    BY <1>0, <1>6
  <1>8. w = [n \in 0 .. Len(s) |-> w[n]]
    BY <1>6
  <1>9. w \in [0 .. Len(s) -> WriterStates]
    <2>1. \A n \in 1 .. Len(s) : w[n - 1] \in WriterStates => w[n] = step[<<w[n - 1], s[n]>>]
      BY <1>0, <1>2, <1>7
    <2>2. RunsFrom(w, WriterStates, step, first, s)
      BY <1>7, <1>8, <2>1, Zenon DEF RunsFrom
    <2> QED
      BY <1>1, <2>2, RunTyped
  <1> QED
    BY <1>7, <1>9 DEF w

\* and of the reader.
LEMMA ReadByteRun ==
  ASSUME NEW s \in Seq(Byte), NEW first \in ReaderStates
  PROVE  /\ Along(ReadByte, first, s) \in [0 .. Len(s) -> ReaderStates]
         /\ Along(ReadByte, first, s)[0] = first
         /\ \A n \in 1 .. Len(s) :
               Along(ReadByte, first, s)[n] = ReadByte(Along(ReadByte, first, s)[n - 1], s[n])
  <1> DEFINE w == Along(ReadByte, first, s)
             step == [x \in ReaderStates \X Byte |-> ReadByte(x[1], x[2])]
             Goes(v) == v = [n \in 0 .. Len(s) |-> IF n = 0 THEN first ELSE ReadByte(v[n - 1], s[n])]
  <1>0. Len(s) \in Nat /\ \A n \in 1 .. Len(s) : s[n] \in Byte
    OBVIOUS
  <1>1. step \in [ReaderStates \X Byte -> ReaderStates]
    BY ReadByteTyped
  <1>2. \A x \in ReaderStates, b \in Byte : step[<<x, b>>] = ReadByte(x, b)
    OBVIOUS
  <1> HIDE DEF step
  <1>3. PICK v \in [0 .. Len(s) -> ReaderStates] : Runs(v, step, first, s)
    BY <1>1, RunExists
  <1>4. Goes(v)
    <2>1. \A n \in 0 .. Len(s) : v[n] = IF n = 0 THEN first ELSE ReadByte(v[n - 1], s[n])
      BY <1>0, <1>2, <1>3 DEF Runs
    <2>2. v = [n \in 0 .. Len(s) |-> v[n]]
      BY <1>3
    <2> QED
      BY <2>1, <2>2, Zenon
  <1>5. w = CHOOSE u : Goes(u)
    BY DEF Along
  <1> HIDE DEF w
  <1>6. Goes(w)
    <2> HIDE DEF Goes
    <2> QED
      BY <1>4, <1>5
  <1>7. w[0] = first /\ \A n \in 1 .. Len(s) : w[n] = ReadByte(w[n - 1], s[n])
    BY <1>0, <1>6
  <1>8. w = [n \in 0 .. Len(s) |-> w[n]]
    BY <1>6
  <1>9. w \in [0 .. Len(s) -> ReaderStates]
    <2>1. \A n \in 1 .. Len(s) : w[n - 1] \in ReaderStates => w[n] = step[<<w[n - 1], s[n]>>]
      BY <1>0, <1>2, <1>7
    <2>2. RunsFrom(w, ReaderStates, step, first, s)
      BY <1>7, <1>8, <2>1, Zenon DEF RunsFrom
    <2> QED
      BY <1>1, <2>2, RunTyped
  <1> QED
    BY <1>7, <1>9 DEF w

\* The reader at the start, and after the bytes of o.
ReaderStart == [out |-> <<>>, prev |-> <<255, 255>>]

After(o) == Along(ReadByte, ReaderStart, o)[Len(o)]

\* The reader starts as it may be,
LEMMA ReaderStartTyped == ReaderStart \in ReaderStates
  <1>1. 255 \in Byte /\ <<>> \in Seq(Byte)
    BY DEF Byte
  <1> QED
    BY <1>1 DEF ReaderStart, ReaderStates

\* and stays so behind any bytes.
LEMMA AfterTyped ==
  ASSUME NEW o \in Seq(Byte)
  PROVE  After(o) \in ReaderStates
  <1>1. Along(ReadByte, ReaderStart, o) \in [0 .. Len(o) -> ReaderStates]
    BY ReaderStartTyped, ReadByteRun
  <1> QED
    BY <1>1 DEF After

\* No bytes take it nowhere.
LEMMA AfterNothing == After(<<>>) = ReaderStart
  <1>1. <<>> \in Seq(Byte) /\ Len(<<>>) = 0
    OBVIOUS
  <1>2. Along(ReadByte, ReaderStart, <<>>)[0] = ReaderStart
    BY <1>1, ReaderStartTyped, ReadByteRun
  <1> QED
    BY <1>1, <1>2 DEF After

\* One byte more is read from where the others took the reader.
LEMMA AfterAppend ==
  ASSUME NEW o \in Seq(Byte), NEW b \in Byte
  PROVE  After(Append(o, b)) = ReadByte(After(o), b)
  <1> DEFINE p == Append(o, b)
             v == Along(ReadByte, ReaderStart, o)
             w == Along(ReadByte, ReaderStart, p)
             T == {n \in 0 .. Len(o) : w[n] = v[n]}
  <1>1. /\ p \in Seq(Byte) /\ Len(o) \in Nat /\ Len(p) = Len(o) + 1 /\ p[Len(o) + 1] = b
        /\ \A n \in 1 .. Len(o) : p[n] = o[n]
    OBVIOUS
  <1>2. v[0] = ReaderStart /\ \A n \in 1 .. Len(o) : v[n] = ReadByte(v[n - 1], o[n])
    BY ReaderStartTyped, ReadByteRun
  <1>3. w[0] = ReaderStart /\ \A n \in 1 .. Len(p) : w[n] = ReadByte(w[n - 1], p[n])
    BY <1>1, ReaderStartTyped, ReadByteRun
  <1> HIDE DEF p, v, w
  <1>4. 0 \in T
    BY <1>1, <1>2, <1>3
  <1>5. ASSUME NEW n \in 1 .. Len(o), n - 1 \in T PROVE n \in T
    BY <1>1, <1>2, <1>3, <1>5
  <1>6. T = 0 .. Len(o)
    <2>1. T \subseteq 0 .. Len(o)
      OBVIOUS
    <2> HIDE DEF T
    <2> QED
      BY <1>1, <1>4, <1>5, <2>1, Onwards
  <1>7. w[Len(o)] = v[Len(o)]
    BY <1>1, <1>6
  <1>8. w[Len(p)] = ReadByte(w[Len(o)], b)
    BY <1>1, <1>3
  <1> QED
    BY <1>7, <1>8 DEF After, p, v, w

\* What reading a byte does, an escape apart.
LEMMA ReadByteCases ==
  ASSUME NEW r \in ReaderStates, NEW b \in Byte
  PROVE  /\ r.prev = <<0, 0>> /\ b = 3 => ReadByte(r, b) = [out |-> r.out, prev |-> <<255, 255>>]
         /\ ~(r.prev = <<0, 0>> /\ b = 3) =>
                ReadByte(r, b) = [out |-> Append(r.out, b), prev |-> <<r.prev[2], b>>]
  <1>1. [r EXCEPT !.prev = <<255, 255>>] = [out |-> r.out, prev |-> <<255, 255>>]
    BY DEF ReaderStates
  <1> QED
    BY <1>1, Zenon DEF ReadByte

\* An escape and the byte behind it.
LEMMA ReadEscape ==
  ASSUME NEW o \in Seq(Byte), NEW b \in Byte, After(o).prev = <<0, 0>>
  PROVE  After(Append(Append(o, 3), b)) = [out |-> Append(After(o).out, b), prev |-> <<255, b>>]
  <1>1. 3 \in Byte /\ After(o) \in ReaderStates /\ Append(o, 3) \in Seq(Byte)
    BY AfterTyped DEF Byte
  <1>2. After(Append(o, 3)) = [out |-> After(o).out, prev |-> <<255, 255>>]
    BY <1>1, AfterAppend, ReadByteCases
  <1>3. After(Append(Append(o, 3), b)) = ReadByte(After(Append(o, 3)), b)
    BY <1>1, AfterAppend
  <1>4. After(Append(o, 3)) \in ReaderStates
    BY <1>1, AfterTyped
  <1>5. PICK r \in ReaderStates : r = After(Append(o, 3))
    BY <1>4
  <1>6. r.prev # <<0, 0>> /\ r.prev[2] = 255 /\ r.out = After(o).out
    BY <1>2, <1>5
  <1>7. ReadByte(r, b) = [out |-> Append(r.out, b), prev |-> <<r.prev[2], b>>]
    BY <1>6, ReadByteCases, Zenon
  <1> QED
    BY <1>3, <1>5, <1>6, <1>7, Zenon

\* Any other byte is read as it is.
LEMMA ReadPlain ==
  ASSUME NEW o \in Seq(Byte), NEW b \in Byte, ~(After(o).prev = <<0, 0>> /\ b = 3)
  PROVE  After(Append(o, b)) = [out |-> Append(After(o).out, b), prev |-> <<After(o).prev[2], b>>]
  BY AfterTyped, AfterAppend, ReadByteCases

\* The bytes of s up to the n-th, and one more.
LEMMA OneMore ==
  ASSUME NEW s \in Seq(Byte), NEW n \in 1 .. Len(s)
  PROVE  Append(SubSeq(s, 1, n - 1), s[n]) = SubSeq(s, 1, n)
  OBVIOUS

\* The first two of o's last three bytes being zero, the third is above two: so
\* nothing in o looks like a start code, nor like the end of a unit.
Clean(o) ==
    \A i \in 1 .. Len(o) - 2 : ~(o[i] = 0 /\ o[i + 1] = 0 /\ o[i + 2] <= 2)

\* The last bytes of o.
EndsInZero(o) == Len(o) >= 1 /\ o[Len(o)] = 0

EndsInZeros(o) == Len(o) >= 2 /\ o[Len(o) - 1] = 0 /\ o[Len(o)] = 0

\* How a sequence ends once a byte follows, and when it has no start code still.
LEMMA EndsAppend ==
  ASSUME NEW o \in Seq(Byte), NEW b \in Byte
  PROVE  /\ (EndsInZero(Append(o, b)) <=> b = 0)
         /\ (EndsInZeros(Append(o, b)) <=> (b = 0 /\ EndsInZero(o)))
         /\ ((Clean(o) /\ (EndsInZeros(o) => b > 2)) => Clean(Append(o, b)))
  <1>1. /\ Len(o) \in Nat /\ Len(Append(o, b)) = Len(o) + 1 /\ Append(o, b)[Len(o) + 1] = b
        /\ \A n \in 1 .. Len(o) : Append(o, b)[n] = o[n]
    OBVIOUS
  <1> DEFINE p == Append(o, b)
  <1> HIDE DEF p
  <1>2. EndsInZero(p) <=> b = 0
    BY <1>1 DEF EndsInZero, p
  <1>3. EndsInZeros(p) <=> b = 0 /\ EndsInZero(o)
    BY <1>1 DEF EndsInZero, EndsInZeros, p
  <1>4. ASSUME Clean(o), EndsInZeros(o) => b > 2, NEW i \in 1 .. Len(p) - 2,
               p[i] = 0, p[i + 1] = 0, p[i + 2] <= 2
        PROVE  FALSE
    <2>1. CASE i = Len(o) - 1
      <3>1. /\ Len(o) - 1 \in 1 .. Len(o) /\ Len(o) \in 1 .. Len(o) /\ Len(o) >= 2
            /\ i + 1 = Len(o) /\ i + 2 = Len(o) + 1
        BY <1>1, <2>1 DEF p
      <3>2. p[i] = o[Len(o) - 1] /\ p[i + 1] = o[Len(o)] /\ p[i + 2] = b
        BY <1>1, <2>1, <3>1 DEF p
      <3>3. b > 2
        BY <1>4, <3>1, <3>2 DEF EndsInZeros
      <3> QED
        BY <1>4, <3>2, <3>3 DEF Byte
    <2>2. CASE i # Len(o) - 1
      <3>1. i \in 1 .. Len(o) - 2
        BY <1>1, <2>2 DEF p
      <3>2. p[i] = o[i] /\ p[i + 1] = o[i + 1] /\ p[i + 2] = o[i + 2]
        BY <1>1, <3>1 DEF p
      <3> QED
        BY <1>4, <3>1, <3>2 DEF Clean
    <2> QED
      BY <2>1, <2>2
  <1>5. Clean(o) /\ (EndsInZeros(o) => b > 2) => Clean(p)
    BY <1>4, Zenon DEF Clean
  <1> QED
    BY <1>2, <1>3, <1>5 DEF p

\* No bytes have no start code in them,
LEMMA NothingClean == Clean(<<>>) /\ ~EndsInZero(<<>>) /\ ~EndsInZeros(<<>>)
  BY DEF Clean, EndsInZero, EndsInZeros

\* o is a unit's bytes with the first n of s in them: read back they are those,
\* they have nothing in them that looks like a start code, the reader has seen
\* the zeros they end in, and they end as s does.
Carries(o, s, n) ==
    /\ After(o).out = SubSeq(s, 1, n)
    /\ Clean(o)
    /\ (EndsInZero(o) <=> After(o).prev[2] = 0)
    /\ (EndsInZeros(o) => After(o).prev = <<0, 0>>)
    /\ (n > 0 => (Len(o) > 0 /\ o[Len(o)] = s[n]))

\* and carry none of a payload.
LEMMA CarriesNothing ==
  ASSUME NEW s \in Seq(Byte)
  PROVE  Carries(<<>>, s, 0)
  <1>1. After(<<>>).out = <<>> /\ After(<<>>).prev = <<255, 255>>
    BY AfterNothing DEF ReaderStart
  <1>2. SubSeq(s, 1, 0) = <<>>
    OBVIOUS
  <1>3. <<255, 255>>[2] # 0 /\ ~(0 > 0)
    OBVIOUS
  <1> QED
    BY <1>1, <1>2, <1>3, NothingClean DEF Carries

\* The next byte may follow as it is, unless it would look like an escape or
\* make a start code.
LEMMA CarriesPlain ==
  ASSUME NEW s \in Seq(Byte), NEW n \in 1 .. Len(s), NEW o \in Seq(Byte), Carries(o, s, n - 1),
         ~(After(o).prev = <<0, 0>> /\ s[n] <= 3)
  PROVE  /\ Carries(Append(o, s[n]), s, n)
         /\ After(Append(o, s[n])).prev = <<After(o).prev[2], s[n]>>
  <1> DEFINE b == s[n]
             r == After(o)
             x == Append(o, b)
  <1>0. b \in Byte /\ b \in Int /\ b >= 0
    <2>1. Len(s) \in Nat /\ b \in Byte
      OBVIOUS
    <2>2. \A y \in Byte : y \in Int /\ y >= 0
      BY DEF Byte
    <2> HIDE DEF b
    <2> QED
      BY <2>1, <2>2
  <1>1. Append(SubSeq(s, 1, n - 1), b) = SubSeq(s, 1, n)
    BY OneMore
  <1>2. /\ r.out = SubSeq(s, 1, n - 1) /\ Clean(o)
        /\ (EndsInZero(o) <=> r.prev[2] = 0)
        /\ (EndsInZeros(o) => r.prev = <<0, 0>>)
    BY DEF Carries
  <1>3. ~(r.prev = <<0, 0>> /\ b <= 3)
    OBVIOUS
  <1>4. Len(x) > 0 /\ x[Len(x)] = b
    BY <1>0
  <1> HIDE DEF b, r, x
  <1>5. After(x) = [out |-> Append(r.out, b), prev |-> <<r.prev[2], b>>]
    <2>1. ~(r.prev = <<0, 0>> /\ b = 3)
      BY <1>3
    <2> QED
      BY <1>0, <2>1, ReadPlain DEF r, x
  <1>6. After(x).out = SubSeq(s, 1, n) /\ After(x).prev = <<r.prev[2], b>>
    <2>1. Append(r.out, b) = SubSeq(s, 1, n)
      BY <1>1, <1>2
    <2> QED
      BY <1>5, <2>1
  <1>7. EndsInZeros(o) => b > 2
    BY <1>0, <1>2, <1>3
  <1>8. Clean(x) /\ (EndsInZero(x) <=> b = 0) /\ (EndsInZeros(x) <=> (b = 0 /\ EndsInZero(o)))
    BY <1>0, <1>2, <1>7, EndsAppend DEF x
  <1>9. /\ <<r.prev[2], b>>[2] = b
        /\ ((b = 0 /\ EndsInZero(o)) => <<r.prev[2], b>> = <<0, 0>>)
    BY <1>2
  <1>10. Carries(x, s, n)
    BY <1>4, <1>6, <1>8, <1>9 DEF Carries, b
  <1> QED
    BY <1>6, <1>10 DEF b, r, x

\* The n-th byte behind an escape.
Escapes(o, s, n) ==
    /\ Carries(Append(Append(o, 3), s[n]), s, n)
    /\ After(Append(Append(o, 3), s[n])).prev = <<255, s[n]>>

\* Behind an escape, once the reader has seen two zeros, any byte may.
LEMMA CarriesEscaped ==
  ASSUME NEW s \in Seq(Byte), NEW n \in 1 .. Len(s), NEW o \in Seq(Byte), Carries(o, s, n - 1),
         After(o).prev = <<0, 0>>
  PROVE  Escapes(o, s, n)
  <1> DEFINE b == s[n]
             r == After(o)
             p == Append(o, 3)
             x == Append(p, b)
  <1>0. b \in Byte /\ 3 \in Byte /\ p \in Seq(Byte)
    <2>1. Len(s) \in Nat /\ b \in Byte
      OBVIOUS
    <2>2. 3 \in Byte
      BY DEF Byte
    <2> QED
      BY <2>1, <2>2
  <1>1. Append(SubSeq(s, 1, n - 1), b) = SubSeq(s, 1, n)
    BY OneMore
  <1>2. r.out = SubSeq(s, 1, n - 1) /\ Clean(o)
    BY DEF Carries
  <1>3. Len(x) > 0 /\ x[Len(x)] = b
    BY <1>0
  <1> HIDE DEF b, r, p, x
  <1>4. After(x) = [out |-> Append(r.out, b), prev |-> <<255, b>>]
    BY <1>0, ReadEscape DEF r, p, x
  <1>5. After(x).out = SubSeq(s, 1, n) /\ After(x).prev = <<255, b>>
    <2>1. Append(r.out, b) = SubSeq(s, 1, n)
      BY <1>1, <1>2
    <2> QED
      BY <1>4, <2>1
  <1>6. Clean(p) /\ ~EndsInZero(p) /\ ~EndsInZeros(p)
    BY <1>0, <1>2, EndsAppend DEF p
  <1>7. Clean(x) /\ (EndsInZero(x) <=> b = 0) /\ ~EndsInZeros(x)
    BY <1>0, <1>6, EndsAppend DEF x
  <1>8. <<255, b>>[2] = b
    OBVIOUS
  <1>9. Carries(x, s, n)
    BY <1>3, <1>5, <1>7, <1>8 DEF Carries, b
  <1> QED
    BY <1>5, <1>9 DEF Escapes, b, p, x

-----------------------------------------------------------------------------
(* The writer of the H.265 encoder *)

\* It counts the zeros the reader has seen.
PushAgrees(w, s, n) ==
    /\ Carries(w.out, s, n)
    /\ (w.zeros = 2 <=> After(w.out).prev = <<0, 0>>)
    /\ (w.zeros = 0 <=> After(w.out).prev[2] # 0)

\* One byte more keeps the two in agreement.
LEMMA PushStep ==
  ASSUME NEW s \in Seq(Byte), NEW n \in 1 .. Len(s), NEW w \in PusherStates,
         PushAgrees(w, s, n - 1)
  PROVE  PushAgrees(Push(w, s[n]), s, n)
  <1> DEFINE b == s[n]
             o == w.out
             z == w.zeros
             r == After(o)
             x == Push(w, b)
  <1>0. o \in Seq(Byte) /\ z \in {0, 1, 2}
    BY DEF PusherStates
  <1>1. b \in Int
    <2>1. Len(s) \in Nat /\ b \in Byte
      OBVIOUS
    <2>2. \A y \in Byte : y \in Int
      BY DEF Byte
    <2> HIDE DEF b
    <2> QED
      BY <2>1, <2>2
  <1>2. /\ Carries(o, s, n - 1)
        /\ (z = 2 <=> r.prev = <<0, 0>>)
        /\ (z = 0 <=> r.prev[2] # 0)
    BY DEF PushAgrees
  <1>3. /\ x.out = o \o (IF z = 2 /\ b <= 3 THEN <<3>> ELSE <<>>) \o <<b>>
        /\ x.zeros = IF b # 0 THEN 0 ELSE IF z = 2 THEN 1 ELSE z + 1
    BY DEF Push
  <1>6. r.prev = <<0, 0>> =>
            \A y : y = Append(Append(o, 3), b) => (Carries(y, s, n) /\ After(y).prev = <<255, b>>)
    <2>1. ASSUME r.prev = <<0, 0>>
          PROVE  /\ Carries(Append(Append(o, 3), b), s, n)
                 /\ After(Append(Append(o, 3), b)).prev = <<255, b>>
      <3>1. After(o).prev = <<0, 0>> /\ o \in Seq(Byte) /\ Carries(o, s, n - 1)
        BY <1>0, <1>2, <2>1, Zenon
      <3>2. Escapes(o, s, n)
        <4> HIDE DEF o, b
        <4> QED
          BY <3>1, CarriesEscaped
      <3> QED
        BY <3>2, Zenon DEF Escapes
    <2> QED
      BY <2>1, Zenon
  <1> HIDE DEF b, o, z, r, x
  <1>4. CASE z = 2 /\ b <= 3
    <2>1. x.out = Append(Append(o, 3), b) /\ x.zeros = IF b = 0 THEN 1 ELSE 0
      BY <1>0, <1>3, <1>4
    <2>2. Carries(x.out, s, n) /\ After(x.out).prev = <<255, b>>
      BY <1>2, <1>4, <1>6, <2>1
    <2>3. (x.zeros = 2 <=> <<255, b>> = <<0, 0>>) /\ (x.zeros = 0 <=> <<255, b>>[2] # 0)
      BY <2>1
    <2> QED
      BY <2>2, <2>3 DEF PushAgrees, x, b
  <1>5. CASE ~(z = 2 /\ b <= 3)
    <2>1. x.out = Append(o, b) /\ x.zeros = IF b = 0 THEN z + 1 ELSE 0
      <3>1. (IF z = 2 /\ b <= 3 THEN <<3>> ELSE <<>>) = <<>>
        BY <1>5, Zenon
      <3>2. o \o <<>> \o <<b>> = Append(o, b)
        BY <1>0
      <3>3. x.zeros = IF b = 0 THEN z + 1 ELSE 0
        BY <1>1, <1>3, <1>5
      <3> QED
        BY <1>3, <3>1, <3>2, <3>3
    <2>2. ~(r.prev = <<0, 0>> /\ b <= 3)
      BY <1>2, <1>5
    <2>3. Carries(x.out, s, n) /\ After(x.out).prev = <<r.prev[2], b>>
      BY <1>0, <1>2, <2>1, <2>2, CarriesPlain DEF b, r
    <2>4. b = 0 => z \in {0, 1}
      BY <1>0, <1>5
    <2>5. /\ (x.zeros = 2 <=> <<r.prev[2], b>> = <<0, 0>>)
          /\ (x.zeros = 0 <=> <<r.prev[2], b>>[2] # 0)
      BY <1>2, <2>1, <2>4
    <2> QED
      BY <2>3, <2>5 DEF PushAgrees, x, b
  <1> QED
    BY <1>4, <1>5

\* Before the first byte they agree.
LEMMA PushNothing ==
  ASSUME NEW s \in Seq(Byte)
  PROVE  PushAgrees([out |-> <<>>, zeros |-> 0], s, 0)
  <1> DEFINE first == [out |-> <<>>, zeros |-> 0]
  <1>1. first.out = <<>> /\ first.zeros = 0
    OBVIOUS
  <1> HIDE DEF first
  <1>2. After(first.out).prev = <<255, 255>> /\ Carries(first.out, s, 0)
    BY <1>1, AfterNothing, CarriesNothing DEF ReaderStart
  <1>3. <<255, 255>> # <<0, 0>> /\ <<255, 255>>[2] # 0
    OBVIOUS
  <1>4. PushAgrees(first, s, 0)
    BY <1>1, <1>2, <1>3 DEF PushAgrees
  <1> QED
    BY <1>4 DEF first

\* What the H.265 writer writes carries the whole payload.
LEMMA PushAll ==
  ASSUME NEW s \in Seq(Byte)
  PROVE  EscapedH265(s) \in Seq(Byte) /\ Carries(EscapedH265(s), s, Len(s))
  <1> DEFINE first == [out |-> <<>>, zeros |-> 0]
             w == Along(Push, first, s)
             T == {n \in 0 .. Len(s) : PushAgrees(w[n], s, n)}
  <1>0. Len(s) \in Nat /\ first \in PusherStates
    <2>1. <<>> \in Seq(Byte)
      OBVIOUS
    <2> QED
      BY <2>1 DEF PusherStates
  <1>1. /\ w \in [0 .. Len(s) -> PusherStates] /\ w[0] = first
        /\ \A n \in 1 .. Len(s) : w[n] = Push(w[n - 1], s[n])
    BY <1>0, PushRun
  <1>2. PushAgrees(first, s, 0)
    BY PushNothing
  <1> HIDE DEF w, first
  <1>3. 0 \in T
    BY <1>0, <1>1, <1>2
  <1>4. ASSUME NEW n \in 1 .. Len(s), n - 1 \in T PROVE n \in T
    <2>1. w[n - 1] \in PusherStates /\ PushAgrees(w[n - 1], s, n - 1)
      BY <1>0, <1>1, <1>4
    <2> QED
      BY <1>0, <1>1, <2>1, PushStep
  <1>5. T = 0 .. Len(s)
    <2>1. T \subseteq 0 .. Len(s)
      OBVIOUS
    <2> HIDE DEF T
    <2> QED
      BY <1>0, <1>3, <1>4, <2>1, Onwards
  <1>6. PushAgrees(w[Len(s)], s, Len(s)) /\ w[Len(s)] \in PusherStates
    BY <1>0, <1>1, <1>5
  <1>7. EscapedH265(s) = w[Len(s)].out
    BY DEF EscapedH265, w, first
  <1>8. w[Len(s)].out \in Seq(Byte)
    BY <1>6 DEF PusherStates
  <1> QED
    BY <1>6, <1>7, <1>8 DEF PushAgrees

-----------------------------------------------------------------------------
(* EmulationPrevention, of the H.264 encoder *)

ThreeZeros(s, n) == n >= 3 /\ s[n - 2] = 0 /\ s[n - 1] = 0 /\ s[n] = 0

\* What it needs of a payload: the byte after an escape does not count to it.
NoFourZeros(s) == \A n \in 4 .. Len(s) : ~(ThreeZeros(s, n - 1) /\ s[n] = 0)

\* What it wrote, with what it holds back.
Put(w) == w.out \o w.prev

WriteAgrees(w, s, n) ==
    /\ Carries(Put(w), s, n)
    /\ \/ w.prev = <<>> /\ After(Put(w)).prev[1] # 0
          /\ (After(Put(w)).prev[2] = 0 => ThreeZeros(s, n))
       \/ n >= 1 /\ w.prev = <<s[n]>>
          /\ After(Put(w)).prev # <<0, 0>> /\ After(Put(w)).prev[2] = s[n]
       \/ n >= 2 /\ w.prev = <<s[n - 1], s[n]>> /\ After(Put(w)).prev = w.prev

\* Nothing is held back past two bytes, and nothing is lost.
LEMMA WriteByteCases ==
  ASSUME NEW w \in WriterStates, NEW b \in Byte
  PROVE  /\ (w.prev = <<0, 0>> /\ b <= 3) =>
               (Put(WriteByte(w, b)) = Append(Append(Put(w), 3), b) /\ WriteByte(w, b).prev = <<>>)
         /\ Len(w.prev) < 2 =>
               (Put(WriteByte(w, b)) = Append(Put(w), b) /\ WriteByte(w, b).prev = Append(w.prev, b))
         /\ (Len(w.prev) = 2 /\ ~(w.prev = <<0, 0>> /\ b <= 3)) =>
               (Put(WriteByte(w, b)) = Append(Put(w), b) /\ WriteByte(w, b).prev = <<w.prev[2], b>>)
  <1>1. w.out \in Seq(Byte) /\ w.prev \in Seq(Byte) /\ w = [out |-> w.out, prev |-> w.prev]
    BY DEF WriterStates
  <1>2. ASSUME w.prev = <<0, 0>>, b <= 3
        PROVE  Put(WriteByte(w, b)) = Append(Append(Put(w), 3), b) /\ WriteByte(w, b).prev = <<>>
    <2>1. WriteByte(w, b) = [out |-> w.out \o <<0, 0, 3, b>>, prev |-> <<>>]
      BY <1>2 DEF WriteByte
    <2>2. Put(WriteByte(w, b)) = w.out \o <<0, 0, 3, b>> \o <<>>
      BY <2>1 DEF Put
    <2>3. Put(w) = w.out \o <<0, 0>>
      BY <1>2 DEF Put
    <2>4. w.out \o <<0, 0, 3, b>> \o <<>> = Append(Append(w.out \o <<0, 0>>, 3), b)
      BY <1>1
    <2>5. Put(WriteByte(w, b)) = Append(Append(Put(w), 3), b)
      BY <2>2, <2>3, <2>4
    <2>6. WriteByte(w, b).prev = <<>>
      BY <2>1
    <2> QED
      BY <2>5, <2>6, Zenon
  <1>3. ASSUME Len(w.prev) < 2
        PROVE  Put(WriteByte(w, b)) = Append(Put(w), b) /\ WriteByte(w, b).prev = Append(w.prev, b)
    <2>1. w.prev # <<0, 0>>
      <3>1. SUFFICES ASSUME w.prev = <<0, 0>> PROVE FALSE
        OBVIOUS
      <3>2. Len(<<0, 0>>) = 2
        OBVIOUS
      <3>3. Len(w.prev) = 2
        BY <3>1, <3>2, Zenon
      <3> QED
        BY <1>3, <3>3
    <2>2. WriteByte(w, b) = [w EXCEPT !.prev = Append(@, b)]
      BY <1>3, <2>1 DEF WriteByte
    <2>3. WriteByte(w, b).out = w.out /\ WriteByte(w, b).prev = Append(w.prev, b)
      BY <1>1, <2>2
    <2>4. w.out \o Append(w.prev, b) = Append(w.out \o w.prev, b)
      BY <1>1
    <2> QED
      BY <2>3, <2>4 DEF Put
  <1>4. ASSUME Len(w.prev) = 2, ~(w.prev = <<0, 0>> /\ b <= 3)
        PROVE  Put(WriteByte(w, b)) = Append(Put(w), b) /\ WriteByte(w, b).prev = <<w.prev[2], b>>
    <2>1. ~(Len(w.prev) < 2)
      BY <1>4
    <2>2. WriteByte(w, b) = [out |-> Append(w.out, Head(w.prev)), prev |-> <<w.prev[2], b>>]
      BY <1>4, <2>1, Zenon DEF WriteByte
    <2>3. Head(w.prev) = w.prev[1] /\ w.prev = <<w.prev[1], w.prev[2]>>
      BY <1>1, <1>4
    <2>4. w.prev[1] \in Byte /\ w.prev[2] \in Byte
      BY <1>1, <1>4
    <2>5. \A c, d \in Byte : Append(w.out, c) \o <<d, b>> = Append(w.out \o <<c, d>>, b)
      BY <1>1
    <2>6. Append(w.out, w.prev[1]) \o <<w.prev[2], b>> = Append(w.out \o w.prev, b)
      <3> DEFINE c == w.prev[1]
                 d == w.prev[2]
      <3> HIDE DEF c, d
      <3>1. Append(w.out, c) \o <<d, b>> = Append(w.out \o <<c, d>>, b)
        BY <2>4, <2>5 DEF c, d
      <3>2. <<c, d>> = w.prev
        BY <2>3 DEF c, d
      <3> QED
        BY <3>1, <3>2 DEF c, d
    <2>7. WriteByte(w, b).out = Append(w.out, w.prev[1]) /\ WriteByte(w, b).prev = <<w.prev[2], b>>
      BY <2>2, <2>3
    <2> QED
      BY <2>6, <2>7 DEF Put
  <1> QED
    BY <1>2, <1>3, <1>4

\* A sequence of two bytes, made one after the other.
LEMMA TwoBytes ==
  ASSUME NEW c \in Byte, NEW b \in Byte
  PROVE  Append(<<c>>, b) = <<c, b>>
  <1>1. /\ <<c>> \in Seq(Byte) /\ <<c, b>> \in Seq(Byte) /\ Append(<<c>>, b) \in Seq(Byte)
    OBVIOUS
  <1>2. /\ Len(<<c>>) = 1 /\ Len(<<c, b>>) = 2 /\ Len(Append(<<c>>, b)) = 2
    BY <1>1
  <1>3. \A i \in 1 .. 2 : <<c, b>>[i] = Append(<<c>>, b)[i]
    BY <1>1, <1>2
  <1> QED
    BY <1>1, <1>2, <1>3, SeqEqual

\* One byte more keeps them in agreement, unless it is the fourth zero in a row.
LEMMA WriteStep ==
  ASSUME NEW s \in Seq(Byte), NEW n \in 1 .. Len(s), NEW w \in WriterStates,
         NoFourZeros(s), WriteAgrees(w, s, n - 1)
  PROVE  WriteAgrees(WriteByte(w, s[n]), s, n)
  <1> DEFINE b == s[n]
             o == Put(w)
             r == After(o)
             x == WriteByte(w, b)
  <1>0. o \in Seq(Byte) /\ w.prev \in Seq(Byte)
    BY DEF Put, WriterStates
  <1>1. b \in Int /\ b \in Byte
    <2>1. Len(s) \in Nat /\ b \in Byte
      OBVIOUS
    <2>2. \A y \in Byte : y \in Int
      BY DEF Byte
    <2> HIDE DEF b
    <2> QED
      BY <2>1, <2>2
  <1>2. Carries(o, s, n - 1)
    BY DEF WriteAgrees
  <1>3. /\ (w.prev = <<0, 0>> /\ b <= 3) => (Put(x) = Append(Append(o, 3), b) /\ x.prev = <<>>)
        /\ Len(w.prev) < 2 => (Put(x) = Append(o, b) /\ x.prev = Append(w.prev, b))
        /\ (Len(w.prev) = 2 /\ ~(w.prev = <<0, 0>> /\ b <= 3)) =>
               (Put(x) = Append(o, b) /\ x.prev = <<w.prev[2], b>>)
    BY <1>1, WriteByteCases
  <1>4. \/ w.prev = <<>> /\ r.prev[1] # 0 /\ (r.prev[2] = 0 => ThreeZeros(s, n - 1))
        \/ n - 1 >= 1 /\ w.prev = <<s[n - 1]>> /\ r.prev # <<0, 0>> /\ r.prev[2] = s[n - 1]
        \/ n - 1 >= 2 /\ w.prev = <<s[n - 2], s[n - 1]>> /\ r.prev = w.prev
    <2>1. n - 1 - 1 = n - 2
      OBVIOUS
    <2> QED
      BY <2>1 DEF WriteAgrees
  <1>5. \A y : ~(r.prev = <<0, 0>> /\ b <= 3) =>
               (y = Append(o, b) => (Carries(y, s, n) /\ After(y).prev = <<r.prev[2], b>>))
    BY <1>0, <1>2, CarriesPlain
  <1>10. r.prev = <<0, 0>> =>
             \A y : y = Append(Append(o, 3), b) => (Carries(y, s, n) /\ After(y).prev = <<255, b>>)
    <2>1. ASSUME r.prev = <<0, 0>>
          PROVE  /\ Carries(Append(Append(o, 3), b), s, n)
                 /\ After(Append(Append(o, 3), b)).prev = <<255, b>>
      <3>1. After(o).prev = <<0, 0>> /\ o \in Seq(Byte) /\ Carries(o, s, n - 1)
        BY <1>0, <1>2, <2>1, Zenon
      <3>2. Escapes(o, s, n)
        <4> HIDE DEF o, b
        <4> QED
          BY <3>1, CarriesEscaped
      <3> QED
        BY <3>2, Zenon DEF Escapes
    <2> QED
      BY <2>1, Zenon
  <1>6. Len(s) \in Nat
    OBVIOUS
  <1> HIDE DEF b, o, r, x
  <1>7. CASE w.prev = <<>> /\ r.prev[1] # 0 /\ (r.prev[2] = 0 => ThreeZeros(s, n - 1))
    <2>1. Put(x) = Append(o, b) /\ x.prev = <<b>>
      <3>1. Len(w.prev) < 2 /\ Append(<<>>, b) = <<b>>
        BY <1>7
      <3> QED
        BY <1>3, <1>7, <3>1
    <2>2. r.prev # <<0, 0>>
      BY <1>7
    <2>3. Carries(Put(x), s, n) /\ After(Put(x)).prev = <<r.prev[2], b>>
      BY <1>5, <2>1, <2>2
    <2>4. <<r.prev[2], b>> # <<0, 0>>
      <3>1. ASSUME r.prev[2] = 0, b = 0 PROVE FALSE
        <4>1. ThreeZeros(s, n - 1)
          BY <1>7, <3>1
        <4>2. n \in 4 .. Len(s)
          BY <1>6, <4>1 DEF ThreeZeros
        <4> QED
          BY <3>1, <4>1, <4>2 DEF NoFourZeros, b
      <3> QED
        BY <3>1
    <2>5. n >= 1 /\ <<r.prev[2], b>>[2] = b
      OBVIOUS
    <2>6. n >= 1 /\ x.prev = <<s[n]>> /\ After(Put(x)).prev # <<0, 0>> /\ After(Put(x)).prev[2] = s[n]
      BY <2>1, <2>3, <2>4, <2>5 DEF b
    <2> QED
      BY <2>3, <2>6 DEF WriteAgrees, x, b
  <1>8. CASE n - 1 >= 1 /\ w.prev = <<s[n - 1]>> /\ r.prev # <<0, 0>> /\ r.prev[2] = s[n - 1]
    <2>1. Put(x) = Append(o, b) /\ x.prev = <<s[n - 1], b>>
      <3>1. Len(w.prev) < 2 /\ Append(<<s[n - 1]>>, b) = <<s[n - 1], b>>
        <4>1. s[n - 1] \in Byte
          BY <1>6, <1>8
        <4>2. \A c \in Byte : Len(<<c>>) < 2 /\ Append(<<c>>, b) = <<c, b>>
          <5>1. \A c \in Byte : Len(<<c>>) < 2
            OBVIOUS
          <5> QED
            BY <1>1, <5>1, TwoBytes
        <4> QED
          BY <1>8, <4>1, <4>2
      <3> QED
        BY <1>3, <1>8, <3>1
    <2>2. Carries(Put(x), s, n) /\ After(Put(x)).prev = <<r.prev[2], b>>
      BY <1>5, <1>8, <2>1
    <2>3. n >= 2 /\ x.prev = <<s[n - 1], s[n]>> /\ After(Put(x)).prev = x.prev
      BY <1>8, <2>1, <2>2 DEF b
    <2> QED
      BY <2>2, <2>3 DEF WriteAgrees, x, b
  <1>9. CASE n - 1 >= 2 /\ w.prev = <<s[n - 2], s[n - 1]>> /\ r.prev = w.prev
    <2>1. CASE w.prev = <<0, 0>> /\ b <= 3
      <3>1. Put(x) = Append(Append(o, 3), b) /\ x.prev = <<>>
        BY <1>3, <2>1
      <3>2. Carries(Put(x), s, n) /\ After(Put(x)).prev = <<255, b>>
        BY <1>9, <1>10, <2>1, <3>1
      <3>3. s[n - 2] = 0 /\ s[n - 1] = 0
        BY <1>9, <2>1
      <3>4. b = 0 => ThreeZeros(s, n)
        BY <1>9, <3>3 DEF ThreeZeros, b
      <3>5. <<255, b>>[1] # 0 /\ <<255, b>>[2] = b
        OBVIOUS
      <3>6. /\ x.prev = <<>> /\ After(Put(x)).prev[1] # 0
            /\ (After(Put(x)).prev[2] = 0 => ThreeZeros(s, n))
        BY <3>1, <3>2, <3>4, <3>5
      <3> QED
        BY <3>2, <3>6 DEF WriteAgrees, x, b
    <2>2. CASE ~(w.prev = <<0, 0>> /\ b <= 3)
      <3>1. Len(w.prev) = 2 /\ w.prev[2] = s[n - 1]
        BY <1>9
      <3>2. Put(x) = Append(o, b) /\ x.prev = <<s[n - 1], b>>
        BY <1>3, <2>2, <3>1
      <3>3. Carries(Put(x), s, n) /\ After(Put(x)).prev = <<r.prev[2], b>>
        BY <1>5, <1>9, <2>2, <3>2
      <3>4. n >= 2 /\ x.prev = <<s[n - 1], s[n]>> /\ After(Put(x)).prev = x.prev
        BY <1>9, <3>1, <3>2, <3>3 DEF b
      <3> QED
        BY <3>3, <3>4 DEF WriteAgrees, x, b
    <2> QED
      BY <2>1, <2>2
  <1> QED
    BY <1>4, <1>7, <1>8, <1>9

\* Before the first byte they agree.
LEMMA WriteNothing ==
  ASSUME NEW s \in Seq(Byte)
  PROVE  WriteAgrees([out |-> <<>>, prev |-> <<>>], s, 0)
  <1> DEFINE first == [out |-> <<>>, prev |-> <<>>]
  <1>1. first.out = <<>> /\ first.prev = <<>>
    OBVIOUS
  <1> HIDE DEF first
  <1>2. Put(first) = <<>>
    BY <1>1 DEF Put
  <1>3. After(Put(first)).prev = <<255, 255>> /\ Carries(Put(first), s, 0)
    BY <1>2, AfterNothing, CarriesNothing DEF ReaderStart
  <1>4. <<255, 255>>[1] # 0 /\ <<255, 255>>[2] # 0
    OBVIOUS
  <1>5. WriteAgrees(first, s, 0)
    BY <1>1, <1>3, <1>4 DEF WriteAgrees
  <1> QED
    BY <1>5 DEF first

\* What the H.264 writer writes carries the whole payload.
LEMMA WriteAll ==
  ASSUME NEW s \in Seq(Byte), NoFourZeros(s)
  PROVE  Escaped(s) \in Seq(Byte) /\ Carries(Escaped(s), s, Len(s))
  <1> DEFINE first == [out |-> <<>>, prev |-> <<>>]
             w == Along(WriteByte, first, s)
             T == {n \in 0 .. Len(s) : WriteAgrees(w[n], s, n)}
  <1>0. Len(s) \in Nat /\ first \in WriterStates
    <2>1. <<>> \in Seq(Byte)
      OBVIOUS
    <2> QED
      BY <2>1 DEF WriterStates
  <1>1. /\ w \in [0 .. Len(s) -> WriterStates] /\ w[0] = first
        /\ \A n \in 1 .. Len(s) : w[n] = WriteByte(w[n - 1], s[n])
    BY <1>0, WriteByteRun
  <1>2. WriteAgrees(first, s, 0)
    BY WriteNothing
  <1> HIDE DEF w, first
  <1>3. 0 \in T
    BY <1>0, <1>1, <1>2
  <1>4. ASSUME NEW n \in 1 .. Len(s), n - 1 \in T PROVE n \in T
    <2>1. w[n - 1] \in WriterStates /\ WriteAgrees(w[n - 1], s, n - 1)
      BY <1>0, <1>1, <1>4
    <2> QED
      BY <1>0, <1>1, <2>1, WriteStep
  <1>5. T = 0 .. Len(s)
    <2>1. T \subseteq 0 .. Len(s)
      OBVIOUS
    <2> HIDE DEF T
    <2> QED
      BY <1>0, <1>3, <1>4, <2>1, Onwards
  <1>6. WriteAgrees(w[Len(s)], s, Len(s)) /\ w[Len(s)] \in WriterStates
    BY <1>0, <1>1, <1>5
  <1>7. Escaped(s) = Put(w[Len(s)])
    BY DEF Escaped, Put, w, first
  <1>8. Put(w[Len(s)]) \in Seq(Byte)
    BY <1>6 DEF WriterStates, Put
  <1> QED
    BY <1>6, <1>7, <1>8 DEF WriteAgrees

-----------------------------------------------------------------------------
(* Units, and streams of them *)

\* The payloads there are: each ends in its stop bit.
PayloadsOf(codec) ==
    {p \in Seq(Byte) : /\ Len(p) > 0 /\ p[Len(p)] # 0
                       /\ (codec = "H264" => NoFourZeros(p))}

\* A header and what is behind it can be told apart,
LEMMA HeaderPrefix ==
  ASSUME NEW h \in Seq(Byte), NEW e \in Seq(Byte)
  PROVE  /\ SubSeq(h \o e, 1, Len(h)) = h
         /\ SubSeq(h \o e, Len(h) + 1, Len(h \o e)) = e
  OBVIOUS

\* it makes no start code with what follows,
LEMMA CleanBehind ==
  ASSUME NEW h \in Seq(Byte), NEW e \in Seq(Byte), Clean(e),
         \A i \in 1 .. Len(h) : h[i] # 0
  PROVE  Clean(h \o e)
  <1>1. /\ Len(h) \in Nat /\ Len(e) \in Nat /\ Len(h \o e) = Len(h) + Len(e)
        /\ \A i \in 1 .. Len(h) : (h \o e)[i] = h[i]
        /\ \A i \in 1 .. Len(e) : (h \o e)[Len(h) + i] = e[i]
    OBVIOUS
  <1> DEFINE u == h \o e
  <1> HIDE DEF u
  <1>2. ASSUME NEW i \in 1 .. Len(u) - 2, u[i] = 0, u[i + 1] = 0, u[i + 2] <= 2
        PROVE  FALSE
    <2>1. CASE i \in 1 .. Len(h)
      BY <1>1, <1>2, <2>1 DEF u
    <2>2. CASE i \notin 1 .. Len(h)
      <3> DEFINE j == i - Len(h)
      <3>1. /\ j \in 1 .. Len(e) - 2 /\ j + 1 \in 1 .. Len(e) /\ j + 2 \in 1 .. Len(e)
            /\ i = Len(h) + j /\ i + 1 = Len(h) + (j + 1) /\ i + 2 = Len(h) + (j + 2)
        BY <1>1, <2>2 DEF u
      <3> HIDE DEF j
      <3>2. u[i] = e[j] /\ u[i + 1] = e[j + 1] /\ u[i + 2] = e[j + 2]
        BY <1>1, <3>1 DEF u
      <3> QED
        BY <1>2, <3>1, <3>2 DEF Clean
    <2> QED
      BY <2>1, <2>2
  <1>3. Clean(u)
    BY <1>2, Zenon DEF Clean
  <1> QED
    BY <1>3 DEF u

\* and those that are written have one byte or two, none of them zero.
LEMMA Headers ==
  ASSUME NEW codec \in {"H264", "H265"}
  PROVE  /\ HeaderOf(codec) \in Seq(Byte) /\ Len(HeaderOf(codec)) \in {1, 2}
         /\ \A i \in 1 .. Len(HeaderOf(codec)) : HeaderOf(codec)[i] # 0
  <1>1. 103 \in Byte /\ 66 \in Byte /\ 1 \in Byte
    BY DEF Byte
  <1>2. <<103>> \in Seq(Byte) /\ <<66, 1>> \in Seq(Byte)
    BY <1>1
  <1>3. CASE codec = "H264"
    <2>1. HeaderOf(codec) = <<103>>
      BY <1>3 DEF HeaderOf
    <2>2. Len(<<103>>) = 1 /\ <<103>>[1] # 0
      OBVIOUS
    <2> QED
      BY <1>2, <2>1, <2>2
  <1>4. CASE codec = "H265"
    <2>1. HeaderOf(codec) = <<66, 1>>
      BY <1>4 DEF HeaderOf
    <2>2. Len(<<66, 1>>) = 2 /\ <<66, 1>>[1] # 0 /\ <<66, 1>>[2] # 0
      OBVIOUS
    <2> QED
      BY <1>2, <2>1, <2>2
  <1> QED
    BY <1>3, <1>4

\* What the encoder of a codec writes of a payload.
Body(codec, payload) == IF codec = "H264" THEN Escaped(payload) ELSE EscapedH265(payload)

\* What is behind the header carries the payload.
LEMMA Bodies ==
  ASSUME NEW codec \in {"H264", "H265"}, NEW p \in PayloadsOf(codec)
  PROVE  /\ Body(codec, p) \in Seq(Byte) /\ Carries(Body(codec, p), p, Len(p))
         /\ NalUnit(codec, p) = HeaderOf(codec) \o Body(codec, p)
  <1>1. p \in Seq(Byte) /\ (codec = "H264" => NoFourZeros(p))
    BY DEF PayloadsOf
  <1>2. Body(codec, p) \in Seq(Byte) /\ Carries(Body(codec, p), p, Len(p))
    <2>1. CASE codec = "H264"
      BY <1>1, <2>1, WriteAll DEF Body
    <2>2. CASE codec # "H264"
      BY <1>1, <2>2, PushAll DEF Body
    <2> QED
      BY <2>1, <2>2
  <1> QED
    BY <1>2 DEF NalUnit, Body

\* A unit has nothing in it that looks like a start code, and neither begins nor
\* ends in a zero, so the splitting of the stream leaves it as it is,
LEMMA UnitShape ==
  ASSUME NEW codec \in {"H264", "H265"}, NEW p \in PayloadsOf(codec)
  PROVE  /\ NalUnit(codec, p) \in Seq(Byte) /\ Clean(NalUnit(codec, p))
         /\ Len(NalUnit(codec, p)) \in Nat \ {0}
         /\ NalUnit(codec, p)[1] # 0 /\ NalUnit(codec, p)[Len(NalUnit(codec, p))] # 0
  <1> DEFINE h == HeaderOf(codec)
             e == Body(codec, p)
  <1>1. /\ h \in Seq(Byte) /\ Len(h) \in {1, 2} /\ \A i \in 1 .. Len(h) : h[i] # 0
        /\ e \in Seq(Byte) /\ Carries(e, p, Len(p)) /\ NalUnit(codec, p) = h \o e
    BY Headers, Bodies
  <1>2. Len(p) > 0 /\ p[Len(p)] # 0
    BY DEF PayloadsOf
  <1>3. Clean(e) /\ Len(e) > 0 /\ e[Len(e)] # 0
    BY <1>1, <1>2 DEF Carries
  <1> HIDE DEF h, e
  <1>4. /\ Len(e) \in Nat /\ Len(h \o e) = Len(h) + Len(e) /\ h \o e \in Seq(Byte)
        /\ (h \o e)[1] = h[1] /\ (h \o e)[Len(h) + Len(e)] = e[Len(e)]
    BY <1>1, <1>3
  <1>5. Clean(h \o e)
    BY <1>1, <1>3, CleanBehind
  <1>6. h[1] # 0
    BY <1>1
  <1> QED
    BY <1>1, <1>3, <1>4, <1>5, <1>6

\* and what the parser reads of it is the payload.
LEMMA UnitRead ==
  ASSUME NEW codec \in {"H264", "H265"}, NEW p \in PayloadsOf(codec)
  PROVE  /\ SubSeq(NalUnit(codec, p), 1, Len(HeaderOf(codec))) = HeaderOf(codec)
         /\ Read(codec, NalUnit(codec, p)) = p
  <1> DEFINE h == HeaderOf(codec)
             e == Body(codec, p)
  <1>1. /\ h \in Seq(Byte) /\ e \in Seq(Byte) /\ Carries(e, p, Len(p)) /\ NalUnit(codec, p) = h \o e
    BY Headers, Bodies
  <1>2. SubSeq(h \o e, 1, Len(h)) = h /\ SubSeq(h \o e, Len(h) + 1, Len(h \o e)) = e
    BY <1>1, HeaderPrefix
  <1>3. Read(codec, h \o e) = After(e).out
    BY <1>2, Zenon DEF Read, After, ReaderStart
  <1>4. After(e).out = SubSeq(p, 1, Len(p))
    BY <1>1 DEF Carries
  <1>5. SubSeq(p, 1, Len(p)) = p
    <2>1. p \in Seq(Byte)
      BY DEF PayloadsOf
    <2> HIDE DEF PayloadsOf
    <2> QED
      BY <2>1
  <1> QED
    BY <1>1, <1>2, <1>3, <1>4, <1>5

\* Some numbers told off in rising order.
Climbing(pos, N) == \A m, k \in 1 .. N : m < k => pos[m] < pos[k]

\* The first j of rising numbers are j,
LEMMA RisingCount ==
  ASSUME NEW N \in Nat, NEW pos \in [1 .. N -> Nat], Climbing(pos, N), NEW j \in 0 .. N
  PROVE  Cardinality({pos[m] : m \in 1 .. j}) = j
  <1> DEFINE T == {pos[m] : m \in 1 .. j}
             f == [m \in 1 .. j |-> pos[m]]
  <1>1. IsFiniteSet(1 .. j) /\ Cardinality(1 .. j) = j
    BY FS_Interval
  <1>2. f \in Surjection(1 .. j, T)
    BY DEF Surjection
  <1>3. f \in Injection(1 .. j, T)
    <2>1. \A m, k \in 1 .. j : f[m] = f[k] => m = k
      BY DEF Climbing
    <2>2. f \in [1 .. j -> T]
      OBVIOUS
    <2> HIDE DEF f, T
    <2> QED
      BY <2>1, <2>2 DEF Injection, IsInjective
  <1>4. ExistsBijection(1 .. j, T)
    BY <1>2, <1>3 DEF ExistsBijection, Bijection
  <1> HIDE DEF f, T
  <1>5. Cardinality(T) = j
    BY <1>1, <1>4, FS_Bijection
  <1> QED
    BY <1>5 DEF T

\* so the n-th from below is the n-th.
LEMMA NthOfRising ==
  ASSUME NEW N \in Nat, NEW pos \in [1 .. N -> Nat], Climbing(pos, N), NEW n \in 1 .. N
  PROVE  Nth({pos[m] : m \in 1 .. N}, n) = pos[n]
  <1> DEFINE S == {pos[m] : m \in 1 .. N}
  <1>1. ASSUME NEW m \in 1 .. N
        PROVE  Cardinality({k \in S : k < pos[m]}) = m - 1
    <2>1. {k \in S : k < pos[m]} = {pos[i] : i \in 1 .. m - 1}
      <3>1. ASSUME NEW i \in 1 .. N PROVE pos[i] < pos[m] <=> i \in 1 .. m - 1
        <4>1. pos[i] \in Nat /\ pos[m] \in Nat
          OBVIOUS
        <4>2. /\ i < m => pos[i] < pos[m]
              /\ m < i => pos[m] < pos[i]
          BY DEF Climbing
        <4> QED
          BY <4>1, <4>2
      <3>2. \A k \in S : k < pos[m] => k \in {pos[i] : i \in 1 .. m - 1}
        BY <3>1
      <3>3. \A i \in 1 .. m - 1 : pos[i] \in S /\ pos[i] < pos[m]
        <4>1. \A i \in 1 .. m - 1 : i \in 1 .. N
          OBVIOUS
        <4> QED
          BY <3>1, <4>1
      <3> HIDE DEF S
      <3> QED
        BY <3>2, <3>3
    <2>2. m - 1 \in 0 .. N
      OBVIOUS
    <2> QED
      BY <2>1, <2>2, RisingCount
  <1>2. pos[n] \in S
    OBVIOUS
  <1>3. ASSUME NEW i \in S, Cardinality({k \in S : k < i}) = n - 1
        PROVE  i = pos[n]
    <2>1. PICK m \in 1 .. N : i = pos[m]
      OBVIOUS
    <2> HIDE DEF S
    <2>2. m - 1 = n - 1
      BY <1>1, <1>3, <2>1
    <2> QED
      BY <2>1, <2>2
  <1> HIDE DEF S
  <1>4. Nth(S, n) = pos[n]
    BY <1>1, <1>2, <1>3 DEF Nth
  <1> QED
    BY <1>4 DEF S

-----------------------------------------------------------------------------

\* A start code, byte for byte.
LEMMA StartCodeAt ==
  ASSUME NEW x \in Seq(Byte), NEW i \in 1 .. Len(x) - 2
  PROVE  SubSeq(x, i, i + 2) = <<0, 0, 1>> <=> (x[i] = 0 /\ x[i + 1] = 0 /\ x[i + 2] = 1)
  <1> DEFINE y == SubSeq(x, i, i + 2)
  <1>1. /\ y \in Seq(Byte) /\ Len(y) = 3
        /\ y[1] = x[i] /\ y[2] = x[i + 1] /\ y[3] = x[i + 2]
    OBVIOUS
  <1>2. <<0, 0, 1>> \in Seq(Byte) /\ Len(<<0, 0, 1>>) = 3
    BY DEF Byte
  <1>3. <<0, 0, 1>>[1] = 0 /\ <<0, 0, 1>>[2] = 0 /\ <<0, 0, 1>>[3] = 1
    OBVIOUS
  <1> HIDE DEF y
  <1>4. ASSUME y[1] = 0, y[2] = 0, y[3] = 1 PROVE y = <<0, 0, 1>>
    <2>1. \A k \in 1 .. 3 : y[k] = <<0, 0, 1>>[k]
      <3> TAKE k \in 1 .. 3
      <3>1. k = 1 \/ k = 2 \/ k = 3
        OBVIOUS
      <3> QED
        BY <1>3, <1>4, <3>1
    <2> QED
      BY <1>1, <1>2, <2>1, SeqEqual
  <1>5. ASSUME y = <<0, 0, 1>> PROVE y[1] = 0 /\ y[2] = 0 /\ y[3] = 1
    BY <1>3, <1>5, Zenon
  <1> QED
    BY <1>1, <1>4, <1>5 DEF y

\* The bytes of two sequences one behind the other.
LEMMA Behind ==
  ASSUME NEW a \in Seq(Byte), NEW b \in Seq(Byte)
  PROVE  /\ a \o b \in Seq(Byte) /\ Len(a \o b) = Len(a) + Len(b)
         /\ Len(a) \in Nat /\ Len(b) \in Nat
         /\ \A i \in 1 .. Len(a) : (a \o b)[i] = a[i]
         /\ \A i \in 1 .. Len(b) : (a \o b)[Len(a) + i] = b[i]
  OBVIOUS

\* What a stream has in it once one more unit is written.
OneUnit(a, u) == a \o <<0, 0, 0, 1>> \o u

\* The bytes of a stream once one more unit is written.
LEMMA OneUnitBytes ==
  ASSUME NEW a \in Seq(Byte), NEW u \in Seq(Byte)
  PROVE  /\ OneUnit(a, u) \in Seq(Byte) /\ Len(OneUnit(a, u)) = Len(a) + 4 + Len(u)
         /\ \A i \in 1 .. Len(a) : OneUnit(a, u)[i] = a[i]
         /\ OneUnit(a, u)[Len(a) + 1] = 0 /\ OneUnit(a, u)[Len(a) + 2] = 0
         /\ OneUnit(a, u)[Len(a) + 3] = 0 /\ OneUnit(a, u)[Len(a) + 4] = 1
         /\ \A i \in 1 .. Len(u) : OneUnit(a, u)[Len(a) + 4 + i] = u[i]
  <1>1. 0 \in Byte /\ 1 \in Byte
    BY DEF Byte
  <1> DEFINE c == <<0, 0, 0, 1>>
  <1>2. c \in Seq(Byte) /\ Len(c) = 4
    BY <1>1
  <1>3. c[1] = 0 /\ c[2] = 0 /\ c[3] = 0 /\ c[4] = 1
    OBVIOUS
  <1> HIDE DEF c
  <1> DEFINE b == a \o c
  <1>4. /\ b \in Seq(Byte) /\ Len(b) = Len(a) + 4 /\ Len(a) \in Nat /\ Len(u) \in Nat
        /\ \A i \in 1 .. Len(a) : b[i] = a[i]
        /\ \A i \in 1 .. 4 : b[Len(a) + i] = c[i]
    <2>1. /\ a \o c \in Seq(Byte) /\ Len(a \o c) = Len(a) + Len(c) /\ Len(a) \in Nat
          /\ \A i \in 1 .. Len(a) : (a \o c)[i] = a[i]
          /\ \A i \in 1 .. Len(c) : (a \o c)[Len(a) + i] = c[i]
      BY <1>2, Behind, Zenon
    <2>2. Len(u) \in Nat
      OBVIOUS
    <2> QED
      BY <1>2, <2>1, <2>2, Zenon
  <1> HIDE DEF b
  <1>5. /\ b \o u \in Seq(Byte) /\ Len(b \o u) = Len(b) + Len(u)
        /\ \A i \in 1 .. Len(b) : (b \o u)[i] = b[i]
        /\ \A i \in 1 .. Len(u) : (b \o u)[Len(b) + i] = u[i]
    BY <1>4, Behind
  <1>6. OneUnit(a, u) = b \o u
    BY DEF OneUnit, b, c
  <1>7. \A i \in 1 .. 4 : Len(a) + i \in 1 .. Len(b)
    BY <1>4
  <1>8. \A i \in 1 .. 4 : (b \o u)[Len(a) + i] = c[i]
    BY <1>4, <1>5, <1>7
  <1>9. \A i \in 1 .. Len(a) : (b \o u)[i] = a[i]
    <2>1. \A i \in 1 .. Len(a) : i \in 1 .. Len(b)
      BY <1>4
    <2> QED
      BY <1>4, <1>5, <2>1
  <1>10. \A i \in 1 .. Len(u) : (b \o u)[Len(a) + 4 + i] = u[i]
    BY <1>4, <1>5
  <1>11. Len(b \o u) = Len(a) + 4 + Len(u) /\ b \o u \in Seq(Byte)
    BY <1>4, <1>5
  <1> DEFINE x == b \o u
  <1>12. /\ x \in Seq(Byte) /\ Len(x) = Len(a) + 4 + Len(u)
         /\ \A i \in 1 .. Len(a) : x[i] = a[i]
         /\ \A i \in 1 .. 4 : x[Len(a) + i] = c[i]
         /\ \A i \in 1 .. Len(u) : x[Len(a) + 4 + i] = u[i]
    BY <1>8, <1>9, <1>10, <1>11, Zenon
  <1>13. OneUnit(a, u) = x
    BY <1>6
  <1> HIDE DEF x
  <1>14. x[Len(a) + 1] = 0 /\ x[Len(a) + 2] = 0 /\ x[Len(a) + 3] = 0 /\ x[Len(a) + 4] = 1
    BY <1>3, <1>12
  <1> QED
    BY <1>12, <1>13, <1>14, Zenon

\* It has one start code more.
LEMMA OneUnitCodes ==
  ASSUME NEW a \in Seq(Byte), NEW u \in Seq(Byte), Len(a) > 0 => a[Len(a)] # 0,
         Clean(u), Len(u) > 0, u[1] # 0
  PROVE  StartCodes(OneUnit(a, u)) = StartCodes(a) \cup {Len(a) + 2}
  <1> DEFINE x == OneUnit(a, u)
             L == Len(a)
  <1>1. /\ x \in Seq(Byte) /\ Len(x) = L + 4 + Len(u) /\ L \in Nat /\ Len(u) \in Nat
        /\ \A i \in 1 .. L : x[i] = a[i]
        /\ x[L + 1] = 0 /\ x[L + 2] = 0 /\ x[L + 3] = 0 /\ x[L + 4] = 1
        /\ \A i \in 1 .. Len(u) : x[L + 4 + i] = u[i]
    <2>1. Len(a) \in Nat /\ Len(u) \in Nat
      OBVIOUS
    <2> QED
      BY <2>1, OneUnitBytes, Zenon
  <1> HIDE DEF x, L
  <1>2. StartCodes(x) = {i \in 1 .. Len(x) - 2 : x[i] = 0 /\ x[i + 1] = 0 /\ x[i + 2] = 1}
    BY <1>1, StartCodeAt DEF StartCodes
  <1>3. StartCodes(a) = {i \in 1 .. L - 2 : a[i] = 0 /\ a[i + 1] = 0 /\ a[i + 2] = 1}
    BY StartCodeAt DEF StartCodes, L
  <1>4. ASSUME NEW i \in 1 .. L - 2
        PROVE  /\ i \in 1 .. Len(x) - 2
               /\ x[i] = a[i] /\ x[i + 1] = a[i + 1] /\ x[i + 2] = a[i + 2]
    <2>1. i \in 1 .. L /\ i + 1 \in 1 .. L /\ i + 2 \in 1 .. L /\ i \in 1 .. Len(x) - 2
      BY <1>1
    <2> QED
      BY <1>1, <2>1
  <1>5. /\ L + 2 \in 1 .. Len(x) - 2 /\ x[L + 2] = 0 /\ x[L + 2 + 1] = 0 /\ x[L + 2 + 2] = 1
    <2>1. L + 2 + 1 = L + 3 /\ L + 2 + 2 = L + 4
      BY <1>1
    <2> QED
      BY <1>1, <2>1
  <1>6. ASSUME NEW i \in 1 .. Len(x) - 2, i \notin 1 .. L - 2, i # L + 2,
               x[i] = 0, x[i + 1] = 0, x[i + 2] = 1
        PROVE  FALSE
    <2>1. CASE i \in {L - 1, L}
      <3>1. L > 0 /\ L \in 1 .. L
        BY <1>1, <2>1
      <3>2. x[L] # 0
        BY <1>1, <3>1 DEF L
      <3> QED
        BY <1>1, <1>6, <2>1, <3>2
    <2>2. CASE i = L + 1
      <3>1. i + 2 = L + 3
        BY <1>1, <2>2
      <3> QED
        BY <1>1, <1>6, <3>1
    <2>3. CASE i = L + 3
      <3>1. i + 1 = L + 4
        BY <1>1, <2>3
      <3> QED
        BY <1>1, <1>6, <3>1
    <2>4. CASE i = L + 4
      BY <1>1, <1>6, <2>4
    <2>5. CASE i > L + 4
      <3> DEFINE j == i - (L + 4)
      <3>1. /\ j \in 1 .. Len(u) - 2 /\ j + 1 \in 1 .. Len(u) /\ j + 2 \in 1 .. Len(u)
            /\ j \in 1 .. Len(u)
            /\ i = L + 4 + j /\ i + 1 = L + 4 + (j + 1) /\ i + 2 = L + 4 + (j + 2)
        BY <1>1, <2>5
      <3> HIDE DEF j
      <3>2. x[L + 4 + j] = 0 /\ x[L + 4 + (j + 1)] = 0 /\ x[L + 4 + (j + 2)] = 1
        BY <1>6, <3>1, Zenon
      <3>3. u[j] = 0 /\ u[j + 1] = 0 /\ u[j + 2] = 1
        BY <1>1, <3>1, <3>2, Zenon
      <3>4. ~(u[j] = 0 /\ u[j + 1] = 0 /\ u[j + 2] <= 2)
        BY <3>1, Zenon DEF Clean
      <3> QED
        BY <3>3, <3>4
    <2> QED
      BY <1>1, <1>6, <2>1, <2>2, <2>3, <2>4, <2>5
  <1>7. StartCodes(x) \subseteq StartCodes(a) \cup {L + 2}
    <2> SUFFICES ASSUME NEW i \in StartCodes(x), i # L + 2 PROVE i \in StartCodes(a)
      OBVIOUS
    <2>1. i \in 1 .. Len(x) - 2 /\ x[i] = 0 /\ x[i + 1] = 0 /\ x[i + 2] = 1
      BY <1>2
    <2>2. i \in 1 .. L - 2
      BY <1>6, <2>1
    <2> QED
      BY <1>3, <1>4, <2>1, <2>2
  <1>8. StartCodes(a) \cup {L + 2} \subseteq StartCodes(x)
    BY <1>2, <1>3, <1>4, <1>5
  <1> QED
    BY <1>7, <1>8 DEF x, L

\* What is left of bytes without their zeros ends at the last that is none.
LEMMA UntrailedAt ==
  ASSUME NEW b \in Seq(Byte), NEW k \in 1 .. Len(b), b[k] # 0,
         \A i \in k + 1 .. Len(b) : b[i] = 0
  PROVE  Untrailed(b) = SubSeq(b, 1, k)
  <1> DEFINE ends == {i \in DOMAIN b : b[i] # 0}
  <1>1. k \in ends /\ \A i \in ends : k >= i /\ i \in Nat /\ k \in Nat
    <2>1. DOMAIN b = 1 .. Len(b) /\ Len(b) \in Nat
      OBVIOUS
    <2> QED
      BY <2>1
  <1> HIDE DEF ends
  <1>2. Max(ends) = k
    <2>1. \A i \in ends : (\A j \in ends : i >= j) => i = k
      BY <1>1
    <2>2. \A j \in ends : k >= j
      BY <1>1
    <2> QED
      BY <1>1, <2>1, <2>2, Zenon DEF Max
  <1>3. ends # {}
    BY <1>1
  <1> QED
    BY <1>2, <1>3, Zenon DEF Untrailed, ends

\* A unit in a stream, with or without the zero of the start code after it.
LEMMA UnitWithin ==
  ASSUME NEW x \in Seq(Byte), NEW u \in Seq(Byte), Len(u) > 0, u[Len(u)] # 0,
         NEW A \in Nat, NEW end \in Nat, end <= Len(x),
         end \in {A + Len(u), A + Len(u) + 1}, end > A + Len(u) => x[end] = 0,
         \A i \in 1 .. Len(u) : x[A + i] = u[i]
  PROVE  Untrailed(SubSeq(x, A + 1, end)) = u
  <1> DEFINE b == SubSeq(x, A + 1, end)
  <1>1. /\ b \in Seq(Byte) /\ Len(b) = end - A /\ Len(u) \in Nat
        /\ \A i \in 1 .. end - A : b[i] = x[A + i]
    <2>1. Len(u) \in Nat /\ Len(x) \in Nat /\ A + 1 \in 1 .. Len(x)
      OBVIOUS
    <2>2. b \in Seq(Byte) /\ Len(b) = end - A
      BY <2>1
    <2>3. ASSUME NEW i \in 1 .. end - A PROVE b[i] = x[A + i]
      <3>1. A + 1 + i - 1 = A + i
        OBVIOUS
      <3> QED
        BY <2>1, <3>1
    <2> QED
      BY <2>1, <2>2, <2>3
  <1> HIDE DEF b
  <1>2. Len(u) \in 1 .. Len(b) /\ \A i \in 1 .. Len(u) : b[i] = u[i]
    <2>1. \A i \in 1 .. Len(u) : i \in 1 .. end - A
      BY <1>1
    <2> QED
      BY <1>1, <2>1
  <1>3. ASSUME NEW i \in Len(u) + 1 .. Len(b) PROVE b[i] = 0
    <2>1. i = end - A /\ A + i = end /\ end > A + Len(u) /\ i \in 1 .. end - A
      BY <1>1
    <2> QED
      BY <1>1, <2>1
  <1>4. b[Len(u)] # 0
    BY <1>2
  <1>5. Untrailed(b) = SubSeq(b, 1, Len(u))
    BY <1>1, <1>2, <1>3, <1>4, UntrailedAt
  <1>6. SubSeq(b, 1, Len(u)) = u
    <2> DEFINE c == SubSeq(b, 1, Len(u))
    <2>1. c \in Seq(Byte) /\ Len(c) = Len(u) /\ \A i \in 1 .. Len(u) : c[i] = b[i]
      BY <1>1, <1>2
    <2> HIDE DEF c
    <2>2. c = u
      BY <1>2, <2>1, SeqEqual
    <2> QED
      BY <2>2 DEF c
  <1> QED
    BY <1>5, <1>6 DEF b

-----------------------------------------------------------------------------
\* The stream after each unit.
Streams(codec, units) ==
    Along(LAMBDA stream, payload : stream \o <<0, 0, 0, 1>> \o NalUnit(codec, payload), <<>>, units)

\* Each is the one before it with a unit more.
LEMMA StreamRun ==
  ASSUME NEW codec \in {"H264", "H265"}, NEW units \in Seq(PayloadsOf(codec))
  PROVE  /\ Streams(codec, units) \in [0 .. Len(units) -> Seq(Byte)]
         /\ Streams(codec, units)[0] = <<>>
         /\ \A n \in 1 .. Len(units) :
               Streams(codec, units)[n] = OneUnit(Streams(codec, units)[n - 1], NalUnit(codec, units[n]))
  <1> DEFINE B == PayloadsOf(codec)
             S == Seq(Byte)
             w == Streams(codec, units)
             step == [x \in S \X B |-> OneUnit(x[1], NalUnit(codec, x[2]))]
             Goes(v) == v = [n \in 0 .. Len(units) |->
                                IF n = 0 THEN <<>> ELSE OneUnit(v[n - 1], NalUnit(codec, units[n]))]
  <1>0. Len(units) \in Nat /\ \A n \in 1 .. Len(units) : units[n] \in B /\ n - 1 \in 0 .. Len(units)
    OBVIOUS
  <1> HIDE DEF B
  <1>1. step \in [S \X B -> S] /\ <<>> \in S
    <2>1. \A a \in S, p \in B : OneUnit(a, NalUnit(codec, p)) \in S
      BY UnitShape, OneUnitBytes DEF B
    <2>2. <<>> \in S
      OBVIOUS
    <2> HIDE DEF S
    <2> QED
      BY <2>1, <2>2
  <1>2. \A a \in S, p \in B : step[<<a, p>>] = OneUnit(a, NalUnit(codec, p))
    <2> HIDE DEF S
    <2> QED
      OBVIOUS
  <1> HIDE DEF step, S
  <1>3. PICK v \in [0 .. Len(units) -> S] : Runs(v, step, <<>>, units)
    <2>1. units \in Seq(B)
      BY DEF B
    <2> QED
      BY <1>1, <2>1, RunExists
  <1>4. Goes(v)
    <2>1. \A n \in 0 .. Len(units) :
             v[n] = IF n = 0 THEN <<>> ELSE OneUnit(v[n - 1], NalUnit(codec, units[n]))
      BY <1>0, <1>2, <1>3 DEF Runs
    <2>2. v = [n \in 0 .. Len(units) |-> v[n]]
      BY <1>3
    <2> QED
      BY <2>1, <2>2, Zenon
  <1>5. w = CHOOSE f : Goes(f)
    BY Zenon DEF Streams, Along, OneUnit
  <1>6. Goes(w)
    BY <1>4, <1>5, Zenon
  <1>7. w[0] = <<>>
    BY <1>0, <1>6
  <1>8. \A n \in 1 .. Len(units) : w[n] = OneUnit(w[n - 1], NalUnit(codec, units[n]))
    BY <1>6
  <1> HIDE DEF w
  <1>9. w \in [0 .. Len(units) -> S]
    <2>1. \A n \in 1 .. Len(units) :
             w[n - 1] \in S => w[n] = step[<<w[n - 1], units[n]>>]
      BY <1>0, <1>2, <1>8
    <2>2. w = [n \in 0 .. Len(units) |-> w[n]]
      BY <1>6, Zenon
    <2>3. RunsFrom(w, S, step, <<>>, units)
      BY <1>7, <2>1, <2>2, Zenon DEF RunsFrom
    <2>4. units \in Seq(B)
      BY DEF B
    <2> QED
      BY <1>1, <2>3, <2>4, RunTyped
  <1> QED
    BY <1>7, <1>8, <1>9 DEF w, S

\* The stream after the n-th unit: it has their start codes, and no other, and
\* begins with what it was after each unit before.
StreamHas(w, n) ==
    /\ Len(w[n]) > 0 => w[n][Len(w[n])] # 0
    /\ StartCodes(w[n]) = {Len(w[m - 1]) + 2 : m \in 1 .. n}
    /\ \A m \in 0 .. n : /\ Len(w[m]) <= Len(w[n])
                         /\ \A i \in 1 .. Len(w[m]) : w[n][i] = w[m][i]

\* A unit more has its start code where it is written, and no others.
LEMMA StreamStep ==
  ASSUME NEW codec \in {"H264", "H265"}, NEW p \in PayloadsOf(codec),
         NEW N \in Nat, NEW w \in [0 .. N -> Seq(Byte)], NEW n \in 1 .. N,
         w[n] = OneUnit(w[n - 1], NalUnit(codec, p)), StreamHas(w, n - 1)
  PROVE  StreamHas(w, n)
  <1> DEFINE a == w[n - 1]
             u == NalUnit(codec, p)
             x == w[n]
  <1>0. /\ n - 1 \in 0 .. N /\ n \in 0 .. N /\ n - 1 \in Nat /\ n \in Nat
        /\ a \in Seq(Byte) /\ x \in Seq(Byte) /\ x = OneUnit(a, u)
    OBVIOUS
  <1>1. /\ u \in Seq(Byte) /\ Clean(u) /\ Len(u) \in Nat /\ Len(u) > 0 /\ u[1] # 0 /\ u[Len(u)] # 0
    BY UnitShape
  <1>2. /\ Len(a) > 0 => a[Len(a)] # 0
        /\ StartCodes(a) = {Len(w[m - 1]) + 2 : m \in 1 .. n - 1}
        /\ \A m \in 0 .. n - 1 : /\ Len(w[m]) <= Len(a)
                                 /\ \A i \in 1 .. Len(w[m]) : a[i] = w[m][i]
    BY DEF StreamHas
  <1>3. \A m \in 0 .. N : w[m] \in Seq(Byte) /\ Len(w[m]) \in Nat
    <2>1. \A m \in 0 .. N : w[m] \in Seq(Byte)
      OBVIOUS
    <2> QED
      BY <2>1
  <1>4. Len(a) \in Nat /\ Len(x) \in Nat
    BY <1>0
  <1>h. a = w[n - 1] /\ x = w[n]
    OBVIOUS
  <1> HIDE DEF a, u, x
  <1>5. /\ Len(x) = Len(a) + 4 + Len(u)
        /\ \A i \in 1 .. Len(a) : x[i] = a[i]
        /\ \A i \in 1 .. Len(u) : x[Len(a) + 4 + i] = u[i]
    <2>1. /\ Len(OneUnit(a, u)) = Len(a) + 4 + Len(u)
          /\ \A i \in 1 .. Len(a) : OneUnit(a, u)[i] = a[i]
          /\ \A i \in 1 .. Len(u) : OneUnit(a, u)[Len(a) + 4 + i] = u[i]
      BY <1>0, <1>1, OneUnitBytes, Zenon
    <2> QED
      BY <1>0, <2>1, Zenon
  <1>6. x[Len(x)] # 0
    <2>1. Len(u) \in 1 .. Len(u)
      BY <1>1
    <2> QED
      BY <1>1, <1>5, <2>1
  <1>7. StartCodes(x) = {Len(w[m - 1]) + 2 : m \in 1 .. n}
    <2>1. StartCodes(x) = StartCodes(a) \cup {Len(a) + 2}
      BY <1>0, <1>1, <1>2, OneUnitCodes
    <2>2. 1 .. n = (1 .. n - 1) \cup {n}
      BY <1>0
    <2>3. {Len(w[m - 1]) + 2 : m \in 1 .. n} = {Len(w[m - 1]) + 2 : m \in 1 .. n - 1} \cup {Len(a) + 2}
      BY <1>h, <2>2
    <2> QED
      BY <1>2, <2>1, <2>3
  <1>8. ASSUME NEW m \in 0 .. n
        PROVE  Len(w[m]) <= Len(x) /\ \A i \in 1 .. Len(w[m]) : x[i] = w[m][i]
    <2>1. CASE m = n
      BY <1>4, <1>h, <2>1
    <2>2. CASE m # n
      <3>1. m \in 0 .. n - 1 /\ m \in 0 .. N
        BY <1>0, <2>2
      <3>2. Len(w[m]) <= Len(a) /\ \A i \in 1 .. Len(w[m]) : a[i] = w[m][i]
        BY <1>2, <3>1
      <3>3. \A i \in 1 .. Len(w[m]) : i \in 1 .. Len(a)
        BY <1>3, <1>4, <3>1, <3>2
      <3>4. Len(w[m]) <= Len(x)
        BY <1>1, <1>3, <1>4, <1>5, <3>1, <3>2
      <3> QED
        BY <1>5, <3>2, <3>3, <3>4
    <2> QED
      BY <2>1, <2>2
  <1> QED
    BY <1>6, <1>7, <1>8, <1>h DEF StreamHas

\* So the start codes of a stream are those that were written.
LEMMA StreamAll ==
  ASSUME NEW codec \in {"H264", "H265"}, NEW units \in Seq(PayloadsOf(codec)),
         NEW n \in 0 .. Len(units)
  PROVE  StreamHas(Streams(codec, units), n)
  <1> DEFINE w == Streams(codec, units)
             N == Len(units)
             T == {k \in 0 .. N : StreamHas(w, k)}
  <1>0. N \in Nat /\ \A k \in 1 .. N : units[k] \in PayloadsOf(codec)
    <2> DEFINE B == PayloadsOf(codec)
    <2> HIDE DEF B
    <2>1. units \in Seq(B)
      BY DEF B
    <2>2. N \in Nat /\ \A k \in 1 .. N : units[k] \in B
      BY <2>1
    <2> QED
      BY <2>2 DEF B
  <1>1. /\ w \in [0 .. N -> Seq(Byte)] /\ w[0] = <<>>
        /\ \A k \in 1 .. N : w[k] = OneUnit(w[k - 1], NalUnit(codec, units[k]))
    BY StreamRun
  <1> HIDE DEF w, N
  <1>2. StreamHas(w, 0)
    <2>1. Len(w[0]) = 0 /\ ~(Len(w[0]) > 0)
      BY <1>1
    <2>2. StartCodes(w[0]) = {}
      <3>1. 1 .. Len(w[0]) - 2 = {}
        BY <2>1
      <3> QED
        BY <3>1 DEF StartCodes
    <2>3. 1 .. 0 = {} /\ 0 .. 0 = {0} /\ Len(w[0]) <= Len(w[0])
      BY <2>1
    <2>4. {Len(w[m - 1]) + 2 : m \in 1 .. 0} = {}
      BY <2>3
    <2>5. ASSUME NEW m \in 0 .. 0
          PROVE  Len(w[m]) <= Len(w[0]) /\ \A i \in 1 .. Len(w[m]) : w[0][i] = w[m][i]
      <3>1. m = 0
        OBVIOUS
      <3> QED
        BY <2>3, <3>1
    <2> QED
      BY <2>1, <2>2, <2>4, <2>5 DEF StreamHas
  <1>3. 0 \in T
    BY <1>0, <1>2
  <1>4. ASSUME NEW k \in 1 .. N, k - 1 \in T PROVE k \in T
    <2>1. StreamHas(w, k - 1)
      BY <1>4
    <2>2. w[k] = OneUnit(w[k - 1], NalUnit(codec, units[k])) /\ units[k] \in PayloadsOf(codec)
      BY <1>0, <1>1
    <2>3. StreamHas(w, k)
      BY <1>0, <1>1, <2>1, <2>2, StreamStep
    <2> QED
      BY <1>0, <2>3
  <1>5. T = 0 .. N
    <2>1. T \subseteq 0 .. N
      OBVIOUS
    <2> HIDE DEF T
    <2> QED
      BY <1>0, <1>3, <1>4, <2>1, Onwards
  <1>6. StreamHas(w, n)
    <2>1. n \in T
      BY <1>5 DEF N
    <2> QED
      BY <2>1
  <1> QED
    BY <1>6 DEF w

-----------------------------------------------------------------------------

\* Where a unit lies in the stream.
LEMMA StreamLengths ==
  ASSUME NEW codec \in {"H264", "H265"}, NEW units \in Seq(PayloadsOf(codec)),
         NEW n \in 1 .. Len(units)
  PROVE  LET w == Streams(codec, units)
             u == NalUnit(codec, units[n])
         IN  /\ w[n - 1] \in Seq(Byte) /\ Len(w[n - 1]) \in Nat
             /\ w[n] \in Seq(Byte) /\ Len(w[n]) \in Nat
             /\ u \in Seq(Byte) /\ Len(u) \in Nat /\ Len(u) > 0 /\ u[Len(u)] # 0
             /\ Len(w[n]) = Len(w[n - 1]) + 4 + Len(u)
             /\ w[n][Len(w[n - 1]) + 1] = 0
             /\ \A i \in 1 .. Len(u) : w[n][Len(w[n - 1]) + 4 + i] = u[i]
  <1> DEFINE w == Streams(codec, units)
             u == NalUnit(codec, units[n])
             B == PayloadsOf(codec)
  <1>1. Len(units) \in Nat /\ units[n] \in B /\ n - 1 \in 0 .. Len(units) /\ n \in 0 .. Len(units)
    <2> HIDE DEF B
    <2>1. units \in Seq(B)
      BY DEF B
    <2> QED
      BY <2>1
  <1>2. /\ w \in [0 .. Len(units) -> Seq(Byte)] /\ w[n] = OneUnit(w[n - 1], u)
    BY StreamRun
  <1>3. u \in Seq(Byte) /\ Len(u) \in Nat /\ Len(u) > 0 /\ u[Len(u)] # 0
    BY <1>1, UnitShape
  <1> HIDE DEF w, u
  <1>4. w[n - 1] \in Seq(Byte) /\ w[n] \in Seq(Byte)
    BY <1>1, <1>2
  <1>5. Len(w[n - 1]) \in Nat /\ Len(w[n]) \in Nat
    BY <1>4
  <1>6. /\ Len(w[n]) = Len(w[n - 1]) + 4 + Len(u)
        /\ w[n][Len(w[n - 1]) + 1] = 0
        /\ \A i \in 1 .. Len(u) : w[n][Len(w[n - 1]) + 4 + i] = u[i]
    <2> DEFINE a == w[n - 1]
    <2>1. a \in Seq(Byte) /\ u \in Seq(Byte) /\ w[n] = OneUnit(a, u)
      BY <1>2, <1>3, <1>4
    <2> HIDE DEF a
    <2>2. /\ Len(OneUnit(a, u)) = Len(a) + 4 + Len(u)
          /\ OneUnit(a, u)[Len(a) + 1] = 0
          /\ \A i \in 1 .. Len(u) : OneUnit(a, u)[Len(a) + 4 + i] = u[i]
      BY <2>1, OneUnitBytes, Zenon
    <2>3. /\ Len(w[n]) = Len(a) + 4 + Len(u)
          /\ w[n][Len(a) + 1] = 0
          /\ \A i \in 1 .. Len(u) : w[n][Len(a) + 4 + i] = u[i]
      BY <2>1, <2>2, Zenon
    <2> QED
      BY <2>3 DEF a
  <1> QED
    BY <1>3, <1>4, <1>5, <1>6, Zenon DEF w, u

\* A stream of NAL units comes apart into those that were written, however many
\* and however long: find_start_code finds the start codes the encoder wrote and
\* no others, and what Nalu::next cuts off the end of a unit is the zero of the
\* next start code.
THEOREM StreamsComeApart ==
  ASSUME NEW codec \in {"H264", "H265"}, NEW units \in Seq(PayloadsOf(codec))
  PROVE  Units(Written(codec, units)) = [n \in 1 .. Len(units) |-> NalUnit(codec, units[n])]
  <1> DEFINE w == Streams(codec, units)
             N == Len(units)
             x == w[N]
             u(n) == NalUnit(codec, units[n])
             pos == [m \in 1 .. N |-> Len(w[m - 1]) + 2]
             codes == StartCodes(x)
  <1>0. N \in Nat
    <2> DEFINE B == PayloadsOf(codec)
    <2> HIDE DEF B
    <2>1. units \in Seq(B)
      BY DEF B
    <2> QED
      BY <2>1
  <1>1. Written(codec, units) = x
    BY DEF Written, Streams
  <1>2. \A n \in 0 .. N : StreamHas(w, n)
    BY StreamAll
  <1>3. \A n \in 1 .. N :
            /\ w[n - 1] \in Seq(Byte) /\ Len(w[n - 1]) \in Nat
            /\ w[n] \in Seq(Byte) /\ Len(w[n]) \in Nat
            /\ u(n) \in Seq(Byte) /\ Len(u(n)) \in Nat /\ Len(u(n)) > 0 /\ u(n)[Len(u(n))] # 0
            /\ Len(w[n]) = Len(w[n - 1]) + 4 + Len(u(n))
            /\ w[n][Len(w[n - 1]) + 1] = 0
            /\ \A i \in 1 .. Len(u(n)) : w[n][Len(w[n - 1]) + 4 + i] = u(n)[i]
    BY StreamLengths
  <1>4. x \in Seq(Byte) /\ Len(x) \in Nat
    <2>1. w \in [0 .. N -> Seq(Byte)] /\ N \in 0 .. N
      BY <1>0, StreamRun
    <2> HIDE DEF w, N
    <2>2. x \in Seq(Byte)
      BY <2>1
    <2> QED
      BY <2>2
  <1> HIDE DEF w, N, u
  <1>5. \A n, k \in 0 .. N : n <= k => /\ Len(w[n]) <= Len(w[k])
                                       /\ \A i \in 1 .. Len(w[n]) : w[k][i] = w[n][i]
    BY <1>0, <1>2 DEF StreamHas
  <1>6. pos \in [1 .. N -> Nat] /\ Climbing(pos, N)
    <2>1. ASSUME NEW m \in 1 .. N, NEW k \in 1 .. N, m < k PROVE pos[m] < pos[k]
      <3>1. m \in 0 .. N /\ k - 1 \in 0 .. N /\ m <= k - 1
        BY <1>0, <2>1
      <3>2. Len(w[m]) <= Len(w[k - 1])
        BY <1>5, <3>1
      <3>3. /\ Len(w[m - 1]) \in Nat /\ Len(w[m]) \in Nat /\ Len(u(m)) \in Nat
            /\ Len(w[m]) = Len(w[m - 1]) + 4 + Len(u(m))
        BY <1>3
      <3>4. Len(w[k - 1]) \in Nat
        BY <1>3
      <3>5. pos[m] = Len(w[m - 1]) + 2 /\ pos[k] = Len(w[k - 1]) + 2
        OBVIOUS
      <3> HIDE DEF pos
      <3> QED
        BY <3>2, <3>3, <3>4, <3>5
    <2>2. pos \in [1 .. N -> Nat]
      BY <1>3
    <2> QED
      BY <2>1, <2>2, Zenon DEF Climbing
  <1>7. codes = {pos[m] : m \in 1 .. N}
    <2>1. StreamHas(w, N)
      BY <1>0, <1>2
    <2> QED
      BY <2>1 DEF StreamHas
  <1>8. Cardinality(codes) = N /\ \A n \in 1 .. N : Nth(codes, n) = pos[n]
    <2>1. N \in 0 .. N
      BY <1>0
    <2> HIDE DEF codes, pos
    <2> QED
      BY <1>0, <1>6, <1>7, <2>1, RisingCount, NthOfRising
  <1> DEFINE end(n) == IF n = N THEN Len(x) ELSE pos[n + 1] - 1
             unit(n) == Untrailed(SubSeq(x, pos[n] + 3, end(n)))
  <1>9. ASSUME NEW n \in 1 .. N PROVE unit(n) = u(n)
    <2> DEFINE A == Len(w[n - 1]) + 4
               e == end(n)
               v == u(n)
    <2>1. /\ v \in Seq(Byte) /\ Len(v) \in Nat /\ Len(v) > 0 /\ v[Len(v)] # 0
          /\ Len(w[n]) = A + Len(v) /\ A \in Nat /\ Len(w[n]) \in Nat
          /\ \A i \in 1 .. Len(v) : w[n][A + i] = v[i]
      <3>1. /\ Len(w[n - 1]) \in Nat /\ Len(w[n]) \in Nat
            /\ v \in Seq(Byte) /\ Len(v) \in Nat /\ Len(v) > 0 /\ v[Len(v)] # 0
            /\ Len(w[n]) = Len(w[n - 1]) + 4 + Len(v)
            /\ \A i \in 1 .. Len(v) : w[n][Len(w[n - 1]) + 4 + i] = v[i]
        BY <1>3, Zenon
      <3> HIDE DEF v
      <3>2. A \in Nat
        BY <3>1
      <3> QED
        BY <3>1, <3>2, Zenon
    <2>2. Len(w[n]) <= Len(x) /\ \A i \in 1 .. Len(w[n]) : x[i] = w[n][i]
      <3>1. n \in 0 .. N /\ N \in 0 .. N /\ n <= N
        BY <1>0
      <3> QED
        BY <1>5, <3>1
    <2>3. pos[n] + 3 = A + 1
      BY <1>3
    <2>4. n # N => /\ e = Len(w[n]) + 1 /\ e <= Len(x) /\ x[e] = 0
      <3> SUFFICES ASSUME n # N PROVE e = Len(w[n]) + 1 /\ e <= Len(x) /\ x[e] = 0
        OBVIOUS
      <3>1. n + 1 \in 1 .. N /\ n + 1 \in 0 .. N /\ N \in 0 .. N /\ n + 1 <= N /\ n + 1 - 1 = n
        BY <1>0
      <3>2. e = Len(w[n]) + 1
        <4>1. pos[n + 1] = Len(w[n + 1 - 1]) + 2
          BY <3>1
        <4>2. pos[n + 1] = Len(w[n]) + 2
          BY <3>1, <4>1
        <4>3. e = pos[n + 1] - 1
          OBVIOUS
        <4> HIDE DEF pos, e
        <4> QED
          BY <2>1, <4>2, <4>3
      <3>3. w[n + 1][Len(w[n]) + 1] = 0 /\ Len(w[n + 1]) \in Nat /\ Len(w[n]) + 1 <= Len(w[n + 1])
        <4> HIDE DEF x, pos, codes, A, e, v
        <4>1. PICK k \in 1 .. N : k = n + 1
          BY <3>1
        <4>2. k - 1 = n
          BY <4>1
        <4>3. /\ w[k][Len(w[k - 1]) + 1] = 0 /\ Len(w[k]) \in Nat /\ Len(w[k - 1]) \in Nat
              /\ Len(w[k]) = Len(w[k - 1]) + 4 + Len(u(k)) /\ Len(u(k)) \in Nat
          BY <1>3, Zenon
        <4>4. /\ w[k][Len(w[n]) + 1] = 0 /\ Len(w[k]) \in Nat /\ Len(w[n]) \in Nat
              /\ Len(w[k]) = Len(w[n]) + 4 + Len(u(k)) /\ Len(u(k)) \in Nat
          BY <4>2, <4>3, Zenon
        <4>5. Len(w[n]) + 1 <= Len(w[k])
          BY <4>4
        <4> QED
          BY <4>1, <4>4, <4>5, Zenon
      <3>4. Len(w[n + 1]) <= Len(x) /\ \A i \in 1 .. Len(w[n + 1]) : x[i] = w[n + 1][i]
        BY <1>5, <3>1
      <3>5. Len(w[n]) + 1 \in 1 .. Len(w[n + 1])
        BY <2>1, <3>3
      <3> HIDE DEF e, x
      <3>6. x[Len(w[n]) + 1] = 0
        BY <3>3, <3>4, <3>5
      <3>7. Len(w[n]) + 1 <= Len(x)
        BY <1>4, <2>1, <3>3, <3>4
      <3> QED
        BY <3>2, <3>6, <3>7
    <2>5. n = N => e = Len(w[n]) /\ e = Len(x)
      OBVIOUS
    <2> HIDE DEF A, e, v, x
    <2>6. \A i \in 1 .. Len(v) : x[A + i] = v[i]
      <3>1. \A i \in 1 .. Len(v) : A + i \in 1 .. Len(w[n])
        BY <2>1
      <3> QED
        BY <2>1, <2>2, <3>1
    <2>7. /\ e \in Nat /\ e <= Len(x) /\ e \in {A + Len(v), A + Len(v) + 1}
          /\ (e > A + Len(v) => x[e] = 0)
      BY <1>4, <2>1, <2>2, <2>4, <2>5
    <2>8. Untrailed(SubSeq(x, A + 1, e)) = v
      BY <1>4, <2>1, <2>6, <2>7, UnitWithin
    <2> QED
      BY <2>3, <2>8 DEF e, v
  <1>10. Units(x) = [n \in 1 .. N |-> unit(n)]
    <2>1. \A n \in 1 .. N : n # N => n + 1 \in 1 .. N
      BY <1>0
    <2>2. Units(x) = [n \in 1 .. N |-> Untrailed(SubSeq(x, Nth(codes, n) + 3,
                                   IF n = N THEN Len(x) ELSE Nth(codes, n + 1) - 1))]
      BY <1>8, Zenon DEF Units
    <2>3. \A n \in 1 .. N : (IF n = N THEN Len(x) ELSE Nth(codes, n + 1) - 1) = end(n)
      BY <1>8, <2>1
    <2> HIDE DEF end, codes, x, pos
    <2>4. \A n \in 1 .. N :
             Untrailed(SubSeq(x, Nth(codes, n) + 3, IF n = N THEN Len(x) ELSE Nth(codes, n + 1) - 1))
                = Untrailed(SubSeq(x, pos[n] + 3, end(n)))
      BY <1>8, <2>3, Zenon
    <2> QED
      BY <2>2, <2>4, Zenon
  <1>11. Units(x) = [n \in 1 .. N |-> u(n)]
    <2> HIDE DEF unit, x
    <2> QED
      BY <1>9, <1>10, Zenon
  <1> QED
    BY <1>1, <1>11 DEF u, N

\* Each unit that is found has the header that was written, and BitReader reads
\* the payload behind it byte for byte as EmulationPrevention, or nal() of the
\* H.265 encoder, was given it: for any payload that ends in a byte other than
\* zero, without four zeros in a row in H.264.
THEOREM UnitsArrive ==
  ASSUME NEW codec \in {"H264", "H265"}, NEW units \in Seq(PayloadsOf(codec))
  PROVE  LET found == Units(Written(codec, units))
         IN  /\ Len(found) = Len(units)
             /\ \A n \in 1 .. Len(units) :
                   /\ SubSeq(found[n], 1, Len(HeaderOf(codec))) = HeaderOf(codec)
                   /\ Read(codec, found[n]) = units[n]
  <1> DEFINE found == Units(Written(codec, units))
             B == PayloadsOf(codec)
  <1>1. Len(units) \in Nat /\ \A n \in 1 .. Len(units) : units[n] \in PayloadsOf(codec)
    <2> HIDE DEF B
    <2>1. units \in Seq(B)
      BY DEF B
    <2>2. Len(units) \in Nat /\ \A n \in 1 .. Len(units) : units[n] \in B
      BY <2>1
    <2> QED
      BY <2>2 DEF B
  <1>2. found = [n \in 1 .. Len(units) |-> NalUnit(codec, units[n])]
    BY StreamsComeApart
  <1>3. Len(found) = Len(units)
    BY <1>1, <1>2
  <1>4. \A n \in 1 .. Len(units) : found[n] = NalUnit(codec, units[n])
    BY <1>2
  <1> HIDE DEF found
  <1>5. \A n \in 1 .. Len(units) :
            /\ SubSeq(found[n], 1, Len(HeaderOf(codec))) = HeaderOf(codec)
            /\ Read(codec, found[n]) = units[n]
    BY <1>1, <1>4, UnitRead
  <1> QED
    BY <1>3, <1>5 DEF found

-----------------------------------------------------------------------------
(* The runs: the bytes of any payload they send *)

\* What a behaviour was given it keeps.
LEMMA GivenStays == MCSpec => [](given \in Inputs(part))
  <1>1. MCInit => given \in Inputs(part)
    BY DEF MCInit
  <1>2. given \in Inputs(part) /\ [MCNext]_mcVars => (given \in Inputs(part))'
    <2> SUFFICES ASSUME given \in Inputs(part), [MCNext]_mcVars
                 PROVE  (given \in Inputs(part))'
      OBVIOUS
    <2>1. given' = given /\ part' = part
      BY DEF MCNext, LoopsStep, CountsStep, SetsStep, mcVars
    <2> QED
      BY <2>1, Zenon DEF Inputs
  <1> QED
    BY <1>1, <1>2, PTL DEF MCSpec

\* The payloads of the runs are among those the lemmas are about.
LEMMA PayloadsHere ==
  ASSUME MaxZeros \in 0 .. 3, NEW codec \in {"H264", "H265"}, NEW p \in Payloads(codec)
  PROVE  p \in PayloadsOf(codec)
  <1>1. PICK len \in 1 .. 6 : p \in [1 .. len -> Bytes]
    BY DEF Payloads
  <1>2. Bytes \subseteq Byte
    BY DEF Bytes, Byte
  <1>3. p \in Seq(Byte) /\ Len(p) = len
    BY <1>1, <1>2
  <1>4. p[Len(p)] # 0
    BY DEF Payloads, Last
  <1>5. ASSUME codec = "H264" PROVE NoFourZeros(p)
    <2>1. ASSUME NEW n \in 4 .. Len(p), ThreeZeros(p, n - 1), p[n] = 0 PROVE FALSE
      <3> DEFINE i == n - 4
                 s == SubSeq(p, i + 1, i + MaxZeros + 1)
      <3>1. i \in 0 .. Len(p) - MaxZeros - 1
        BY <1>1, <1>3
      <3>2. s # [j \in 1 .. MaxZeros + 1 |-> 0]
        BY <1>5, <3>1 DEF Payloads
      <3>3. \A k \in n - 3 .. n : p[k] = 0
        <4> TAKE k \in n - 3 .. n
        <4>1. k \in {n - 1 - 2, n - 1 - 1, n - 1, n}
          BY <1>1, <1>3
        <4> QED
          BY <2>1, <4>1 DEF ThreeZeros
      <3>4. s = [j \in 1 .. MaxZeros + 1 |-> p[i + j]]
        BY <1>1, <1>3, <3>1
      <3>5. \A j \in 1 .. MaxZeros + 1 : p[i + j] = 0
        BY <1>1, <1>3, <3>3
      <3> HIDE DEF s
      <3> QED
        BY <3>2, <3>4, <3>5
    <2> QED
      BY <2>1, Zenon DEF NoFourZeros
  <1> QED
    BY <1>1, <1>3, <1>4, <1>5 DEF PayloadsOf

\* What the encoder writes in front of a picture comes apart into the same units
\* and is read back byte for byte, in every behaviour of the runs: the bytes of a
\* payload are as they may be, with at most three zeros in a row in H.264.
THEOREM WrittenIsRead ==
  ASSUME MaxZeros \in 0 .. 3
  PROVE  MCSpec => []BytesArrive
  <1>1. given \in Inputs(part) => BytesArrive
    <2> SUFFICES ASSUME given \in BytesInputs
                 PROVE  LET header == HeaderOf(given.codec)
                            units  == Units(Written(given.codec, given.units))
                        IN  /\ Len(units) = Len(given.units)
                            /\ \A n \in DOMAIN given.units :
                                  /\ SubSeq(units[n], 1, Len(header)) = header
                                  /\ Read(given.codec, units[n]) = given.units[n]
      BY DEF BytesArrive, Inputs
    <2>1. PICK codec \in {"H264", "H265"} :
             given \in [codec : {codec}, units : {<<p>> : p \in Payloads(codec)}
                                           \cup {<<p, <<0, 1>>>> : p \in Payloads(codec)}]
      BY DEF BytesInputs
    <2>a. PICK units : given.codec = codec /\ given.units = units
      BY <2>1
    <2>2. PICK p \in Payloads(codec) : units = <<p>> \/ units = <<p, <<0, 1>>>>
      BY <2>1, <2>a
    <2>3. <<0, 1>> \in PayloadsOf(codec)
      <3>1. <<0, 1>> \in Seq(Byte) /\ Len(<<0, 1>>) = 2 /\ <<0, 1>>[2] # 0
        BY DEF Byte
      <3>2. NoFourZeros(<<0, 1>>)
        BY <3>1 DEF NoFourZeros
      <3> QED
        BY <3>1, <3>2 DEF PayloadsOf
    <2>4. units \in Seq(PayloadsOf(codec))
      <3> DEFINE B == PayloadsOf(codec)
      <3>1. p \in B /\ <<0, 1>> \in B
        BY <2>3, PayloadsHere
      <3> HIDE DEF B
      <3>2. <<p>> \in Seq(B) /\ <<p, <<0, 1>>>> \in Seq(B)
        BY <3>1
      <3> QED
        BY <2>2, <3>2 DEF B
    <2>5. DOMAIN units = 1 .. Len(units)
      BY <2>2
    <2> QED
      BY <2>a, <2>4, <2>5, UnitsArrive
  <1> QED
    BY <1>1, GivenStays, PTL

-----------------------------------------------------------------------------
(* H.265 reference lists against the procedure of the standard *)

\* A remainder is told by what it leaves.
LEMMA ModOf ==
  ASSUME NEW L \in Nat \ {0}, NEW a \in Nat, NEW q \in Int, NEW j \in 0 .. L - 1, a = q * L + j
  PROVE  a % L = j
  OBVIOUS

\* Going round once more leads to the same place.
LEMMA RoundOnce ==
  ASSUME NEW L \in Nat \ {0}, NEW a \in Nat, a % L = 0
  PROVE  (a + L) % L = 0
  <1> DEFINE q == a \div L
  <1>1. q \in Int /\ a = q * L + (a % L)
    OBVIOUS
  <1> HIDE DEF q
  <1>2. a + L = (q + 1) * L + 0
    <2>1. (q + 1) * L = q * L + L
      BY <1>1
    <2> QED
      BY <1>1, <2>1
  <1>3. a + L \in Nat /\ q + 1 \in Int /\ 0 \in 0 .. L - 1
    BY <1>1
  <1> QED
    BY <1>2, <1>3, ModOf, Zenon

\* A place in the round that starts at a.
LEMMA RoundAgain ==
  ASSUME NEW L \in Nat \ {0}, NEW a \in Nat, a % L = 0, NEW j \in 0 .. L - 1
  PROVE  (a + j) % L = j
  OBVIOUS

\* The first n candidates, going round.
GoesRound(s, c, n) ==
    /\ Len(s) >= n /\ Len(s) % Len(c) = 0
    /\ \A i \in 1 .. Len(s) : s[i] = c[((i - 1) % Len(c)) + 1]

\* One round more of the candidates.
LEMMA OneRound ==
  ASSUME NEW S, NEW c \in Seq(S), Len(c) > 0, NEW s \in Seq(S), NEW n \in Nat, GoesRound(s, c, n)
  PROVE  GoesRound(s \o c, c, n + 1)
  <1> DEFINE L == Len(c)
             a == Len(s)
             t == s \o c
  <1>1. /\ L \in Nat \ {0} /\ a \in Nat /\ Len(t) = a + L
        /\ \A i \in 1 .. a : t[i] = s[i]
        /\ \A i \in 1 .. L : t[a + i] = c[i]
    OBVIOUS
  <1>2. a >= n /\ a % L = 0 /\ \A i \in 1 .. a : s[i] = c[((i - 1) % L) + 1]
    BY DEF GoesRound
  <1> HIDE DEF L, a, t
  <1>3. Len(t) % L = 0 /\ Len(t) >= n + 1
    <2>1. (a + L) % L = 0
      BY <1>1, <1>2, RoundOnce, Zenon
    <2>2. a + L >= n + 1
      BY <1>1, <1>2
    <2> QED
      BY <1>1, <2>1, <2>2, Zenon
  <1>4. ASSUME NEW i \in 1 .. Len(t) PROVE t[i] = c[((i - 1) % L) + 1]
    <2>1. CASE i \in 1 .. a
      BY <1>1, <1>2, <2>1, Zenon
    <2>2. CASE i \notin 1 .. a
      <3> DEFINE j == i - a
      <3>1. j \in 1 .. L /\ j - 1 \in 0 .. L - 1 /\ i = a + j /\ i - 1 = a + (j - 1)
        BY <1>1, <2>2
      <3> HIDE DEF j
      <3>2. (i - 1) % L = j - 1
        <4>1. (a + (j - 1)) % L = j - 1
          BY <1>1, <1>2, <3>1, RoundAgain, Zenon
        <4> QED
          BY <3>1, <4>1, Zenon
      <3>3. j - 1 + 1 = j
        BY <3>1
      <3>4. t[i] = c[j]
        BY <1>1, <3>1, Zenon
      <3> QED
        BY <3>2, <3>3, <3>4, Zenon
    <2> QED
      BY <2>1, <2>2
  <1>5. GoesRound(t, c, n + 1)
    BY <1>3, <1>4 DEF GoesRound, L
  <1> QED
    BY <1>5 DEF t

\* The candidates over and over are the candidates, going round.
LEMMA RepeatedGoesRound ==
  ASSUME NEW S, NEW c \in Seq(S), Len(c) > 0, NEW times \in Nat
  PROVE  Repeated(c, times) \in Seq(S) /\ GoesRound(Repeated(c, times), c, times)
  <1> DEFINE turns == [n \in 1 .. times |-> c]
             T == Seq(S)
             step == [x \in T \X {c} |-> x[1] \o x[2]]
             Goes(v) == v = [n \in 0 .. times |-> IF n = 0 THEN <<>> ELSE v[n - 1] \o c]
             R == {n \in 0 .. times : GoesRound((CHOOSE v : Goes(v))[n], c, n)}
  <1>0. turns \in Seq({c}) /\ Len(turns) = times /\ \A n \in 1 .. times : turns[n] = c
    OBVIOUS
  <1>1. step \in [T \X {c} -> T] /\ <<>> \in T /\ \A x \in T : step[<<x, c>>] = x \o c
    <2>1. \A x \in T : x \o c \in T
      OBVIOUS
    <2>2. <<>> \in T
      OBVIOUS
    <2> HIDE DEF T
    <2>3. step \in [T \X {c} -> T]
      BY <2>1
    <2>4. \A x \in T : step[<<x, c>>] = x \o c
      OBVIOUS
    <2> QED
      BY <2>2, <2>3, <2>4
  <1> HIDE DEF turns, step, T
  <1>2. PICK v \in [0 .. times -> T] : Runs(v, step, <<>>, turns)
    BY <1>0, <1>1, RunExists
  <1>3. Goes(v)
    <2>1. \A n \in 0 .. times : v[n] = IF n = 0 THEN <<>> ELSE v[n - 1] \o c
      <3>1. v[0] = <<>> /\ \A n \in 1 .. times : v[n] = step[<<v[n - 1], turns[n]>>]
        BY <1>0, <1>2, Zenon DEF Runs
      <3>2. ASSUME NEW n \in 1 .. times PROVE v[n] = v[n - 1] \o c
        <4>1. v[n - 1] \in T
          BY <1>2
        <4> QED
          BY <1>0, <1>1, <3>1, <4>1, Zenon
      <3>3. \A n \in 0 .. times : n = 0 \/ (n \in 1 .. times /\ n # 0)
        OBVIOUS
      <3> QED
        BY <3>1, <3>2, <3>3, Zenon
    <2>2. v = [n \in 0 .. times |-> v[n]]
      BY <1>2
    <2> QED
      BY <2>1, <2>2, Zenon
  <1> DEFINE w == CHOOSE u : Goes(u)
  <1>4. Goes(w)
    BY <1>3, Zenon
  <1>5. Repeated(c, times) = w[times]
    BY Zenon DEF Repeated
  <1> HIDE DEF w
  <1>6. w[0] = <<>> /\ \A n \in 1 .. times : w[n] = w[n - 1] \o c
    <2>1. \A n \in 0 .. times : w[n] = IF n = 0 THEN <<>> ELSE w[n - 1] \o c
      BY <1>4, Zenon
    <2>2. 0 \in 0 .. times /\ \A n \in 1 .. times : n \in 0 .. times /\ n # 0
      OBVIOUS
    <2> QED
      BY <2>1, <2>2, Zenon
  <1>7. w \in [0 .. times -> T]
    <2>1. \A n \in 1 .. times : w[n - 1] \in T => w[n] = step[<<w[n - 1], turns[n]>>]
      BY <1>0, <1>1, <1>6
    <2>2. w = [n \in 0 .. times |-> w[n]]
      BY <1>4, Zenon
    <2>3. RunsFrom(w, T, step, <<>>, turns)
      BY <1>0, <1>6, <2>1, <2>2, Zenon DEF RunsFrom
    <2> QED
      BY <1>0, <1>1, <2>3, RunTyped
  <1> DEFINE G == {n \in 0 .. times : GoesRound(w[n], c, n)}
  <1>8. 0 \in G
    <2>1. Len(<<>>) = 0 /\ 1 .. 0 = {} /\ Len(c) \in Nat
      OBVIOUS
    <2>2. 0 % Len(c) = 0
      BY <2>1
    <2>3. GoesRound(<<>>, c, 0)
      BY <2>1, <2>2 DEF GoesRound
    <2> QED
      BY <1>6, <2>3
  <1>9. ASSUME NEW n \in 1 .. times, n - 1 \in G PROVE n \in G
    <2>1. w[n - 1] \in Seq(S) /\ n - 1 \in Nat /\ n - 1 + 1 = n /\ n \in 0 .. times
      BY <1>7 DEF T
    <2>2. GoesRound(w[n - 1] \o c, c, n)
      BY <1>9, <2>1, OneRound
    <2> QED
      BY <1>6, <2>1, <2>2
  <1>10. G = 0 .. times
    <2>1. G \subseteq 0 .. times
      OBVIOUS
    <2> HIDE DEF G
    <2> QED
      BY <1>8, <1>9, <2>1, Onwards
  <1>11. GoesRound(w[times], c, times) /\ w[times] \in Seq(S)
    <2>1. times \in G /\ times \in 0 .. times
      BY <1>10
    <2> QED
      BY <1>7, <2>1 DEF T
  <1> QED
    BY <1>5, <1>11

\* A slice header of some references, which asks for pictures that are there.
IsSlice(S, g) ==
    /\ g.list1 \in BOOLEAN /\ g.active \in Nat
    /\ g.rps.before \in Seq(S) /\ g.rps.after \in Seq(S) /\ g.rps.long \in Seq(S)
    /\ Len(Candidates(g.rps, g.list1)) > 0
    /\ \/ g.entries = <<>>
       \/ g.entries \in [1 .. g.active -> 0 .. Len(Candidates(g.rps, g.list1)) - 1]

\* RefPicList is the standard's, for any references, in any number.
LEMMA ListIsStandards ==
  ASSUME NEW S, NEW g, IsSlice(S, g)
  PROVE  RefPicList(g.rps, g.list1, g.active, g.entries) = StandardList(g)
  <1>0. /\ g.list1 \in BOOLEAN /\ g.active \in Nat
        /\ g.rps.before \in Seq(S) /\ g.rps.after \in Seq(S) /\ g.rps.long \in Seq(S)
        /\ Len(Candidates(g.rps, g.list1)) > 0
        /\ \/ g.entries = <<>>
           \/ g.entries \in [1 .. g.active -> 0 .. Len(Candidates(g.rps, g.list1)) - 1]
    BY DEF IsSlice
  <1> DEFINE c == Candidates(g.rps, g.list1)
             L == Len(c)
             temp == Repeated(c, g.active)
  <1>10. g.active \in Nat
    BY <1>0
  <1>1. c \in Seq(S) /\ L \in Nat /\ L > 0
    <2>1. c \in Seq(S)
      <3> DEFINE x == g.rps.before
                 y == g.rps.after
                 z == g.rps.long
      <3>1. x \in Seq(S) /\ y \in Seq(S) /\ z \in Seq(S)
        BY <1>0
      <3>2. c = y \o x \o z \/ c = x \o y \o z
        BY DEF Candidates
      <3> HIDE DEF x, y, z, c
      <3>3. \A s, t \in Seq(S) : s \o t \in Seq(S)
        OBVIOUS
      <3>4. x \o y \in Seq(S) /\ y \o x \in Seq(S)
        BY <3>1, <3>3, Zenon
      <3>5. x \o y \o z \in Seq(S) /\ y \o x \o z \in Seq(S)
        BY <3>1, <3>3, <3>4, Zenon
      <3> QED
        BY <3>2, <3>5, Zenon
    <2>3. L > 0
      BY <1>0
    <2> HIDE DEF c
    <2>2. L \in Nat
      BY <2>1
    <2> QED
      BY <2>1, <2>2, <2>3
  <1>2. (IF g.list1 THEN g.rps.after \o g.rps.before ELSE g.rps.before \o g.rps.after) \o g.rps.long = c
    BY DEF Candidates
  <1>3. StandardList(g) = [i \in 1 .. g.active |-> IF g.entries = <<>> THEN temp[i]
                                                  ELSE temp[g.entries[i] + 1]]
    BY <1>2, Zenon DEF StandardList
  <1>4. RefPicList(g.rps, g.list1, g.active, g.entries) =
            [i \in 1 .. g.active |->
                c[((IF i <= Len(g.entries) THEN g.entries[i] ELSE i - 1) % L) + 1]]
    BY DEF RefPicList
  <1>5. g.entries = <<>> \/ g.entries \in [1 .. g.active -> 0 .. L - 1]
    BY <1>0
  <1> HIDE DEF c
  <1>6. GoesRound(temp, c, g.active) /\ temp \in Seq(S)
    BY <1>0, <1>1, RepeatedGoesRound
  <1> HIDE DEF temp
  <1>7. Len(temp) >= g.active /\ Len(temp) \in Nat
        /\ \A i \in 1 .. Len(temp) : temp[i] = c[((i - 1) % L) + 1]
    BY <1>6 DEF GoesRound
  <1>8. Len(temp) % L = 0
    BY <1>6 DEF GoesRound
  <1>9. ASSUME NEW i \in 1 .. g.active
        PROVE  c[((IF i <= Len(g.entries) THEN g.entries[i] ELSE i - 1) % L) + 1]
                  = IF g.entries = <<>> THEN temp[i] ELSE temp[g.entries[i] + 1]
    <2>1. CASE g.entries = <<>>
      <3>1. ~(i <= Len(g.entries)) /\ i \in 1 .. Len(temp)
        BY <1>0, <1>7, <2>1
      <3> QED
        BY <1>7, <2>1, <3>1, Zenon
    <2>2. CASE g.entries # <<>>
      <3>1. g.entries \in [1 .. g.active -> 0 .. L - 1]
        BY <1>5, <2>2
      <3>2. Len(g.entries) = g.active /\ g.entries[i] \in 0 .. L - 1
        BY <1>10, <3>1
      <3>3. L <= Len(temp)
        <4>1. Len(temp) \in Nat \ {0}
          BY <1>10, <1>7
        <4> DEFINE a == Len(temp)
        <4> HIDE DEF a, L
        <4>2. a \in Nat \ {0} /\ a % L = 0 /\ L \in Nat \ {0}
          BY <1>1, <1>8, <4>1 DEF a
        <4>3. L <= a
          <5> SUFFICES ASSUME a < L PROVE FALSE
            BY <4>2
          <5>1. a = 0 * L + a /\ a \in 0 .. L - 1 /\ 0 \in Int
            BY <4>2
          <5>2. a % L = a
            BY <4>2, <5>1, ModOf, Zenon
          <5> QED
            BY <4>2, <5>2
        <4> QED
          BY <4>3 DEF a
      <3>4. PICK e \in 0 .. L - 1 : e = g.entries[i]
        BY <3>2
      <3>5. temp[g.entries[i] + 1] = c[(g.entries[i] % L) + 1]
        <4> HIDE DEF L
        <4>1. Len(temp) \in Nat /\ L \in Nat
          BY <1>1, <1>7, Zenon DEF L
        <4>2. PICK k \in 1 .. Len(temp) : k = e + 1 /\ k - 1 = e
          <5> DEFINE b == Len(temp)
          <5>1. b \in Nat /\ L \in Nat /\ L <= b /\ e \in 0 .. L - 1
            BY <3>3, <3>4, <4>1
          <5> HIDE DEF b
          <5>2. e + 1 \in 1 .. b /\ e + 1 - 1 = e
            BY <5>1
          <5> QED
            BY <5>2 DEF b
        <4>3. temp[k] = c[((k - 1) % L) + 1]
          BY <1>7, Zenon
        <4>4. temp[k] = c[(e % L) + 1]
          BY <4>2, <4>3, Zenon
        <4>5. temp[e + 1] = c[(e % L) + 1]
          BY <4>2, <4>4, Zenon
        <4> QED
          BY <3>4, <4>5, Zenon
      <3>6. i <= Len(g.entries)
        BY <1>0, <3>2
      <3>7. (IF i <= Len(g.entries) THEN g.entries[i] ELSE i - 1) = g.entries[i]
        BY <3>6, Zenon
      <3> QED
        BY <2>2, <3>5, <3>7, Zenon
    <2> QED
      BY <2>1, <2>2
  <1> QED
    BY <1>3, <1>4, <1>9, Zenon

\* Two sequences one behind the other.
LEMMA Joined ==
  ASSUME NEW S, NEW s \in Seq(S), NEW t \in Seq(S)
  PROVE  s \o t \in Seq(S) /\ Len(s \o t) = Len(s) + Len(t)
  OBVIOUS

\* Pictures by number are a sequence of numbers.
LEMMA NumberedSeq ==
  ASSUME NEW first \in Nat, NEW k \in Nat
  PROVE  Numbered(first, k) \in Seq(Nat) /\ Len(Numbered(first, k)) = k
  <1>1. \A i \in 1 .. k : first + i \in Nat
    OBVIOUS
  <1> QED
    BY <1>1 DEF Numbered

\* What the slices of the runs hold.
LEMMA SliceShape ==
  ASSUME NEW g \in RefsInputs
  PROVE  \E n \in Sizes, active \in 1 .. 6 : g \in SlicesOf(n, active)
  <1>1. PICK T \in {UNION {SlicesOf(n, active) : active \in 1 .. 6} : n \in Sizes} : g \in T
    BY DEF RefsInputs
  <1>2. PICK n \in Sizes : T = UNION {SlicesOf(n, active) : active \in 1 .. 6}
    OBVIOUS
  <1>3. PICK U \in {SlicesOf(n, active) : active \in 1 .. 6} : g \in U
    BY <1>1, <1>2
  <1>4. PICK active \in 1 .. 6 : U = SlicesOf(n, active)
    OBVIOUS
  <1> QED
    BY <1>3, <1>4

\* They are slice headers with references.
LEMMA SliceLists ==
  ASSUME NEW n \in Sizes, NEW active \in 1 .. 6, NEW g \in SlicesOf(n, active)
  PROVE  IsSlice(Nat, g)
  <1> DEFINE total == n[1] + n[2] + n[3]
  <1>1. n \in (0 .. 2) \X (0 .. 2) \X (0 .. 1) /\ n # <<0, 0, 0>>
    BY DEF Sizes
  <1>2. n[1] \in 0 .. 2 /\ n[2] \in 0 .. 2 /\ n[3] \in 0 .. 1
    BY <1>1
  <1>3. total \in Nat /\ total > 0
    <2>1. n = <<n[1], n[2], n[3]>>
      BY <1>1
    <2>2. ~(n[1] = 0 /\ n[2] = 0 /\ n[3] = 0)
      BY <1>1, <2>1
    <2> QED
      BY <1>2, <2>2
  <1>4. g.rps = RpsOf(n) /\ g.list1 \in BOOLEAN /\ g.active = active
        /\ g.entries \in EntriesOf(total, active)
    BY DEF SlicesOf
  <1> DEFINE x == Numbered(0, n[1])
             y == Numbered(n[1], n[2])
             z == Numbered(n[1] + n[2], n[3])
  <1>5. /\ x \in Seq(Nat) /\ Len(x) = n[1] /\ y \in Seq(Nat) /\ Len(y) = n[2]
        /\ z \in Seq(Nat) /\ Len(z) = n[3]
    <2>1. n[1] \in Nat /\ n[2] \in Nat /\ n[3] \in Nat /\ n[1] + n[2] \in Nat /\ 0 \in Nat
      BY <1>2
    <2> QED
      BY <2>1, NumberedSeq, Zenon
  <1>6. g.rps.before = x /\ g.rps.after = y /\ g.rps.long = z
    BY <1>4 DEF RpsOf
  <1> HIDE DEF x, y, z
  <1>7. Len(Candidates(g.rps, g.list1)) = total
    <2>1. /\ x \o y \in Seq(Nat) /\ Len(x \o y) = Len(x) + Len(y)
          /\ y \o x \in Seq(Nat) /\ Len(y \o x) = Len(y) + Len(x)
      BY <1>5, Joined, Zenon
    <2>2. /\ Len((x \o y) \o z) = Len(x \o y) + Len(z)
          /\ Len((y \o x) \o z) = Len(y \o x) + Len(z)
      BY <1>5, <2>1, Joined, Zenon
    <2>3. /\ Len((x \o y) \o z) = (n[1] + n[2]) + n[3]
          /\ Len((y \o x) \o z) = (n[2] + n[1]) + n[3]
      BY <1>5, <2>1, <2>2, Zenon
    <2>4. n[2] + n[1] = n[1] + n[2]
      BY <1>2
    <2>5. Candidates(g.rps, g.list1) = (x \o y) \o z \/ Candidates(g.rps, g.list1) = (y \o x) \o z
      BY <1>6, Zenon DEF Candidates
    <2> QED
      BY <2>3, <2>4, <2>5, Zenon
  <1>8. g.entries = <<>> \/ g.entries \in [1 .. active -> 0 .. total - 1]
    <2> HIDE DEF total
    <2> QED
      BY <1>4 DEF EntriesOf
  <1>9. g.active \in Nat
    BY <1>4
  <1> HIDE DEF total
  <1>10. g.rps.before \in Seq(Nat) /\ g.rps.after \in Seq(Nat) /\ g.rps.long \in Seq(Nat)
    BY <1>5, <1>6, Zenon
  <1>11. Len(Candidates(g.rps, g.list1)) > 0
    BY <1>3, <1>7
  <1>12. \/ g.entries = <<>>
         \/ g.entries \in [1 .. g.active -> 0 .. Len(Candidates(g.rps, g.list1)) - 1]
    BY <1>4, <1>7, <1>8, Zenon
  <1> QED
    BY <1>4, <1>9, <1>10, <1>11, <1>12 DEF IsSlice

\* The reference lists of an H.265 slice (ref_pic_lists, picked modulo the
\* candidates) are those of the procedure of 8.3.4, in every behaviour of the runs.
THEOREM ListsOfSlices == MCSpec => []ListsAreStandards
  <1>1. given \in Inputs(part) => ListsAreStandards
    <2> SUFFICES ASSUME given \in RefsInputs
                 PROVE  RefPicList(given.rps, given.list1, given.active, given.entries)
                            = StandardList(given)
      BY DEF ListsAreStandards, Inputs
    <2>1. PICK n \in Sizes, active \in 1 .. 6 : given \in SlicesOf(n, active)
      BY SliceShape
    <2>2. IsSlice(Nat, given)
      BY <2>1, SliceLists
    <2>3. PICK g : g = given
      OBVIOUS
    <2>4. RefPicList(g.rps, g.list1, g.active, g.entries) = StandardList(g)
      BY <2>2, <2>3, ListIsStandards
    <2> QED
      BY <2>3, <2>4
  <1> QED
    BY <1>1, GivenStays, PTL

-----------------------------------------------------------------------------
(* Order counts: the sums of a cycle                                       *)

\* A quotient of integers is told by what it leaves.
LEMMA DivOf ==
  ASSUME NEW L \in Nat \ {0}, NEW a \in Nat, NEW q \in Int, NEW j \in 0 .. L - 1, a = q * L + j
  PROVE  a \div L = q
  OBVIOUS

\* A number is its whole quotient and the remainder.
LEMMA DivMod ==
  ASSUME NEW L \in Nat \ {0}, NEW a \in Nat
  PROVE  /\ a \div L \in Nat /\ a % L \in 0 .. L - 1
         /\ a = (a \div L) * L + (a % L)
  OBVIOUS

\* One time more.
LEMMA OnceMore ==
  ASSUME NEW q \in Nat, NEW x \in Int
  PROVE  q * x \in Int /\ (q + 1) * x = q * x + x
  OBVIOUS

\* The sums v of the first numbers of f.
Sums(v, f, n) ==
    /\ v \in [0 .. n -> Int] /\ v[0] = 0
    /\ \A i \in 1 .. n : v[i] = v[i - 1] + f[i]

\* There are such sums of any integers.
LEMMA SumsExist ==
  ASSUME NEW n \in Nat, NEW f \in [1 .. n -> Int]
  PROVE  \E v : Sums(v, f, n)
  <1> DEFINE plus == [x \in Int \X Int |-> x[1] + x[2]]
  <1>1. plus \in [Int \X Int -> Int] /\ 0 \in Int /\ f \in Seq(Int) /\ Len(f) = n
        /\ \A a, b \in Int : plus[<<a, b>>] = a + b
    OBVIOUS
  <1> HIDE DEF plus
  <1>2. PICK v \in [0 .. n -> Int] : Runs(v, plus, 0, f)
    BY <1>1, RunExists
  <1>3. v[0] = 0 /\ \A i \in 1 .. n : v[i] = plus[<<v[i - 1], f[i]>>]
    BY <1>1, <1>2 DEF Runs
  <1>4. ASSUME NEW i \in 1 .. n PROVE v[i] = v[i - 1] + f[i]
    <2>1. v[i - 1] \in Int /\ f[i] \in Int
      BY <1>2
    <2> QED
      BY <1>1, <1>3, <2>1
  <1> QED
    BY <1>2, <1>3, <1>4 DEF Sums

\* Sums depend on what is added up alone: two functions of the same numbers have
\* the same sums.
LEMMA SumsUnique ==
  ASSUME NEW n \in Nat, NEW m \in 0 .. n, NEW f, NEW g, NEW v, NEW w, Sums(v, f, m), Sums(w, g, n),
         \A i \in 1 .. m : f[i] = g[i]
  PROVE  v[m] = w[m]
  <1> DEFINE T == {i \in 0 .. m : v[i] = w[i]}
  <1>1. 0 \in T
    BY DEF Sums
  <1>2. ASSUME NEW i \in 1 .. m, i - 1 \in T PROVE i \in T
    BY <1>2 DEF Sums
  <1>3. T = 0 .. m
    <2>1. T \subseteq 0 .. m /\ m \in Nat
      OBVIOUS
    <2> HIDE DEF T
    <2> QED
      BY <1>1, <1>2, <2>1, Onwards
  <1>4. m \in T
    BY <1>3
  <1> QED
    BY <1>4

\* The function that is defined by its own sum from below,
\* as OffsetsOf and Cycled are.
SumOf(f, n) == CHOOSE u : u = [i \in 0 .. n |-> IF i = 0 THEN 0 ELSE u[i - 1] + f[i]]

\* It is the sums.
LEMMA SumOfSums ==
  ASSUME NEW n \in Nat, NEW f \in [1 .. n -> Int]
  PROVE  Sums(SumOf(f, n), f, n)
  <1> DEFINE P(u) == u = [i \in 0 .. n |-> IF i = 0 THEN 0 ELSE u[i - 1] + f[i]]
             w == SumOf(f, n)
  <1>1. PICK v : Sums(v, f, n)
    BY SumsExist
  <1>2. P(v)
    <2>1. v = [i \in 0 .. n |-> v[i]]
      BY <1>1 DEF Sums
    <2>2. \A i \in 0 .. n : v[i] = IF i = 0 THEN 0 ELSE v[i - 1] + f[i]
      <3>1. \A i \in 0 .. n : i = 0 \/ (i \in 1 .. n /\ i # 0)
        OBVIOUS
      <3> QED
        BY <1>1, <3>1, Zenon DEF Sums
    <2> QED
      BY <2>1, <2>2, Zenon
  <1>3. P(w)
    BY <1>2, Zenon DEF SumOf
  <1> HIDE DEF w
  <1>4. w[0] = 0 /\ \A i \in 1 .. n : w[i] = w[i - 1] + f[i]
    <2>1. \A i \in 0 .. n : w[i] = IF i = 0 THEN 0 ELSE w[i - 1] + f[i]
      BY <1>3, Zenon
    <2>2. 0 \in 0 .. n /\ \A i \in 1 .. n : i \in 0 .. n /\ i # 0
      OBVIOUS
    <2> QED
      BY <2>1, <2>2, Zenon
  <1> DEFINE T == {i \in 0 .. n : w[i] \in Int}
  <1>5. 0 \in T
    BY <1>4
  <1>6. ASSUME NEW i \in 1 .. n, i - 1 \in T PROVE i \in T
    BY <1>4, <1>6
  <1>7. T = 0 .. n
    <2>1. T \subseteq 0 .. n
      OBVIOUS
    <2> HIDE DEF T
    <2> QED
      BY <1>5, <1>6, <2>1, Onwards
  <1>8. w \in [0 .. n -> Int]
    <2>1. w = [i \in 0 .. n |-> w[i]]
      BY <1>3, Zenon
    <2>2. \A i \in 0 .. n : w[i] \in Int
      BY <1>7
    <2> QED
      BY <2>1, <2>2
  <1>9. Sums(w, f, n)
    BY <1>4, <1>8 DEF Sums
  <1> QED
    BY <1>9 DEF w

\* OffsetsOf adds up the first offsets of the cycle.
LEMMA OffsetsAreSums ==
  ASSUME NEW c \in Seq(Int), NEW n \in 0 .. Len(c), NEW v, Sums(v, c, Len(c))
  PROVE  OffsetsOf(c, n) = v[n]
  <1>0. n \in Nat /\ Len(c) \in Nat /\ \A i \in 1 .. n : c[i] \in Int
    OBVIOUS
  <1> DEFINE f == [i \in 1 .. n |-> c[i]]
  <1>1. f \in [1 .. n -> Int] /\ \A i \in 1 .. n : f[i] = c[i]
    BY <1>0
  <1>2. OffsetsOf(c, n) = SumOf(f, n)[n]
    <2> DEFINE P(u) == [i \in 0 .. n |-> IF i = 0 THEN 0 ELSE u[i - 1] + c[i]]
               Q(u) == [i \in 0 .. n |-> IF i = 0 THEN 0 ELSE u[i - 1] + f[i]]
    <2>1. \A u : P(u) = Q(u)
      <3> TAKE u
      <3>1. \A i \in 0 .. n : i = 0 \/ i \in 1 .. n
        BY <1>0
      <3> HIDE DEF f
      <3> QED
        BY <1>1, <3>1, Zenon
    <2>2. OffsetsOf(c, n) = (CHOOSE u : u = P(u))[n]
      BY Zenon DEF OffsetsOf
    <2>3. SumOf(f, n) = CHOOSE u : u = Q(u)
      BY Zenon DEF SumOf
    <2> HIDE DEF P, Q, f
    <2>4. (CHOOSE u : u = P(u)) = (CHOOSE u : u = Q(u))
      BY <2>1, Zenon
    <2> QED
      BY <2>2, <2>3, <2>4, Zenon
  <1> HIDE DEF f
  <1>3. Sums(SumOf(f, n), f, n)
    BY <1>0, <1>1, SumOfSums
  <1> QED
    BY <1>0, <1>1, <1>2, <1>3, SumsUnique

\* Cycled adds up those of the cycle repeated.
LEMMA CycledAreSums ==
  ASSUME NEW c \in Seq(Int), Len(c) > 0, NEW n \in Nat
  PROVE  \E w : /\ Sums(w, [i \in 1 .. n |-> c[((i - 1) % Len(c)) + 1]], n)
               /\ Cycled(c, n) = w[n]
  <1> DEFINE f == [i \in 1 .. n |-> c[((i - 1) % Len(c)) + 1]]
  <1>1. f \in [1 .. n -> Int]
    <2>1. Len(c) \in Nat \ {0} /\ \A k \in 1 .. Len(c) : c[k] \in Int
      OBVIOUS
    <2> DEFINE L == Len(c)
    <2> HIDE DEF L
    <2>2. ASSUME NEW i \in 1 .. n PROVE ((i - 1) % L) + 1 \in 1 .. L
      <3>1. i - 1 \in Nat /\ L \in Nat \ {0}
        BY <2>1 DEF L
      <3>2. (i - 1) % L \in 0 .. L - 1
        BY <3>1, DivMod
      <3> QED
        BY <3>1, <3>2
    <2>3. \A i \in 1 .. n : c[((i - 1) % L) + 1] \in Int
      BY <2>1, <2>2 DEF L
    <2> QED
      BY <2>3 DEF L
  <1>2. \A i \in 1 .. n : f[i] = c[((i - 1) % Len(c)) + 1]
    OBVIOUS
  <1>3. Cycled(c, n) = SumOf(f, n)[n]
    <2> DEFINE P(u) == [i \in 0 .. n |-> IF i = 0 THEN 0
                                         ELSE u[i - 1] + c[((i - 1) % Len(c)) + 1]]
               Q(u) == [i \in 0 .. n |-> IF i = 0 THEN 0 ELSE u[i - 1] + f[i]]
    <2>1. \A u : P(u) = Q(u)
      <3> TAKE u
      <3>1. \A i \in 0 .. n : i = 0 \/ i \in 1 .. n
        OBVIOUS
      <3> HIDE DEF f
      <3> QED
        BY <1>2, <3>1, Zenon
    <2>2. Cycled(c, n) = (CHOOSE u : u = P(u))[n]
      BY Zenon DEF Cycled
    <2>3. SumOf(f, n) = CHOOSE u : u = Q(u)
      BY Zenon DEF SumOf
    <2> HIDE DEF P, Q, f
    <2>4. (CHOOSE u : u = P(u)) = (CHOOSE u : u = Q(u))
      BY <2>1, Zenon
    <2> QED
      BY <2>2, <2>3, <2>4, Zenon
  <1>4. Sums(SumOf(f, n), f, n)
    <2> HIDE DEF f
    <2> QED
      BY <1>1, SumOfSums
  <1> QED
    BY <1>3, <1>4, Zenon

\* The place in the cycle after that of a.
Follows(a, L) ==
    \/ /\ (a + 1) \div L = a \div L /\ (a + 1) % L = (a % L) + 1
       /\ (a % L) + 1 \in 0 .. L - 1
    \/ /\ (a + 1) \div L = (a \div L) + 1 /\ (a + 1) % L = 0 /\ (a % L) + 1 = L

\* It is one further in the same round, or the first of the next.
LEMMA NextInCycle ==
  ASSUME NEW L \in Nat \ {0}, NEW a \in Nat
  PROVE  Follows(a, L)
  <1> DEFINE q == a \div L
             r == a % L
  <1>1. q \in Nat /\ r \in 0 .. L - 1 /\ a = q * L + r
    BY DivMod
  <1> HIDE DEF q, r
  <1>2. PICK m \in Nat : m = q * L
    BY <1>1
  <1>3. CASE r + 1 \in 0 .. L - 1
    <2>1. a + 1 = q * L + (r + 1) /\ a + 1 \in Nat
      BY <1>1, <1>2
    <2>2. (a + 1) \div L = q /\ (a + 1) % L = r + 1
      BY <1>1, <1>3, <2>1, DivOf, ModOf
    <2> QED
      BY <1>3, <2>2 DEF Follows, q, r
  <1>4. CASE r + 1 = L
    <2>1. (q + 1) * L = m + L /\ q + 1 \in Int
      <3>1. (q + 1) * L = q * L + L
        BY <1>1
      <3> QED
        BY <1>1, <1>2, <3>1
    <2>2. a + 1 = (q + 1) * L + 0 /\ a + 1 \in Nat /\ 0 \in 0 .. L - 1
      BY <1>1, <1>2, <1>4, <2>1
    <2>3. (a + 1) \div L = q + 1 /\ (a + 1) % L = 0
      BY <2>1, <2>2, DivOf, ModOf
    <2> QED
      BY <1>4, <2>3 DEF Follows, q, r
  <1> QED
    BY <1>1, <1>3, <1>4

\* Going round the cycle one offset at a time comes to whole cycles and a part.
LEMMA WholeCycles ==
  ASSUME NEW c \in Seq(Int), Len(c) > 0, NEW n \in Nat, n > 0
  PROVE  Cycled(c, n) = ((n - 1) \div Len(c)) * OffsetsOf(c, Len(c))
                            + OffsetsOf(c, ((n - 1) % Len(c)) + 1)
  <1> DEFINE L == Len(c)
             f == [i \in 1 .. n |-> c[((i - 1) % L) + 1]]
  <1>0. L \in Nat \ {0} /\ c \in [1 .. L -> Int]
    OBVIOUS
  <1>1. PICK w : Sums(w, f, n) /\ Cycled(c, n) = w[n]
    BY CycledAreSums
  <1>2. PICK v : Sums(v, c, L)
    BY <1>0, SumsExist
  <1>3. /\ v \in [0 .. L -> Int] /\ v[0] = 0
        /\ \A i \in 1 .. L : v[i] = v[i - 1] + c[i]
    BY <1>2 DEF Sums
  <1>4. /\ w \in [0 .. n -> Int] /\ w[0] = 0
        /\ \A i \in 1 .. n : w[i] = w[i - 1] + c[((i - 1) % L) + 1]
    BY <1>1 DEF Sums
  <1>5. \A k \in 0 .. L : OffsetsOf(c, k) = v[k]
    BY <1>2, OffsetsAreSums
  <1> HIDE DEF L, f
  <1> DEFINE Whole(i) == w[i] = ((i - 1) \div L) * v[L] + v[((i - 1) % L) + 1]
             T == {i \in 0 .. n : i = 0 \/ Whole(i)}
  <1>6. Whole(1)
    <2>1. 0 = 0 * L + 0 /\ 0 \in 0 .. L - 1 /\ 0 \in Nat /\ 0 \in Int
      BY <1>0
    <2>2. 0 \div L = 0 /\ 0 % L = 0
      BY <1>0, <2>1, DivOf, ModOf
    <2>3. w[1] = c[1] /\ v[1] = c[1]
      <3>1. 1 \in 1 .. n /\ 1 \in 1 .. L /\ 1 - 1 = 0 /\ 0 + 1 = 1
        BY <1>0
      <3>2. w[1] = w[0] + c[(0 % L) + 1] /\ v[1] = v[0] + c[1]
        BY <1>3, <1>4, <3>1
      <3>3. c[1] \in Int
        BY <1>0, <3>1
      <3> QED
        BY <1>3, <1>4, <2>2, <3>1, <3>2, <3>3
    <2>4. v[L] \in Int /\ v[1] \in Int
      BY <1>0, <1>3
    <2>5. 1 - 1 = 0 /\ 0 + 1 = 1 /\ 0 * v[L] = 0 /\ 0 + v[1] = v[1]
      BY <2>4
    <2> QED
      BY <2>2, <2>3, <2>5, Zenon
  <1>7. ASSUME NEW i \in 1 .. n, i - 1 \in T PROVE i \in T
    <2>1. CASE i = 1
      BY <1>6, <2>1
    <2>2. CASE i # 1
      <3>1. PICK a \in Nat : i = a + 2
        BY <2>2
      <3>2. i - 1 = a + 1 /\ i - 1 - 1 = a /\ a + 1 # 0 /\ a + 1 \in 1 .. n
        BY <3>1
      <3>3. Whole(a + 1)
        BY <1>7, <3>2, Zenon
      <3>4. PICK e : e = a + 1 /\ e - 1 = a
        BY <3>1
      <3> DEFINE q == a \div L
                 r == a % L
      <3>5. q \in Nat /\ r \in 0 .. L - 1
        BY <1>0, DivMod
      <3>6. w[a + 1] = q * v[L] + v[r + 1]
        <4>1. Whole(e)
          BY <3>3, <3>4, Zenon
        <4>2. w[e] = ((e - 1) \div L) * v[L] + v[((e - 1) % L) + 1]
          BY <4>1
        <4>3. w[e] = (a \div L) * v[L] + v[(a % L) + 1]
          BY <3>4, <4>2, Zenon
        <4> QED
          BY <3>4, <4>3, Zenon
      <3>7. w[i] = w[a + 1] + c[((a + 1) % L) + 1]
        BY <1>4, <3>2, Zenon
      <3>8. v[L] \in Int /\ v[r + 1] \in Int /\ r + 1 \in 1 .. L
        BY <1>0, <1>3, <3>5
      <3>9. \/ (a + 1) \div L = q /\ (a + 1) % L = r + 1 /\ r + 1 \in 0 .. L - 1
            \/ (a + 1) \div L = q + 1 /\ (a + 1) % L = 0 /\ r + 1 = L
        <4>1. Follows(a, L)
          BY <1>0, NextInCycle
        <4> QED
          BY <4>1, Zenon DEF Follows
      <3>10. Whole(i)
        <4> HIDE DEF q, r
        <4>1. CASE (a + 1) \div L = q /\ (a + 1) % L = r + 1 /\ r + 1 \in 0 .. L - 1
          <5>1. r + 1 + 1 \in 1 .. L /\ r + 1 + 1 - 1 = r + 1
            BY <1>0, <3>5, <4>1
          <5>2. v[r + 1 + 1] = v[r + 1] + c[r + 1 + 1] /\ c[r + 1 + 1] \in Int
            <6>1. PICK k \in 1 .. L : k = r + 1 + 1 /\ k - 1 = r + 1
              BY <3>5, <5>1
            <6>2. v[k] = v[k - 1] + c[k] /\ c[k] \in Int
              BY <1>0, <1>3
            <6> QED
              BY <6>1, <6>2, Zenon
          <5>3. w[i] = q * v[L] + v[r + 1] + c[r + 1 + 1]
            BY <3>6, <3>7, <4>1, Zenon
          <5>7. q * v[L] \in Int
            <6>1. q \in Nat /\ v[L] \in Int
              BY <3>5, <3>8
            <6> QED
              BY <6>1, OnceMore, Zenon
          <5>4. PICK m \in Int : m = q * v[L]
            BY <5>7, Zenon
          <5>5. m + v[r + 1] + c[r + 1 + 1] = m + v[r + 1 + 1]
            BY <3>8, <5>2
          <5>6. w[i] = q * v[L] + v[r + 1 + 1]
            BY <5>3, <5>4, <5>5, Zenon
          <5> QED
            BY <3>2, <4>1, <5>6, Zenon
        <4>2. CASE (a + 1) \div L = q + 1 /\ (a + 1) % L = 0 /\ r + 1 = L
          <5>1. 1 \in 1 .. L /\ 1 - 1 = 0 /\ 0 + 1 = 1
            BY <1>0
          <5>2. v[1] = v[0] + c[1] /\ c[1] \in Int
            BY <1>0, <1>3, <5>1
          <5>3. v[1] = c[1]
            BY <1>3, <5>2
          <5>4. w[i] = q * v[L] + v[L] + c[1]
            BY <3>6, <3>7, <4>2, <5>1, Zenon
          <5>5. (q + 1) * v[L] = q * v[L] + v[L]
            BY <3>5, <3>8, OnceMore, Zenon
          <5>6. w[i] = (q + 1) * v[L] + v[0 + 1]
            BY <5>1, <5>3, <5>4, <5>5, Zenon
          <5> QED
            BY <3>2, <4>2, <5>6, Zenon
        <4> QED
          BY <3>9, <4>1, <4>2
      <3> QED
        BY <3>10
    <2> QED
      BY <2>1, <2>2
  <1>8. T = 0 .. n
    <2>1. T \subseteq 0 .. n /\ 0 \in T
      OBVIOUS
    <2> HIDE DEF T
    <2> QED
      BY <1>7, <2>1, Onwards
  <1>9. Whole(n)
    <2>1. n \in T /\ n # 0
      BY <1>8
    <2> QED
      BY <2>1, Zenon
  <1>10. OffsetsOf(c, L) = v[L] /\ OffsetsOf(c, ((n - 1) % L) + 1) = v[((n - 1) % L) + 1]
    <2>1. n - 1 \in Nat
      OBVIOUS
    <2>2. (n - 1) % L \in 0 .. L - 1
      BY <1>0, <2>1, DivMod
    <2>3. L \in 0 .. L /\ ((n - 1) % L) + 1 \in 0 .. L
      BY <1>0, <2>2
    <2> QED
      BY <1>5, <2>3, Zenon
  <1> QED
    BY <1>1, <1>9, <1>10, Zenon DEF L

\* The sum of offsets of a cycle is an integer.
LEMMA CycledTyped ==
  ASSUME NEW c \in Seq(Int), Len(c) > 0, NEW n \in Nat
  PROVE  Cycled(c, n) \in Int
  <1>1. PICK w : /\ Sums(w, [i \in 1 .. n |-> c[((i - 1) % Len(c)) + 1]], n)
                 /\ Cycled(c, n) = w[n]
    BY CycledAreSums
  <1>2. w \in [0 .. n -> Int] /\ n \in 0 .. n
    BY <1>1 DEF Sums
  <1> QED
    BY <1>1, <1>2

\* The sum of no offsets is 0.
LEMMA NoneCycled ==
  ASSUME NEW c \in Seq(Int), Len(c) > 0
  PROVE  Cycled(c, 0) = 0
  <1>1. PICK w : /\ Sums(w, [i \in 1 .. 0 |-> c[((i - 1) % Len(c)) + 1]], 0)
                 /\ Cycled(c, 0) = w[0]
    BY CycledAreSums
  <1> QED
    BY <1>1 DEF Sums

\* Some times and more.
LEMMA TimesMore ==
  ASSUME NEW q \in Nat, NEW a \in Nat, NEW x \in Int
  PROVE  (a + q) * x = a * x + q * x /\ a * x \in Int /\ q * x \in Int
  OBVIOUS

\* From the start of a cycle on the offsets are those of the first.
LEMMA CycledOn ==
  ASSUME NEW c \in Seq(Int), Len(c) > 0, NEW k \in Nat, NEW m \in Nat, m % Len(c) = 0
  PROVE  Cycled(c, k + m) = Cycled(c, k) + Cycled(c, m)
  <1> DEFINE L == Len(c)
             upTo(j) == OffsetsOf(c, j)
             q == m \div L
  <1>1. L \in Nat \ {0} /\ c \in [1 .. L -> Int]
    OBVIOUS
  <1>2. \A j \in 0 .. L : upTo(j) \in Int
    <2>1. PICK v : Sums(v, c, L)
      BY <1>1, SumsExist
    <2>2. v \in [0 .. L -> Int] /\ \A j \in 0 .. L : upTo(j) = v[j]
      BY <2>1, OffsetsAreSums DEF Sums
    <2> QED
      BY <2>2
  <1>3. Cycled(c, k) \in Int /\ Cycled(c, m) \in Int
    BY CycledTyped
  <1>4. q \in Nat /\ m = q * L
    <2>1. PICK x \in Nat \ {0} : x = L
      BY <1>1
    <2>2. m \div x \in Nat /\ m = (m \div x) * x + (m % x) /\ m % x = 0
      BY <2>1, DivMod
    <2>3. PICK z \in Int : z = (m \div x) * x
      BY <2>1, <2>2, OnceMore
    <2>4. m = (m \div x) * x
      BY <2>2, <2>3
    <2> QED
      BY <2>1, <2>2, <2>4, Zenon
  <1>5. \A n \in Nat : n > 0 => Cycled(c, n) = ((n - 1) \div L) * upTo(L) + upTo(((n - 1) % L) + 1)
    BY WholeCycles
  <1> HIDE DEF L, upTo, q
  <1>6. upTo(L) \in Int
    BY <1>1, <1>2
  <1>7. CASE m = 0
    <2>1. Cycled(c, m) = 0 /\ k + m = k
      BY <1>7, NoneCycled
    <2> QED
      BY <1>3, <2>1
  <1>8. CASE k = 0
    <2>1. Cycled(c, k) = 0 /\ k + m = m
      BY <1>8, NoneCycled
    <2> QED
      BY <1>3, <2>1
  <1>9. CASE m # 0 /\ k # 0
    <2>1. PICK h \in Nat : q = h + 1
      <3>1. q # 0
        BY <1>1, <1>4, <1>9
      <3>2. q - 1 \in Nat /\ q = (q - 1) + 1
        BY <1>4, <3>1
      <3> QED
        BY <3>2
    <2>2. Cycled(c, m) = q * upTo(L)
      <3>1. m = h * L + L
        BY <1>1, <1>4, <2>1, OnceMore
      <3>2. PICK z \in Int : z = h * L
        BY <1>1, <2>1, OnceMore
      <3>3. m - 1 = h * L + (L - 1) /\ m - 1 \in Nat /\ L - 1 \in 0 .. L - 1 /\ (L - 1) + 1 = L
        BY <1>1, <1>9, <3>1, <3>2
      <3>4. (m - 1) \div L = h /\ (m - 1) % L = L - 1
        <4>1. PICK e \in Nat, j \in 0 .. L - 1, g \in Int :
                e = m - 1 /\ j = L - 1 /\ g = h /\ e = g * L + j
          BY <2>1, <3>3
        <4>2. e \div L = g
          BY <1>1, <4>1, DivOf
        <4>3. e % L = j
          <5>1. e = (e \div L) * L + (e % L) /\ e % L \in 0 .. L - 1
            BY <1>1, DivMod
          <5>2. PICK w \in Int : w = g * L
            BY <1>1, <2>1, <4>1, OnceMore
          <5>3. e = w + (e % L) /\ e = w + j
            BY <4>1, <4>2, <5>1, <5>2, Zenon
          <5> QED
            BY <1>1, <5>1, <5>2, <5>3
        <4> QED
          BY <4>1, <4>2, <4>3, Zenon
      <3>5. Cycled(c, m) = h * upTo(L) + upTo(L)
        <4>1. m > 0
          BY <1>9
        <4> QED
          BY <1>5, <3>3, <3>4, <4>1, Zenon
      <3> QED
        BY <1>6, <2>1, <3>5, OnceMore, Zenon
    <2> DEFINE a == (k - 1) \div L
               r == (k - 1) % L
    <2>3. k - 1 \in Nat /\ k > 0 /\ k + m > 0 /\ k + m \in Nat
      BY <1>9
    <2>4. a \in Nat /\ r \in 0 .. L - 1 /\ k - 1 = a * L + r
      BY <1>1, <2>3, DivMod
    <2>5. Cycled(c, k) = a * upTo(L) + upTo(r + 1)
      BY <1>5, <2>3, Zenon
    <2> HIDE DEF a, r
    <2>6. (k + m) - 1 = (a + q) * L + r /\ (k + m) - 1 \in Nat /\ a + q \in Int
      <3>1. (a + q) * L = a * L + q * L /\ a * L \in Int
        BY <1>1, <1>4, <2>4, TimesMore
      <3>2. PICK x \in Int, e \in Int : x = a * L /\ e = (a + q) * L
        BY <1>4, <3>1
      <3>3. e = x + m /\ k - 1 = x + r
        BY <1>4, <2>4, <3>1, <3>2, Zenon
      <3>4. (k + m) - 1 = e + r
        BY <1>1, <2>4, <3>2, <3>3
      <3>5. (k + m) - 1 \in Nat /\ a + q \in Int
        BY <1>4, <2>3, <2>4
      <3> QED
        BY <3>2, <3>4, <3>5, Zenon
    <2>7. ((k + m) - 1) \div L = a + q /\ ((k + m) - 1) % L = r
      BY <1>1, <2>4, <2>6, DivOf, ModOf
    <2>8. Cycled(c, k + m) = (a + q) * upTo(L) + upTo(r + 1)
      BY <1>5, <2>3, <2>7, Zenon
    <2>9. (a + q) * upTo(L) = a * upTo(L) + q * upTo(L) /\ a * upTo(L) \in Int /\ q * upTo(L) \in Int
      BY <1>4, <1>6, <2>4, TimesMore
    <2>10. upTo(r + 1) \in Int
      <3>1. r + 1 \in 0 .. L
        BY <1>1, <2>4
      <3> QED
        BY <1>2, <3>1
    <2>11. PICK x \in Int, y \in Int, z \in Int : x = a * upTo(L) /\ y = q * upTo(L) /\ z = upTo(r + 1)
      BY <2>9, <2>10
    <2>12. Cycled(c, k + m) = (x + y) + z /\ Cycled(c, k) = x + z /\ Cycled(c, m) = y
      BY <2>2, <2>5, <2>8, <2>9, <2>11, Zenon
    <2> QED
      BY <2>12
  <1> QED
    BY <1>7, <1>8, <1>9

-----------------------------------------------------------------------------
(* What the decoder is off by                                              *)

\* The offset the next picture goes on from.
OffsetBefore == IF prevPic.mmco5 THEN 0 ELSE prevPic.offset

\* What the next picture takes to be the bits of the last reference.
MsbBefore == IF prevRef.mmco5 THEN 0 ELSE prevRef.msb
LsbBefore == IF prevRef.mmco5 THEN prevRef.top ELSE prevRef.lsb

\* Type 0: the last reference to arrive is counted as the encoder does, but for b.
RefCounted(b) ==
    /\ MsbBefore % 16 = 0 /\ b % 16 = 0 /\ LsbBefore \in 0 .. 15
    /\ MsbBefore + LsbBefore = sender.arrived + b

\* Types 1 and 2: so is the last picture to arrive, the f-th frame, but for the m
\* frames the decoder does not know of.
FrameCounted(m) ==
    \E f \in Nat :
        /\ sender.frames - sender.gap <= f /\ f <= sender.frames
        /\ prevPic.frameNum = f % 4 /\ OffsetBefore % 4 = 0
        /\ OffsetBefore + prevPic.frameNum = f - m

\* What m frames more come to.
Less(m) ==
    IF sender.sps.type = 2 THEN 0 - 2 * m
    ELSE IF sender.sps.type = 1 /\ sender.sps.cycle # <<>> THEN 0 - Cycled(sender.sps.cycle, m)
    ELSE 0

SenderType ==
    [sps : PocSpses, started : BOOLEAN, frames : Nat, wasRef : BOOLEAN, poc : Int, arrived : Int,
     gap : 0 .. 2, missed : SUBSET Nat, base : SUBSET Int]

CountsType ==
    /\ sender \in SenderType
    /\ sender.sps.type = 0 => prevRef \in [mmco5 : BOOLEAN, top : Int, msb : Int, lsb : Int]
    /\ prevPic \in [frameNum : Nat, offset : Nat, mmco5 : BOOLEAN]
    /\ ~sender.wasRef => sender.gap = 0

\* After a flush the decoder knows nothing until a reference arrives,
RefsInv ==
    IF sender.base = {} THEN prevRef = NoPrevRef
    ELSE \E b \in Int : sender.base = {b} /\ (sender.started => RefCounted(b))

\* In type 1 the next picture is not the first of those the decoder knows of,
\* which it would count as the first of all.
PlaceKnown(m) == sender.sps.type = 1 => InCycles(m) /\ (m = 0 \/ NextFrames > m)

\* ... or any picture.
FramesInv ==
    IF sender.missed = {} THEN sender.base = {} /\ prevPic = NoPrevPic
    ELSE \E m \in Nat :
            /\ sender.missed = {m} /\ (sender.started => FrameCounted(m))
            /\ sender.base # {} => sender.base = {Less(m)} /\ PlaceKnown(m)

\* What the decoder is off by is what the encoder says, if that can be told.
CountsInv ==
    /\ CountsType
    /\ drift \subseteq {0}
    /\ sender.base = {} => sender.started
    /\ IF sender.sps.type = 0 THEN RefsInv ELSE FramesInv

\* The parameters of the streams.
LEMMA SpsFields ==
  ASSUME NEW s \in PocSpses
  PROVE  /\ s.type \in {0, 1, 2} /\ s.maxLsb = 16 /\ s.maxFrameNum = 4
         /\ s.nonRef = -1 /\ s.topToBottom = 1 /\ s.cycle \in Cycles
         /\ s.type # 1 => s.cycle = <<>>
  BY DEF PocSpses, SpsOfType, Cycles

\* Cycles are of integers, and no frames come to nothing.
LEMMA CycleFields ==
  ASSUME sender.sps \in PocSpses
  PROVE  /\ sender.sps.cycle \in Seq(Int) /\ Len(sender.sps.cycle) \in Nat
         /\ sender.sps.cycle # <<>> => Len(sender.sps.cycle) > 0
         /\ sender.sps.type # 1 => \A m : InCycles(m)
         /\ Less(0) = 0 /\ InCycles(0)
         /\ \A m \in Nat : Less(m) \in Int
  <1> DEFINE c == sender.sps.cycle
  <1>1. PICK x \in Cycles : x = c
    BY SpsFields
  <1>2. x \in Seq(Int) /\ Len(x) \in 0 .. 3 /\ (x # <<>> => Len(x) > 0)
    <2>1. CASE x = <<>>
      BY <2>1
    <2>2. CASE x = <<2, 4>>
      BY <2>2
    <2>3. CASE x = <<1, 2, 3>>
      BY <2>3
    <2> QED
      BY <2>1, <2>2, <2>3, Zenon DEF Cycles
  <1>3. c \in Seq(Int) /\ Len(c) \in 0 .. 3 /\ (c # <<>> => Len(c) > 0)
    BY <1>1, <1>2, Zenon
  <1>4. sender.sps.type # 1 => \A m : InCycles(m)
    BY SpsFields DEF InCycles
  <1> HIDE DEF c
  <1>5. InCycles(0)
    <2>1. CASE c = <<>>
      BY <2>1 DEF InCycles, c
    <2>2. CASE c # <<>>
      <3>1. PICK L \in 1 .. 3 : L = Len(c)
        BY <1>3, <2>2
      <3>2. 0 % L = 0
        BY <3>1
      <3> QED
        BY <3>1, <3>2, Zenon DEF InCycles, c
    <2> QED
      BY <2>1, <2>2
  <1>6. c # <<>> => Cycled(c, 0) = 0 /\ \A m \in Nat : Cycled(c, m) \in Int
    BY <1>3, NoneCycled, CycledTyped
  <1>7. Less(0) = 0
    <2>1. 0 - 2 * 0 = 0 /\ 0 - 0 = 0
      OBVIOUS
    <2> QED
      BY <1>6, <2>1, Zenon DEF Less, c
  <1>8. ASSUME NEW m \in Nat PROVE Less(m) \in Int
    <2>1. 0 - 2 * m \in Int /\ 0 \in Int /\ \A z \in Int : 0 - z \in Int
      OBVIOUS
    <2> QED
      BY <1>6, <2>1, Zenon DEF Less, c
  <1> QED
    BY <1>3, <1>4, <1>5, <1>7, <1>8 DEF c

\* The upper bits that go with the lower bits s, after those of m + l.
MsbOf(m, l, s) ==
    IF s < l /\ l - s >= 8 THEN m + 16 ELSE IF s > l /\ s - l > 8 THEN m - 16 ELSE m

\* The count c is told by its lower bits, but for b.
Told(m, l, c, b) ==
    /\ MsbOf(m, l, c % 16) + (c % 16) = c + b /\ MsbOf(m, l, c % 16) \in Int
    /\ MsbOf(m, l, c % 16) % 16 = 0 /\ c % 16 \in 0 .. 15

\* It is, a jump of less than half the modulus from the last reference.
LEMMA JumpTold ==
  ASSUME NEW m \in Int, m % 16 = 0, NEW l \in 0 .. 15, NEW b \in Int, b % 16 = 0,
         NEW j \in -7 .. 8, NEW c \in Int, c = m + l - b + j
  PROVE  Told(m, l, c, b)
  <1>1. PICK k \in Int : m = 16 * k
    OBVIOUS
  <1>2. PICK q \in Int : b = 16 * q
    OBVIOUS
  <1>3. PICK t \in Int, s \in 0 .. 15 : c = 16 * t + s /\ s = c % 16
    OBVIOUS
  <1>4. l + j - s = 16 * (t - k + q)
    BY <1>1, <1>2, <1>3
  <1>5. l + j - s \in -22 .. 23
    OBVIOUS
  <1>6. t - k + q \in {-1, 0, 1}
    BY <1>4, <1>5
  <1>11. PICK x : x = MsbOf(m, l, s)
    OBVIOUS
  <1>12. \/ s < l /\ l - s >= 8 /\ x = m + 16
         \/ ~(s < l /\ l - s >= 8) /\ s > l /\ s - l > 8 /\ x = m - 16
         \/ ~(s < l /\ l - s >= 8) /\ ~(s > l /\ s - l > 8) /\ x = m
    BY <1>11, Zenon DEF MsbOf
  <1>7. PICK u \in {-1, 0, 1} : u = t - k + q
    BY <1>6
  <1>8. l + j - s = 16 * u /\ x = m + 16 * u
    BY <1>4, <1>7, <1>12
  <1>9. x + s = c + b
    BY <1>1, <1>2, <1>3, <1>4, <1>7, <1>8
  <1>10. PICK v \in Int : v = k + u
    OBVIOUS
  <1>13. x = 16 * v
    BY <1>1, <1>8, <1>10
  <1>14. x \in Int /\ x % 16 = 0
    BY <1>13
  <1> QED
    BY <1>3, <1>9, <1>11, <1>14 DEF Told

\* From where nothing is known the lower bits tell it but for some b.
LEMMA JumpUnknown ==
  ASSUME NEW c \in Int
  PROVE  \E b \in Int : Told(0, 0, c, b) /\ b % 16 = 0
  <1>1. PICK t \in Int, s \in 0 .. 15 : c = 16 * t + s /\ s = c % 16
    OBVIOUS
  <1>2. MsbOf(0, 0, s) \in {0, -16}
    BY DEF MsbOf
  <1>3. PICK x \in {0, -16} : x = MsbOf(0, 0, s)
    BY <1>2
  <1>4. PICK b \in Int : b = x - 16 * t
    OBVIOUS
  <1>5. b % 16 = 0 /\ x % 16 = 0 /\ x \in Int
    BY <1>4
  <1>6. x + s = c + b
    BY <1>1, <1>4
  <1>7. MsbOf(0, 0, s) + s = c + b /\ MsbOf(0, 0, s) \in Int /\ MsbOf(0, 0, s) % 16 = 0
    BY <1>3, <1>5, <1>6
  <1> QED
    BY <1>1, <1>5, <1>7 DEF Told

\* frame_num tells that frame g is d on from f.
FramesApart(f, g, d) ==
    IF f % 4 > g % 4 THEN g % 4 = (f % 4) + d - 4 ELSE g % 4 = (f % 4) + d

\* It does, if fewer frames than frame_num counts are lost.
LEMMA FramesTold ==
  ASSUME NEW f \in Nat, NEW d \in 0 .. 3
  PROVE  FramesApart(f, f + d, d)
  BY DEF FramesApart

-----------------------------------------------------------------------------
(* A picture: the counts the decoder derives                               *)

\* The code's arithmetic is that of MsbOf.
LEMMA MsbIs ==
  ASSUME NEW s, s.maxLsb = 16, NEW p, p.lsb \in Int, PrevCounts(p).msb \in Int,
         PrevCounts(p).lsb \in Int
  PROVE  Msb(s, p) = MsbOf(PrevCounts(p).msb, PrevCounts(p).lsb, p.lsb)
  <1> DEFINE m == PrevCounts(p).msb
             l == PrevCounts(p).lsb
             c == p.lsb
             A == c < l /\ l - c >= 8
             B == c > l /\ c - l > 8
  <1>1. Msb(s, p) = CASE A -> m + 16 [] B -> m - 16 [] OTHER -> m
    <2>1. 16 \div 2 = 8
      OBVIOUS
    <2>2. Msb(s, p) = CASE c < l /\ l - c >= 16 \div 2 -> m + 16
                        [] c > l /\ c - l > 16 \div 2 -> m - 16
                        [] OTHER -> m
      BY DEF Msb
    <2> QED
      BY <2>1, <2>2, Zenon
  <1>2. MsbOf(m, l, c) = IF A THEN m + 16 ELSE IF B THEN m - 16 ELSE m
    BY Zenon DEF MsbOf
  <1>3. A => ~B
    <2> HIDE DEF m, l, c
    <2>1. m \in Int /\ l \in Int /\ c \in Int
      BY DEF m, l, c
    <2> QED
      BY <2>1
  <1> HIDE DEF m, l, c, A, B
  <1>4. CASE A
    <2>1. Msb(s, p) = m + 16
      BY <1>1, <1>3, <1>4
    <2>2. MsbOf(m, l, c) = m + 16
      BY <1>2, <1>4, Zenon
    <2> QED
      BY <2>1, <2>2, Zenon DEF m, l, c
  <1>5. CASE B /\ ~A
    <2>1. Msb(s, p) = m - 16
      BY <1>1, <1>5
    <2>2. MsbOf(m, l, c) = m - 16
      BY <1>2, <1>5, Zenon
    <2> QED
      BY <2>1, <2>2, Zenon DEF m, l, c
  <1>6. CASE ~A /\ ~B
    <2>1. Msb(s, p) = m
      BY <1>1, <1>6
    <2>2. MsbOf(m, l, c) = m
      BY <1>2, <1>6, Zenon
    <2> QED
      BY <2>1, <2>2, Zenon DEF m, l, c
  <1> QED
    BY <1>4, <1>5, <1>6

\* The picture p the encoder sends, the frame and the order count it has there.
IsShot(p, frames, poc) ==
    /\ {p.idr, p.ref, p.mmco5} \subseteq BOOLEAN /\ (p.idr => p.ref /\ ~p.mmco5)
    /\ p.mmco5 => p.ref
    /\ frames \in Nat /\ poc \in Int
    /\ p.frameNum = frames % 4 /\ (sender.sps.type = 0 => p.lsb = poc % 16)
    /\ p.lsb \in Int /\ p.bottom \in -1 .. 1 /\ p.delta[1] \in Int /\ p.delta[2] \in Int
    /\ p.idr => frames = 0 /\ poc = 0
    /\ ~p.idr => /\ sender.started
                 /\ frames = NextFrames
                 /\ sender.sps.type = 0 /\ sender.base # {} => poc - sender.arrived \in -7 .. 8

\* The counts the encoder gives it are integers.
EncoderInt(p, frames, poc) ==
    LET top == EncoderTop(p, frames, poc)
    IN  /\ top \in Int /\ EncoderBottom(p, top) \in Int
        /\ sender.sps.type = 0 => top = poc

\* The counts of p are those of the encoder, but for b.
OffBy(p, frames, poc, b) ==
    LET top    == EncoderTop(p, frames, poc)
        bottom == EncoderBottom(p, top)
    IN  PicOrderCounts(sender.sps, p) = Counts(top + b, bottom + b)

\* What the decoder is off by is told by p, or has been.
Tells(p, m) ==
    p.idr \/ sender.base # {} \/ ((p.ref \/ sender.sps.type = 2) /\ InCycles(m))

\* What the decoder will remember is off by b, or m frames behind.
Keeps(p, frames, poc, b, m) ==
    IF sender.sps.type = 0
    THEN /\ Msb(sender.sps, p) \in Int /\ Msb(sender.sps, p) % 16 = 0 /\ b % 16 = 0
         /\ p.lsb \in 0 .. 15 /\ Msb(sender.sps, p) + p.lsb = poc + b
    ELSE LET offset == Offset(sender.sps, p)
         IN  /\ offset \in Nat /\ offset % 4 = 0 /\ offset + p.frameNum = frames - m
             /\ Missed(p, frames) = {m} /\ b = Less(m)
             /\ sender.sps.type = 1 /\ Tells(p, m) =>
                   InCycles(m) /\ (p.ref \/ m = 0 \/ frames > m)

\* b is what the decoder is off by already, if that is known.
Right(p, b) ==
    /\ p.idr => b = 0
    /\ ~p.idr /\ sender.base # {} => sender.base = {b}

\* What a picture that arrives tells.
Lands(p, frames, poc, b, m) ==
    /\ EncoderInt(p, frames, poc)
    /\ Keeps(p, frames, poc, b, m) /\ Right(p, b)
    /\ Tells(p, m) => OffBy(p, frames, poc, b)

\* Type 0: the upper bits are told by the lower, from the last reference.
LEMMA RightOfType0 ==
  ASSUME CountsInv, sender.sps.type = 0, NEW p, NEW frames, NEW poc, IsShot(p, frames, poc)
  PROVE  \E b \in Int : Lands(p, frames, poc, b, 0)
  <1> DEFINE s == sender.sps
             m == PrevCounts(p).msb
             l == PrevCounts(p).lsb
             M == Msb(s, p)
  <1>0. s.maxLsb = 16 /\ sender.arrived \in Int
    BY SpsFields DEF CountsInv, CountsType, SenderType
  <1>2. p.lsb = poc % 16 /\ poc \in Int /\ p.bottom \in Int
    BY DEF IsShot
  <1>3. p.idr \in BOOLEAN /\ prevRef.mmco5 \in BOOLEAN
    BY DEF IsShot, CountsInv, CountsType
  <1>4. p.idr => m = 0 /\ l = 0
    BY DEF PrevCounts
  <1>5. ~p.idr => m = MsbBefore /\ l = LsbBefore
    BY <1>3 DEF PrevCounts, MsbBefore, LsbBefore
  <1>10. m \in Int /\ l \in Int
    <2>1. MsbBefore \in Int /\ LsbBefore \in Int
      BY DEF CountsInv, CountsType, MsbBefore, LsbBefore
    <2> HIDE DEF m, l
    <2> QED
      BY <1>3, <1>4, <1>5, <2>1
  <1>1. M = MsbOf(m, l, p.lsb)
    <2>1. p.lsb \in Int
      BY <1>2
    <2> QED
      BY <1>0, <1>10, <2>1, MsbIs
  <1> HIDE DEF m, l, M
  <1>6. \E b \in Int : /\ M + p.lsb = poc + b /\ M \in Int /\ M % 16 = 0 /\ b % 16 = 0
                       /\ p.lsb \in 0 .. 15 /\ Right(p, b)
    <2>1. CASE p.idr
      <3>1. poc = 0 /\ p.lsb = 0
        BY <1>2, <2>1 DEF IsShot
      <3>2. M = 0
        BY <1>1, <1>4, <2>1, <3>1 DEF MsbOf
      <3>3. Right(p, 0)
        BY <2>1 DEF Right
      <3> QED
        BY <3>1, <3>2, <3>3
    <2>2. CASE ~p.idr /\ sender.base # {}
      <3>1. PICK b \in Int : sender.base = {b} /\ RefCounted(b)
        BY <2>2 DEF CountsInv, RefsInv, IsShot
      <3>3. m \in Int /\ m % 16 = 0 /\ b % 16 = 0 /\ l \in 0 .. 15 /\ m + l = sender.arrived + b
        <4>1. MsbBefore \in Int
          BY DEF CountsInv, CountsType, MsbBefore
        <4> QED
          BY <1>5, <2>2, <3>1, <4>1 DEF RefCounted
      <3>4. PICK j \in -7 .. 8 : j = poc - sender.arrived
        BY <2>2 DEF IsShot
      <3>5. poc = m + l - b + j
        BY <1>0, <1>2, <3>3, <3>4
      <3>6. M + p.lsb = poc + b /\ M \in Int /\ M % 16 = 0 /\ p.lsb \in 0 .. 15
        <4>1. PICK x \in Int, y \in 0 .. 15 : x = m /\ y = l
          BY <3>3
        <4>2. Told(x, y, poc, b)
          BY <1>2, <3>3, <3>5, <4>1, JumpTold
        <4> QED
          BY <1>1, <1>2, <4>1, <4>2, Zenon DEF Told
      <3>7. Right(p, b)
        BY <2>2, <3>1 DEF Right
      <3> QED
        BY <3>3, <3>6, <3>7
    <2>3. CASE ~p.idr /\ sender.base = {}
      <3>1. prevRef = NoPrevRef
        BY <2>3 DEF CountsInv, RefsInv
      <3>2. m = 0 /\ l = 0
        BY <1>5, <2>3, <3>1 DEF MsbBefore, LsbBefore, NoPrevRef
      <3>3. \A b : Right(p, b)
        BY <2>3 DEF Right
      <3> QED
        <4>1. PICK b \in Int : Told(0, 0, poc, b) /\ b % 16 = 0
          BY <1>2, JumpUnknown, Zenon
        <4>2. /\ M + p.lsb = poc + b /\ M \in Int /\ M % 16 = 0 /\ b % 16 = 0
              /\ p.lsb \in 0 .. 15 /\ Right(p, b)
          BY <1>1, <1>2, <3>2, <3>3, <4>1, Zenon DEF Told
        <4> QED
          BY <4>2, Zenon
    <2> QED
      BY <1>3, <2>1, <2>2, <2>3
  <1>7. PICK b \in Int : /\ M + p.lsb = poc + b /\ M \in Int /\ M % 16 = 0 /\ b % 16 = 0
                         /\ p.lsb \in 0 .. 15 /\ Right(p, b)
    BY <1>6
  <1>8. Keeps(p, frames, poc, b, 0)
    BY <1>7 DEF Keeps, M
  <1>9. EncoderTop(p, frames, poc) = poc /\ EncoderBottom(p, poc) = poc + p.bottom
    BY DEF EncoderTop, EncoderBottom
  <1>11. EncoderInt(p, frames, poc)
    <2>1. poc + p.bottom \in Int
      BY <1>2
    <2> QED
      BY <1>2, <1>9, <2>1, Zenon DEF EncoderInt
  <1>12. OffBy(p, frames, poc, b)
    <2>1. PicOrderCounts(s, p) = Counts(M + p.lsb, M + p.lsb + p.bottom)
      BY DEF PicOrderCounts, M
    <2>2. M + p.lsb + p.bottom = poc + p.bottom + b
      BY <1>2, <1>7
    <2>3. PicOrderCounts(s, p) = Counts(poc + b, poc + p.bottom + b)
      BY <1>7, <2>1, <2>2, Zenon
    <2> QED
      BY <1>9, <2>3, Zenon DEF OffBy
  <1> QED
    BY <1>7, <1>8, <1>11, <1>12 DEF Lands

\* Types 1 and 2: the number of the frame is told by frame_num, from the last
\* picture that arrived.
LEMMA FramesRight ==
  ASSUME CountsInv, sender.sps.type # 0, NEW p, NEW frames, NEW poc, IsShot(p, frames, poc)
  PROVE  \E b \in Int, m \in Nat : Keeps(p, frames, poc, b, m) /\ Right(p, b)
  <1> DEFINE s == sender.sps
             o == Offset(s, p)
             before == OffsetBefore
  <1>0. /\ s.type \in {1, 2} /\ s.maxFrameNum = 4 /\ before \in Nat /\ prevPic.frameNum \in Nat
        /\ sender.frames \in Nat /\ sender.gap \in 0 .. 2 /\ (~sender.wasRef => sender.gap = 0)
        /\ sender.wasRef \in BOOLEAN /\ s \in PocSpses
    <2>1. sender.sps \in PocSpses /\ prevPic.offset \in Nat
      BY DEF CountsInv, CountsType, SenderType
    <2>2. s.type \in {0, 1, 2} /\ s.maxFrameNum = 4
      BY <2>1, SpsFields
    <2> QED
      BY <2>1, <2>2 DEF CountsInv, CountsType, SenderType, OffsetBefore
  <1>1. p.frameNum = frames % 4 /\ frames \in Nat /\ p.idr \in BOOLEAN /\ p.frameNum \in 0 .. 3
        /\ p.ref \in BOOLEAN
    BY DEF IsShot
  <1>2. p.idr => o = 0
    BY DEF Offset
  <1>3. ~p.idr => o = IF prevPic.frameNum > p.frameNum THEN before + 4 ELSE before
    BY <1>0 DEF Offset, OffsetBefore
  <1>4. Less(0) = 0 /\ InCycles(0) /\ (\A m \in Nat : Less(m) \in Int)
    BY <1>0, CycleFields
  <1>5. \A b, m : Keeps(p, frames, poc, b, m) <=>
                    /\ o \in Nat /\ o % 4 = 0 /\ o + p.frameNum = frames - m
                    /\ Missed(p, frames) = {m} /\ b = Less(m)
                    /\ s.type = 1 /\ Tells(p, m) =>
                          InCycles(m) /\ (p.ref \/ m = 0 \/ frames > m)
    BY DEF Keeps
  <1> HIDE DEF o, before
  <1>6. CASE p.idr
    <2>1. frames = 0 /\ o = 0 /\ p.frameNum = 0
      BY <1>1, <1>2, <1>6 DEF IsShot
    <2>2. Missed(p, frames) = {0}
      BY <1>6 DEF Missed
    <2>3. Keeps(p, frames, poc, 0, 0)
      BY <1>4, <1>5, <2>1, <2>2
    <2>4. Right(p, 0)
      BY <1>6 DEF Right
    <2> QED
      BY <2>3, <2>4
  <1>7. CASE ~p.idr /\ sender.missed # {}
    <2>1. PICK m \in Nat :
            /\ sender.missed = {m} /\ (sender.started => FrameCounted(m))
            /\ sender.base # {} => sender.base = {Less(m)} /\ PlaceKnown(m)
      BY <1>0, <1>7 DEF CountsInv, FramesInv
    <2>2. PICK f \in Nat :
            /\ sender.frames - sender.gap <= f /\ f <= sender.frames
            /\ prevPic.frameNum = f % 4 /\ before % 4 = 0
            /\ before + prevPic.frameNum = f - m
      BY <1>7, <2>1 DEF FrameCounted, IsShot, before
    <2>3. frames = NextFrames
          /\ frames = IF sender.wasRef THEN sender.frames + 1 ELSE sender.frames
      BY <1>7 DEF IsShot, NextFrames
    <2>4. PICK d \in 0 .. 3 : frames = f + d
      <3>1. PICK n \in Nat, g \in 0 .. 2 : n = sender.frames /\ g = sender.gap
        BY <1>0
      <3>2. n - g <= f /\ f <= n
        BY <2>2, <3>1, Zenon
      <3>3. (frames = n + 1 \/ frames = n) /\ (~sender.wasRef => g = 0 /\ frames = n)
        BY <1>0, <2>3, <3>1
      <3>4. frames - f \in 0 .. 3 /\ frames = f + (frames - f)
        BY <3>2, <3>3
      <3> QED
        BY <3>4
    <2>5. FramesApart(f, frames, d)
      <3>1. FramesApart(f, f + d, d)
        BY FramesTold, Zenon
      <3> QED
        BY <2>4, <3>1, Zenon
    <2>6. o \in Nat /\ o % 4 = 0 /\ o + p.frameNum = before + prevPic.frameNum + d
      <3>1. PICK x \in Nat, y \in 0 .. 3, z \in 0 .. 3 :
              x = before /\ y = p.frameNum /\ z = prevPic.frameNum
        BY <1>0, <1>1, <2>2
      <3>2. x % 4 = 0 /\ o = IF z > y THEN x + 4 ELSE x
        BY <1>3, <1>7, <2>2, <3>1, Zenon
      <3>3. IF z > y THEN y = z + d - 4 ELSE y = z + d
        <4>1. z = f % 4 /\ y = frames % 4
          BY <1>1, <2>2, <3>1, Zenon
        <4> QED
          BY <2>5, <4>1, Zenon DEF FramesApart
      <3>4. (x + 4) % 4 = 0 /\ x + 4 \in Nat
        BY <3>2
      <3>5. PICK w \in Nat : w = o /\ w = IF z > y THEN x + 4 ELSE x
        BY <3>2, <3>4
      <3>6. w % 4 = 0
        BY <3>2, <3>4, <3>5
      <3>7. w + y = x + z + d
        BY <3>3, <3>5
      <3> QED
        BY <3>1, <3>5, <3>6, <3>7, Zenon
    <2>7. o + p.frameNum = frames - m
      <3>1. PICK x \in Nat, z \in Nat : x = before /\ z = prevPic.frameNum
        BY <1>0
      <3>2. o + p.frameNum = x + z + d /\ x + z = f - m
        BY <2>2, <2>6, <3>1, Zenon
      <3> QED
        BY <2>4, <3>1, <3>2
    <2>8. Missed(p, frames) = {m}
      BY <1>7, <2>1 DEF Missed
    <2>9. s.type = 1 /\ Tells(p, m) => InCycles(m) /\ (p.ref \/ m = 0 \/ frames > m)
      BY <1>7, <2>1, <2>3 DEF Tells, PlaceKnown
    <2>10. Keeps(p, frames, poc, Less(m), m)
      BY <1>5, <2>6, <2>7, <2>8, <2>9
    <2>11. Right(p, Less(m))
      BY <1>7, <2>1 DEF Right
    <2> QED
      BY <1>4, <2>10, <2>11
  <1>8. CASE ~p.idr /\ sender.missed = {}
    <2>1. sender.base = {} /\ prevPic = NoPrevPic
      BY <1>0, <1>8 DEF CountsInv, FramesInv
    <2>2. prevPic.frameNum = 0 /\ before = 0
      BY <2>1 DEF NoPrevPic, OffsetBefore, before
    <2>3. o = 0
      BY <1>1, <1>3, <1>8, <2>2
    <2>4. PICK m \in Nat : m = frames - (frames % 4)
      BY <1>1
    <2>5. Missed(p, frames) = {m}
      BY <1>0, <1>8, <2>4 DEF Missed
    <2>6. o + p.frameNum = frames - m
      BY <1>1, <2>3, <2>4
    <2>7. s.type = 1 /\ Tells(p, m) => InCycles(m) /\ p.ref
      BY <1>8, <2>1 DEF Tells
    <2>8. Keeps(p, frames, poc, Less(m), m)
      BY <1>5, <2>3, <2>5, <2>6, <2>7
    <2>9. Right(p, Less(m))
      BY <1>8, <2>1 DEF Right
    <2> QED
      BY <1>4, <2>8, <2>9
  <1> QED
    BY <1>1, <1>6, <1>7, <1>8

\* Type 2: counts are frames, twice.
LEMMA RightOfType2 ==
  ASSUME CountsInv, sender.sps.type = 2, NEW p, NEW frames, NEW poc, IsShot(p, frames, poc)
  PROVE  \E b \in Int, m \in Nat : Lands(p, frames, poc, b, m)
  <1> DEFINE s == sender.sps
             o == Offset(s, p)
  <1>1. PICK b \in Int, m \in Nat : Keeps(p, frames, poc, b, m) /\ Right(p, b)
    BY FramesRight
  <1>2. o \in Nat /\ o + p.frameNum = frames - m /\ b = 0 - 2 * m
        /\ p.frameNum \in Nat /\ frames \in Nat
    <2>1. o \in Nat /\ o + p.frameNum = frames - m /\ b = Less(m)
      BY <1>1 DEF Keeps
    <2>2. Less(m) = 0 - 2 * m
      BY Zenon DEF Less
    <2>3. p.frameNum \in Nat /\ frames \in Nat
      BY DEF IsShot
    <2> QED
      BY <2>1, <2>2, <2>3
  <1>3. p.idr \in BOOLEAN /\ p.ref \in BOOLEAN /\ (p.idr => p.ref /\ frames = 0 /\ b = 0)
    BY <1>1 DEF IsShot, Right
  <1>4. PicOrderCounts(s, p) =
          LET count == CASE p.idr  -> 0
                         [] ~p.idr /\ p.ref -> 2 * (o + p.frameNum)
                         [] OTHER -> 2 * (o + p.frameNum) - 1
          IN  Counts(count, count)
    BY DEF PicOrderCounts
  <1>5. EncoderTop(p, frames, poc) = IF p.ref \/ p.idr THEN 2 * frames ELSE 2 * frames - 1
    BY DEF EncoderTop
  <1>6. \A t : EncoderBottom(p, t) = t
    BY DEF EncoderBottom
  <1> HIDE DEF o
  <1>7. PICK t \in Int : t = EncoderTop(p, frames, poc)
    BY <1>2, <1>5
  <1>8. PicOrderCounts(s, p) = Counts(t + b, t + b)
    <2>1. CASE p.idr
      <3>1. t + b = 0
        BY <1>3, <1>5, <1>7, <2>1
      <3> QED
        BY <1>4, <2>1, <3>1
    <2>2. CASE ~p.idr /\ p.ref
      <3>1. t + b = 2 * (o + p.frameNum)
        BY <1>2, <1>5, <1>7, <2>2
      <3> QED
        BY <1>4, <2>2, <3>1
    <2>3. CASE ~p.idr /\ ~p.ref
      <3>1. t + b = 2 * (o + p.frameNum) - 1
        BY <1>2, <1>5, <1>7, <2>3
      <3> QED
        BY <1>4, <2>3, <3>1
    <2> QED
      BY <1>3, <2>1, <2>2, <2>3
  <1>9. OffBy(p, frames, poc, b)
    BY <1>6, <1>7, <1>8 DEF OffBy
  <1>10. EncoderInt(p, frames, poc)
    BY <1>6, <1>7 DEF EncoderInt
  <1> QED
    BY <1>1, <1>9, <1>10 DEF Lands

\* Type 1: counts are the sums of the cycle, whole rounds and a part.
LEMMA RightOfType1 ==
  ASSUME CountsInv, sender.sps.type = 1, NEW p, NEW frames, NEW poc, IsShot(p, frames, poc)
  PROVE  \E b \in Int, m \in Nat : Lands(p, frames, poc, b, m)
  <1> DEFINE s == sender.sps
             c == s.cycle
  <1>0. /\ s.nonRef = -1 /\ s.topToBottom = 1 /\ s \in PocSpses
    BY SpsFields DEF CountsInv, CountsType, SenderType
  <1>1. PICK b \in Int, m \in Nat : Keeps(p, frames, poc, b, m) /\ Right(p, b)
    BY FramesRight
  <1>2. /\ Offset(s, p) + p.frameNum = frames - m /\ Offset(s, p) \in Nat /\ b = Less(m)
        /\ Tells(p, m) => InCycles(m) /\ (p.ref \/ m = 0 \/ frames > m)
    BY <1>1 DEF Keeps
  <1>3. frames \in Nat /\ p.ref \in BOOLEAN /\ p.delta[1] \in Int /\ p.delta[2] \in Int
        /\ p.frameNum \in Nat
    BY DEF IsShot
  <1>4. c \in Seq(Int) /\ Len(c) \in Nat /\ (c # <<>> => Len(c) > 0)
    BY <1>0, CycleFields
  <1> DEFINE known == frames - m
             n == IF ~p.ref /\ frames > 0 THEN frames - 1 ELSE frames
             k == IF ~p.ref /\ known > 0 THEN known - 1 ELSE known
             sumTo(x) == IF c = <<>> THEN 0 ELSE Cycled(c, x)
             less == IF p.ref THEN 0 ELSE -1
  <1>5. known \in Nat /\ n \in Nat /\ k \in Nat /\ less \in Int
    BY <1>2, <1>3
  <1>6. \A x \in Nat : sumTo(x) \in Int
    BY <1>4, CycledTyped
  <1>7. Expected(s, p) = sumTo(k) + less
    <2>1. CASE c = <<>>
      <3>1. AbsFrameNum(s, p) = 0
        BY <2>1 DEF AbsFrameNum
      <3> QED
        BY <1>0, <2>1, <3>1 DEF Expected
    <2>2. CASE c # <<>>
      <3>1. AbsFrameNum(s, p) = k
        BY <1>2, <2>2, Zenon DEF AbsFrameNum
      <3>2. Expected(s, p) = (IF k = 0 THEN 0
                              ELSE ((k - 1) \div Len(c)) * OffsetsOf(c, Len(c))
                                   + OffsetsOf(c, ((k - 1) % Len(c)) + 1))
                             + (IF p.ref THEN 0 ELSE -1)
        BY <1>0, <3>1, Zenon DEF Expected
      <3>3. Cycled(c, k) = IF k = 0 THEN 0
                           ELSE ((k - 1) \div Len(c)) * OffsetsOf(c, Len(c))
                                + OffsetsOf(c, ((k - 1) % Len(c)) + 1)
        <4> HIDE DEF k, c
        <4>1. CASE k = 0
          BY <1>4, <2>2, <4>1, NoneCycled, Zenon
        <4>2. CASE k # 0
          <5>1. k > 0
            BY <1>5, <4>2
          <5> QED
            BY <1>4, <1>5, <2>2, <4>2, <5>1, WholeCycles, Zenon
        <4> QED
          BY <4>1, <4>2
      <3> QED
        BY <2>2, <3>2, <3>3, Zenon
    <2> QED
      BY <2>1, <2>2
  <1>8. EncoderTop(p, frames, poc) = p.delta[1] + less + sumTo(n)
    <2>1. CASE c = <<>>
      BY <1>0, <2>1 DEF EncoderTop
    <2>2. CASE c # <<>>
      <3>1. EncoderTop(p, frames, poc) = p.delta[1] + (IF p.ref THEN 0 ELSE s.nonRef)
                                         + (IF c = <<>> THEN 0 ELSE Cycled(c, n))
        BY DEF EncoderTop
      <3> HIDE DEF c, n
      <3> QED
        BY <1>0, <2>2, <3>1, Zenon
    <2> QED
      BY <2>1, <2>2
  <1>9. \A t : EncoderBottom(p, t) = t + 1 + p.delta[2]
    BY <1>0 DEF EncoderBottom
  <1>10. Tells(p, m) => sumTo(n) = sumTo(k) + sumTo(m) /\ b = 0 - sumTo(m)
    <2> SUFFICES ASSUME Tells(p, m)
                 PROVE  sumTo(n) = sumTo(k) + sumTo(m) /\ b = 0 - sumTo(m)
      OBVIOUS
    <2>1. n = k + m
      BY <1>2, <1>3, <1>5
    <2>2. InCycles(m)
      BY <1>2
    <2> HIDE DEF n, k
    <2>3. CASE c = <<>>
      <3>1. b = 0
        <4>1. sender.sps.type # 2
          OBVIOUS
        <4> QED
          BY <1>2, <2>3, <4>1, Zenon DEF Less
      <3>2. sumTo(n) = 0 /\ sumTo(k) = 0 /\ sumTo(m) = 0
        BY <2>3, Zenon
      <3> QED
        BY <3>1, <3>2
    <2>4. CASE c # <<>>
      <3>1. m % Len(c) = 0
        BY <2>2, <2>4 DEF InCycles
      <3>2. Cycled(c, k + m) = Cycled(c, k) + Cycled(c, m)
        BY <1>4, <1>5, <2>4, <3>1, CycledOn, Zenon
      <3>3. b = 0 - Cycled(c, m)
        <4>1. sender.sps.type # 2
          OBVIOUS
        <4> QED
          BY <1>2, <2>4, <4>1, Zenon DEF Less
      <3> QED
        BY <2>1, <2>4, <3>2, <3>3, Zenon
    <2> QED
      BY <2>3, <2>4
  <1> HIDE DEF n, k, sumTo, less, known, c
  <1>11. PICK t \in Int : t = EncoderTop(p, frames, poc)
    <2>1. sumTo(n) \in Int
      BY <1>5, <1>6
    <2> QED
      BY <1>3, <1>5, <1>8, <2>1
  <1>12. EncoderInt(p, frames, poc)
    BY <1>3, <1>9, <1>11 DEF EncoderInt
  <1>13. Tells(p, m) => OffBy(p, frames, poc, b)
    <2> SUFFICES ASSUME Tells(p, m)
                 PROVE  OffBy(p, frames, poc, b)
      OBVIOUS
    <2>1. PICK x \in Int, y \in Int : x = sumTo(k) /\ y = sumTo(m)
      BY <1>5, <1>6
    <2>2. t = p.delta[1] + less + (x + y) /\ b = 0 - y /\ Expected(s, p) = x + less
      BY <1>7, <1>8, <1>10, <1>11, <2>1, Zenon
    <2>3. Expected(s, p) + p.delta[1] = t + b
      BY <1>3, <1>5, <2>1, <2>2
    <2>4. PicOrderCounts(s, p) = Counts(t + b, t + b + 1 + p.delta[2])
      BY <1>0, <2>3 DEF PicOrderCounts
    <2>5. t + b + 1 + p.delta[2] = t + 1 + p.delta[2] + b
      BY <1>3
    <2> QED
      BY <1>9, <1>11, <2>4, <2>5, Zenon DEF OffBy
  <1> QED
    BY <1>1, <1>12, <1>13 DEF Lands

\* Whatever the type, the counts of a picture are off by what they were before.
LEMMA RightOfAll ==
  ASSUME CountsInv, NEW p, NEW frames, NEW poc, IsShot(p, frames, poc)
  PROVE  \E b \in Int, m \in Nat : Lands(p, frames, poc, b, m)
  <1>1. sender.sps.type \in {0, 1, 2}
    BY SpsFields DEF CountsInv, CountsType, SenderType
  <1>2. CASE sender.sps.type = 0
    <2>1. PICK b \in Int : Lands(p, frames, poc, b, 0)
      BY <1>2, RightOfType0
    <2> QED
      BY <2>1
  <1>3. CASE sender.sps.type = 1
    BY <1>3, RightOfType1, Zenon
  <1>4. CASE sender.sps.type = 2
    BY <1>4, RightOfType2, Zenon
  <1> QED
    BY <1>1, <1>2, <1>3, <1>4

\* What the step of a picture does to the state, with b for what it is off by.
Arrived(p, frames, poc, b, m) ==
    LET top    == EncoderTop(p, frames, poc)
        bottom == EncoderBottom(p, top)
        after  == IF p.mmco5 THEN top - Smaller(top, bottom)
                  ELSE IF p.ref THEN top ELSE sender.poc
        base   == IF Tells(p, m) THEN {b} ELSE {}
    IN  /\ sender' = [sender EXCEPT !.started = TRUE, !.frames = IF p.mmco5 THEN 0 ELSE frames,
                                    !.wasRef = p.ref, !.poc = after, !.gap = 0,
                                    !.arrived = IF p.ref THEN after ELSE @,
                                    !.missed = IF p.mmco5 THEN {0} ELSE Missed(p, frames),
                                    !.base = IF p.mmco5 THEN {0} ELSE base]
        /\ drift' \subseteq {0}
        /\ Remember(sender.sps, p)

\* Every picture the encoder sends is one of them.
LEMMA PictureArrives ==
  ASSUME CountsInv, Picture
  PROVE  \E p, frames, poc : \E b \in Int, m \in Nat :
            /\ IsShot(p, frames, poc)
            /\ Lands(p, frames, poc, b, m)
            /\ Arrived(p, frames, poc, b, m)
  <1>1. PICK idr, ref, mmco5 \in BOOLEAN, jump \in Jumps, bottom \in {-1, 0, 1},
             delta \in {<<0, 0>>, <<1, 2>>} :
          /\ idr => ref /\ ~mmco5 /\ (sender.sps.type = 0 => jump = 0 /\ bottom >= 0)
          /\ mmco5 => ref
          /\ idr \/ sender.started
          /\ sender.sps.type # 0 => jump = 0 /\ bottom = 0
          /\ Shoot(idr, ref, mmco5, jump, bottom, delta)
    BY DEF Picture
  <1> DEFINE frames == IF idr THEN 0 ELSE NextFrames
             poc    == IF idr THEN jump ELSE sender.poc + jump
             p      == Shot(idr, ref, mmco5, frames, poc, bottom, delta)
             top    == EncoderTop(p, frames, poc)
             bot    == EncoderBottom(p, top)
             after  == AfterShot(p, frames, top, bot)
             counts == PicOrderCounts(sender.sps, p)
             off    == <<counts.top - top, counts.bottom - bot>>
             missed == Missed(p, frames)
             base   == BaseAfter(p, missed, off[1])
  <1>2. /\ Tellable(p, poc)
        /\ sender' = [sender EXCEPT !.started = TRUE, !.frames = after.frames, !.wasRef = ref,
                                    !.poc = after.poc, !.gap = 0,
                                    !.arrived = IF ref THEN after.poc ELSE @,
                                    !.missed = IF mmco5 THEN {0} ELSE missed,
                                    !.base = IF mmco5 THEN {0} ELSE base]
        /\ drift' = IF base = {} THEN {} ELSE {off[1] - Min(base), off[2] - Min(base)}
        /\ Remember(sender.sps, p)
    BY <1>1, Zenon DEF Shoot
  <1>3. /\ sender.sps.type \in {0, 1, 2} /\ sender.sps.maxLsb = 16 /\ sender.sps.maxFrameNum = 4
        /\ sender.frames \in Nat /\ sender.poc \in Int /\ sender.base \in SUBSET Int
        /\ sender.sps \in PocSpses
    BY SpsFields DEF CountsInv, CountsType, SenderType
  <1>4. /\ p.idr = idr /\ p.ref = ref /\ p.mmco5 = mmco5 /\ p.bottom = bottom /\ p.delta = delta
        /\ p.frameNum = frames % 4
        /\ p.lsb = IF sender.sps.type = 0 THEN poc % 16 ELSE 0
    BY <1>3 DEF Shot
  <1>5. /\ jump \in Int /\ bottom \in -1 .. 1 /\ delta[1] \in Int /\ delta[2] \in Int
    BY DEF Jumps
  <1>6. frames \in Nat /\ poc \in Int /\ (idr => frames = 0 /\ poc = 0)
    BY <1>1, <1>3, <1>5 DEF NextFrames
  <1>7. ~idr => /\ sender.started /\ frames = NextFrames
                /\ sender.sps.type = 0 /\ sender.base # {} => poc - sender.arrived \in -7 .. 8
    <2>1. 1 - (16 \div 2) = -7 /\ 16 \div 2 = 8
      OBVIOUS
    <2> HIDE DEF poc, p
    <2>2. ~idr /\ sender.sps.type = 0 /\ sender.base # {} =>
             poc - sender.arrived \in 1 - (16 \div 2) .. 16 \div 2
      BY <1>2, <1>3, <1>4, Zenon DEF Tellable
    <2> QED
      BY <1>1, <2>1, <2>2
  <1>8. IsShot(p, frames, poc)
    <2> HIDE DEF frames, poc, p
    <2>1. p.lsb \in Int
      BY <1>4, <1>6
    <2> QED
      BY <1>1, <1>4, <1>5, <1>6, <1>7, <2>1 DEF IsShot
  <1>9. PICK b \in Int, m \in Nat : Lands(p, frames, poc, b, m)
    <2> HIDE DEF frames, poc, p
    <2> QED
      BY <1>8, RightOfAll, Zenon
  <1>10. /\ top \in Int /\ bot \in Int /\ Right(p, b)
         /\ Tells(p, m) => counts = Counts(top + b, bot + b)
    BY <1>9 DEF Lands, EncoderInt, OffBy
  <1>12. (\A x \in missed : InCycles(x)) <=> InCycles(m)
    <2>1. CASE sender.sps.type = 0
      BY <1>3, <2>1, CycleFields
    <2>2. CASE sender.sps.type # 0
      <3>1. missed = {m}
        BY <1>9, <2>2 DEF Lands, Keeps
      <3> QED
        BY <3>1
    <2> QED
      BY <2>1, <2>2
  <1> HIDE DEF frames, poc, p, top, bot, counts, missed
  <1>13. Tells(p, m) => off = <<b, b>>
    <2> SUFFICES ASSUME Tells(p, m)
                 PROVE  off = <<b, b>>
      OBVIOUS
    <2>1. counts.top = top + b /\ counts.bottom = bot + b
      BY <1>10 DEF Counts
    <2> QED
      BY <1>10, <2>1
  <1> HIDE DEF off
  <1>14. base = IF Tells(p, m) THEN {b} ELSE {}
    <2> DEFINE told == (ref \/ sender.sps.type = 2) /\ (\A x \in missed : InCycles(x))
    <2>1. base = CASE idr -> {0}
                   [] ~idr /\ sender.base = {} /\ told -> {off[1]}
                   [] OTHER -> sender.base
      BY <1>4 DEF BaseAfter
    <2>2. told <=> (p.ref \/ sender.sps.type = 2) /\ InCycles(m)
      BY <1>4, <1>12
    <2> HIDE DEF told, base
    <2>3. Tells(p, m) <=> idr \/ sender.base # {} \/ told
      BY <1>4, <2>2 DEF Tells
    <2>4. CASE idr
      BY <1>4, <1>10, <2>1, <2>3, <2>4 DEF Right
    <2>5. CASE ~idr /\ sender.base # {}
      BY <1>4, <1>10, <2>1, <2>3, <2>5 DEF Right
    <2>6. CASE ~idr /\ sender.base = {} /\ told
      BY <1>13, <2>1, <2>3, <2>6
    <2>7. CASE ~idr /\ sender.base = {} /\ ~told
      BY <2>1, <2>3, <2>7
    <2> QED
      BY <2>4, <2>5, <2>6, <2>7
  <1> HIDE DEF base
  <1>15. drift' \subseteq {0}
    <2>1. CASE ~Tells(p, m)
      BY <1>2, <1>14, <2>1
    <2>2. CASE Tells(p, m)
      <3>1. Min({b}) = b
        BY DEF Min
      <3>2. drift' = {b - b, b - b}
        <4>1. off = <<b, b>> /\ base = {b} /\ base # {}
          BY <1>13, <1>14, <2>2
        <4>2. off[1] = b /\ off[2] = b
          BY <4>1
        <4>3. drift' = {off[1] - Min(base), off[2] - Min(base)}
          BY <1>2, <4>1, Zenon
        <4> QED
          BY <3>1, <4>1, <4>2, <4>3, Zenon
      <3> QED
        BY <3>2
    <2> QED
      BY <2>1, <2>2
  <1> DEFINE next == IF p.mmco5 THEN top - Smaller(top, bot) ELSE IF p.ref THEN top ELSE sender.poc
  <1>16. after.frames = (IF p.mmco5 THEN 0 ELSE frames) /\ after.poc = next
    BY DEF AfterShot
  <1> HIDE DEF after
  <1>17. Arrived(p, frames, poc, b, m)
    <2>1. sender' = [sender EXCEPT !.started = TRUE, !.frames = IF p.mmco5 THEN 0 ELSE frames,
                                   !.wasRef = p.ref, !.poc = next, !.gap = 0,
                                   !.arrived = IF p.ref THEN next ELSE @,
                                   !.missed = IF p.mmco5 THEN {0} ELSE Missed(p, frames),
                                   !.base = IF p.mmco5 THEN {0}
                                            ELSE IF Tells(p, m) THEN {b} ELSE {}]
      <3>1. missed = Missed(p, frames)
        BY DEF missed
      <3> HIDE DEF next
      <3> QED
        BY <1>2, <1>4, <1>14, <1>16, <3>1, Zenon
    <2>2. drift' \subseteq {0} /\ Remember(sender.sps, p)
      BY <1>2, <1>15
    <2> USE DEF top, bot
    <2> QED
      BY <2>1, <2>2 DEF Arrived
  <1> QED
    BY <1>8, <1>9, <1>17

-----------------------------------------------------------------------------
(* The steps of the encoder, and of the decoder's memory                   *)

\* What the encoder goes on with, and that it is of its type.
LEMMA SenderAfter ==
  ASSUME CountsInv, NEW p, NEW frames, NEW poc, NEW b \in Int, NEW m \in Nat,
         IsShot(p, frames, poc), Lands(p, frames, poc, b, m), Arrived(p, frames, poc, b, m)
  PROVE  LET top    == EncoderTop(p, frames, poc)
             bottom == EncoderBottom(p, top)
             after  == IF p.mmco5 THEN top - Smaller(top, bottom)
                       ELSE IF p.ref THEN top ELSE sender.poc
         IN  /\ sender' \in SenderType /\ sender'.started = TRUE /\ sender'.sps = sender.sps
             /\ sender'.frames = IF p.mmco5 THEN 0 ELSE frames
             /\ sender'.wasRef = p.ref /\ sender'.gap = 0
             /\ sender'.arrived = IF p.ref THEN after ELSE sender.arrived
             /\ sender'.missed = IF p.mmco5 THEN {0} ELSE Missed(p, frames)
             /\ sender'.base = IF p.mmco5 THEN {0} ELSE IF Tells(p, m) THEN {b} ELSE {}
  <1> DEFINE top    == EncoderTop(p, frames, poc)
             bottom == EncoderBottom(p, top)
             after  == IF p.mmco5 THEN top - Smaller(top, bottom)
                       ELSE IF p.ref THEN top ELSE sender.poc
             fs == IF p.mmco5 THEN 0 ELSE frames
             ar == IF p.ref THEN after ELSE sender.arrived
             ms == IF p.mmco5 THEN {0} ELSE Missed(p, frames)
             bs == IF p.mmco5 THEN {0} ELSE IF Tells(p, m) THEN {b} ELSE {}
  <1>1. sender \in SenderType
    BY DEF CountsInv, CountsType
  <1>2. p.ref \in BOOLEAN /\ p.mmco5 \in BOOLEAN /\ p.idr \in BOOLEAN /\ frames \in Nat
    BY DEF IsShot
  <1>3. top \in Int /\ bottom \in Int
    BY DEF Lands, EncoderInt
  <1>4. after \in Int
    <2> HIDE DEF top, bottom
    <2>1. top - Smaller(top, bottom) \in Int
      BY <1>3 DEF Smaller
    <2> QED
      BY <1>1, <1>3, <2>1 DEF SenderType
  <1>5. Missed(p, frames) \in SUBSET Nat
    <2>1. sender.sps.maxFrameNum = 4 /\ sender.missed \in SUBSET Nat
      BY <1>1, SpsFields DEF SenderType
    <2>2. frames - (frames % 4) \in Nat
      BY <1>2
    <2> QED
      BY <1>2, <2>1, <2>2 DEF Missed
  <1>6. sender' = [sender EXCEPT !.started = TRUE, !.frames = fs, !.wasRef = p.ref, !.poc = after,
                                 !.gap = 0, !.arrived = ar, !.missed = ms, !.base = bs]
    BY <1>1 DEF Arrived, SenderType
  <1>7. fs \in Nat /\ ar \in Int /\ ms \in SUBSET Nat /\ bs \in SUBSET Int
    <2> HIDE DEF after
    <2> QED
      BY <1>1, <1>2, <1>4, <1>5 DEF SenderType
  <1> HIDE DEF after, fs, ar, ms, bs
  <1>8. sender' \in SenderType /\ sender'.started = TRUE /\ sender'.sps = sender.sps
        /\ sender'.frames = fs /\ sender'.wasRef = p.ref /\ sender'.gap = 0
        /\ sender'.arrived = ar /\ sender'.missed = ms /\ sender'.base = bs
    <2>1. PICK ref \in BOOLEAN : ref = p.ref
      BY <1>2
    <2>2. sender' = [sender EXCEPT !.started = TRUE, !.frames = fs, !.wasRef = ref, !.poc = after,
                                   !.gap = 0, !.arrived = ar, !.missed = ms, !.base = bs]
      BY <1>6, <2>1, Zenon
    <2>3. 0 \in 0 .. 2
      OBVIOUS
    <2> QED
      BY <1>1, <1>4, <1>7, <2>1, <2>2, <2>3 DEF SenderType
  <1> QED
    BY <1>8, Zenon DEF after, fs, ar, ms, bs

\* Type 0: a reference is remembered as the next picture needs it, after operation
\* 5 from zero.
LEMMA RememberedRef ==
  ASSUME CountsInv, NEW p, NEW frames, NEW poc, NEW b \in Int, NEW m \in Nat,
         IsShot(p, frames, poc), Lands(p, frames, poc, b, m), Arrived(p, frames, poc, b, m),
         OffBy(p, frames, poc, b), sender.sps.type = 0, p.ref
  PROVE  /\ RefCounted(IF p.mmco5 THEN 0 ELSE b)'
         /\ prevRef' \in [mmco5 : BOOLEAN, top : Int, msb : Int, lsb : Int]
  <1> DEFINE s == sender.sps
             top == EncoderTop(p, frames, poc)
             bottom == EncoderBottom(p, top)
             counts == PicOrderCounts(s, p)
             msb == Msb(s, p)
  <1>1. /\ top = poc /\ top \in Int /\ bottom = top + p.bottom /\ bottom \in Int
        /\ counts = Counts(top + b, bottom + b)
    BY DEF Lands, EncoderInt, OffBy, EncoderBottom
  <1>2. msb \in Int /\ msb % 16 = 0 /\ b % 16 = 0 /\ p.lsb \in 0 .. 15 /\ msb + p.lsb = poc + b
    BY DEF Lands, Keeps
  <1>3. p.bottom \in -1 .. 1 /\ p.mmco5 \in BOOLEAN
    BY DEF IsShot
  <1>4. prevRef' = [mmco5 |-> p.mmco5,
                    top   |-> IF p.mmco5 THEN AfterMmco5(counts).top ELSE counts.top,
                    msb   |-> msb, lsb |-> p.lsb]
    BY DEF Arrived, Remember
  <1>5. sender'.arrived = IF p.mmco5 THEN top - Smaller(top, bottom) ELSE top
    BY SenderAfter
  <1> HIDE DEF top, bottom, counts, msb
  <1>8. Smaller(top, bottom) \in Int /\ Smaller(top + b, bottom + b) \in Int
    BY <1>1 DEF Smaller
  <1>9. counts.top \in Int /\ AfterMmco5(counts).top \in Int
    BY <1>1, <1>8 DEF AfterMmco5, Counts
  <1>10. prevRef' \in [mmco5 : BOOLEAN, top : Int, msb : Int, lsb : Int]
    BY <1>2, <1>3, <1>4, <1>9
  <1>6. CASE p.mmco5
    <2>1. MsbBefore' = 0 /\ LsbBefore' = AfterMmco5(counts).top
      BY <1>4, <1>6 DEF MsbBefore, LsbBefore
    <2>2. AfterMmco5(counts).top = top - Smaller(top, bottom)
      BY <1>1 DEF AfterMmco5, Counts, Smaller
    <2>3. top - Smaller(top, bottom) \in 0 .. 15
      BY <1>1, <1>3 DEF Smaller
    <2>4. sender'.arrived = top - Smaller(top, bottom)
      BY <1>5, <1>6
    <2> QED
      BY <1>6, <1>10, <2>1, <2>2, <2>3, <2>4 DEF RefCounted
  <1>7. CASE ~p.mmco5
    <2>1. MsbBefore' = msb /\ LsbBefore' = p.lsb
      BY <1>4, <1>7 DEF MsbBefore, LsbBefore
    <2>2. sender'.arrived = poc
      BY <1>1, <1>5, <1>7
    <2> QED
      BY <1>2, <1>7, <1>10, <2>1, <2>2 DEF RefCounted
  <1> QED
    BY <1>3, <1>6, <1>7

\* Types 1 and 2: so is every picture.
LEMMA RememberedFrame ==
  ASSUME CountsInv, NEW p, NEW frames, NEW poc, NEW b \in Int, NEW m \in Nat,
         IsShot(p, frames, poc), Lands(p, frames, poc, b, m), Arrived(p, frames, poc, b, m),
         sender.sps.type # 0
  PROVE  /\ FrameCounted(IF p.mmco5 THEN 0 ELSE m)'
         /\ prevPic' \in [frameNum : Nat, offset : Nat, mmco5 : BOOLEAN]
  <1> DEFINE s == sender.sps
             o == Offset(s, p)
  <1>1. o \in Nat /\ o % 4 = 0 /\ o + p.frameNum = frames - m
    BY DEF Lands, Keeps
  <1>2. p.mmco5 \in BOOLEAN /\ frames \in Nat /\ p.frameNum = frames % 4 /\ p.frameNum \in Nat
    BY DEF IsShot
  <1>3. prevPic' = [frameNum |-> IF p.mmco5 THEN 0 ELSE p.frameNum,
                    offset   |-> o, mmco5 |-> p.mmco5]
    BY DEF Arrived, Remember
  <1>4. sender'.frames = (IF p.mmco5 THEN 0 ELSE frames) /\ sender'.gap = 0
    BY SenderAfter
  <1> HIDE DEF o
  <1>7. prevPic' \in [frameNum : Nat, offset : Nat, mmco5 : BOOLEAN]
    BY <1>1, <1>2, <1>3
  <1>5. CASE p.mmco5
    <2>1. prevPic'.frameNum = 0 /\ OffsetBefore' = 0
      BY <1>3, <1>5 DEF OffsetBefore
    <2>2. sender'.frames = 0
      BY <1>4, <1>5
    <2>3. FrameCounted(0)'
      BY <1>4, <2>1, <2>2 DEF FrameCounted
    <2> QED
      BY <1>5, <1>7, <2>3
  <1>6. CASE ~p.mmco5
    <2>1. prevPic'.frameNum = p.frameNum /\ OffsetBefore' = o
      BY <1>3, <1>6 DEF OffsetBefore
    <2>2. sender'.frames = frames
      BY <1>4, <1>6
    <2>3. sender'.frames - sender'.gap <= frames /\ frames <= sender'.frames
      BY <1>2, <1>4, <2>2
    <2>4. FrameCounted(m)'
      BY <1>1, <1>2, <1>4, <2>1, <2>3, Zenon DEF FrameCounted
    <2> QED
      BY <1>6, <1>7, <2>4
  <1> QED
    BY <1>2, <1>5, <1>6

\* Type 0, a picture arrives.
LEMMA RefsPicture ==
  ASSUME CountsInv, NEW p, NEW frames, NEW poc, NEW b \in Int, NEW m \in Nat,
         IsShot(p, frames, poc), Lands(p, frames, poc, b, m), Arrived(p, frames, poc, b, m),
         sender.sps.type = 0
  PROVE  /\ RefsInv'
         /\ prevRef' \in [mmco5 : BOOLEAN, top : Int, msb : Int, lsb : Int]
         /\ prevPic' \in [frameNum : Nat, offset : Nat, mmco5 : BOOLEAN]
  <1>1. /\ p.ref \in BOOLEAN /\ p.mmco5 \in BOOLEAN /\ p.idr \in BOOLEAN /\ (p.mmco5 => p.ref)
        /\ (~p.idr => sender.started) /\ (p.idr => p.ref) /\ p.frameNum \in Nat
    BY DEF IsShot
  <1>2. /\ sender'.base = IF p.mmco5 THEN {0} ELSE IF Tells(p, m) THEN {b} ELSE {}
        /\ ~p.ref => sender'.arrived = sender.arrived
    BY SenderAfter
  <1>3. prevPic' \in [frameNum : Nat, offset : Nat, mmco5 : BOOLEAN]
    BY <1>1 DEF Arrived, Remember
  <1>4. InCycles(m)
    BY CycleFields DEF CountsInv, CountsType, SenderType
  <1>5. CASE p.ref
    <2> DEFINE c == IF p.mmco5 THEN 0 ELSE b
    <2>1. Tells(p, m)
      BY <1>4, <1>5 DEF Tells
    <2>2. OffBy(p, frames, poc, b)
      BY <2>1 DEF Lands
    <2>3. RefCounted(c)' /\ prevRef' \in [mmco5 : BOOLEAN, top : Int, msb : Int, lsb : Int]
      BY <1>5, <2>2, RememberedRef, Zenon
    <2>4. sender'.base = {c} /\ c \in Int
      BY <1>2, <2>1
    <2> HIDE DEF c
    <2>5. RefsInv'
      BY <2>3, <2>4 DEF RefsInv
    <2> QED
      BY <1>3, <2>3, <2>5
  <1>6. CASE ~p.ref
    <2>1. prevRef' = prevRef /\ ~p.mmco5 /\ ~p.idr
      BY <1>1, <1>6 DEF Arrived, Remember
    <2>2. prevRef' \in [mmco5 : BOOLEAN, top : Int, msb : Int, lsb : Int]
      BY <2>1 DEF CountsInv, CountsType
    <2>3. Tells(p, m) <=> sender.base # {}
      BY <1>6, <2>1 DEF Tells
    <2>4. CASE sender.base = {}
      <3>1. prevRef = NoPrevRef
        BY <2>4 DEF CountsInv, RefsInv
      <3>2. sender'.base = {}
        BY <1>2, <2>1, <2>3, <2>4
      <3> QED
        BY <1>3, <2>1, <2>2, <3>1, <3>2 DEF RefsInv
    <2>5. CASE sender.base # {}
      <3>1. sender.base = {b} /\ sender'.base = {b}
        BY <1>2, <2>1, <2>3, <2>5 DEF Lands, Right
      <3>2. PICK c \in Int : sender.base = {c} /\ RefCounted(c)
        BY <1>1, <2>1, <2>5 DEF CountsInv, RefsInv
      <3>3. RefCounted(c)'
        BY <1>2, <1>6, <2>1, <3>2 DEF RefCounted, MsbBefore, LsbBefore
      <3>4. sender'.base = {c}
        BY <3>1, <3>2
      <3>5. RefsInv'
        BY <3>3, <3>4 DEF RefsInv
      <3> QED
        BY <1>3, <2>2, <3>5
    <2> QED
      BY <2>4, <2>5
  <1> QED
    BY <1>1, <1>5, <1>6

\* Types 1 and 2, a picture arrives.
LEMMA FramesPicture ==
  ASSUME CountsInv, NEW p, NEW frames, NEW poc, NEW b \in Int, NEW m \in Nat,
         IsShot(p, frames, poc), Lands(p, frames, poc, b, m), Arrived(p, frames, poc, b, m),
         sender.sps.type # 0
  PROVE  FramesInv'
  <1> DEFINE n == IF p.mmco5 THEN 0 ELSE m
  <1>1. /\ p.ref \in BOOLEAN /\ p.mmco5 \in BOOLEAN /\ p.idr \in BOOLEAN /\ frames \in Nat
        /\ p.frameNum \in Nat
    BY DEF IsShot
  <1>2. /\ Offset(sender.sps, p) \in Nat /\ Offset(sender.sps, p) + p.frameNum = frames - m
        /\ Missed(p, frames) = {m} /\ b = Less(m)
        /\ sender.sps.type = 1 /\ Tells(p, m) =>
              InCycles(m) /\ (p.ref \/ m = 0 \/ frames > m)
    BY DEF Lands, Keeps
  <1>3. /\ sender'.sps = sender.sps
        /\ sender'.frames = IF p.mmco5 THEN 0 ELSE frames
        /\ sender'.wasRef = p.ref
        /\ sender'.missed = IF p.mmco5 THEN {0} ELSE Missed(p, frames)
        /\ sender'.base = IF p.mmco5 THEN {0} ELSE IF Tells(p, m) THEN {b} ELSE {}
    BY SenderAfter
  <1>4. Less(0) = 0 /\ InCycles(0)
    BY CycleFields DEF CountsInv, CountsType, SenderType
  <1>5. \A x : Less(x)' = Less(x) /\ (InCycles(x)' <=> InCycles(x))
    BY <1>3, Zenon DEF Less, InCycles
  <1>6. n \in Nat /\ sender'.missed = {n}
    BY <1>2, <1>3
  <1>7. FrameCounted(n)'
    BY RememberedFrame, Zenon
  <1>8. ASSUME sender'.base # {}
        PROVE  sender'.base = {Less(n)'} /\ PlaceKnown(n)'
    <2>1. CASE p.mmco5
      BY <1>3, <1>4, <1>5, <2>1 DEF PlaceKnown
    <2>2. CASE ~p.mmco5
      <3>1. Tells(p, m) /\ sender'.base = {Less(m)}
        BY <1>2, <1>3, <1>8, <2>2
      <3>2. NextFrames' = IF p.ref THEN frames + 1 ELSE frames
        BY <1>3, <2>2 DEF NextFrames
      <3>3. frames >= m
        BY <1>1, <1>2
      <3>4. sender.sps.type = 1 => InCycles(m) /\ (m = 0 \/ NextFrames' > m)
        BY <1>1, <1>2, <3>1, <3>2, <3>3
      <3> QED
        BY <1>3, <1>5, <2>2, <3>1, <3>4 DEF PlaceKnown
    <2> QED
      BY <1>1, <2>1, <2>2
  <1> HIDE DEF n
  <1> QED
    BY <1>6, <1>7, <1>8 DEF FramesInv

\* A picture arrives.
LEMMA CountsPicture ==
  ASSUME CountsInv, Picture
  PROVE  CountsInv'
  <1>1. PICK p, frames, poc : \E b \in Int, m \in Nat :
            /\ IsShot(p, frames, poc)
            /\ Lands(p, frames, poc, b, m)
            /\ Arrived(p, frames, poc, b, m)
    BY PictureArrives, Zenon
  <1>2. PICK b \in Int, m \in Nat :
            /\ IsShot(p, frames, poc)
            /\ Lands(p, frames, poc, b, m)
            /\ Arrived(p, frames, poc, b, m)
    BY <1>1
  <1>3. sender' \in SenderType /\ sender'.started = TRUE /\ sender'.sps = sender.sps
        /\ sender'.gap = 0
    BY <1>2, SenderAfter
  <1>4. drift' \subseteq {0}
    BY <1>2 DEF Arrived
  <1>5. CASE sender.sps.type = 0
    <2>1. /\ RefsInv'
          /\ prevRef' \in [mmco5 : BOOLEAN, top : Int, msb : Int, lsb : Int]
          /\ prevPic' \in [frameNum : Nat, offset : Nat, mmco5 : BOOLEAN]
      BY <1>2, <1>5, RefsPicture, Zenon
    <2> QED
      BY <1>3, <1>4, <1>5, <2>1 DEF CountsInv, CountsType
  <1>6. CASE sender.sps.type # 0
    <2>1. FramesInv' /\ prevPic' \in [frameNum : Nat, offset : Nat, mmco5 : BOOLEAN]
      BY <1>2, <1>6, FramesPicture, RememberedFrame, Zenon
    <2> QED
      BY <1>3, <1>4, <1>6, <2>1 DEF CountsInv, CountsType
  <1> QED
    BY <1>5, <1>6

\* A reference goes missing: there is one more between the encoder and the decoder.
LEMMA CountsLoseFrame ==
  ASSUME CountsInv, LoseFrame
  PROVE  CountsInv'
  <1>1. sender \in SenderType /\ sender.started /\ sender.gap + 2 < 4
    BY SpsFields DEF CountsInv, CountsType, SenderType, LoseFrame
  <1>2. PICK jump \in Int :
            sender' = [sender EXCEPT !.frames = NextFrames, !.wasRef = TRUE, !.gap = @ + 1,
                                     !.poc = @ + jump]
    <2>1. (IF sender.sps.type = 0 THEN {-1, 5} ELSE {0}) \subseteq Int
      OBVIOUS
    <2> QED
      BY <2>1, Zenon DEF LoseFrame
  <1>3. drift' = drift /\ prevRef' = prevRef /\ prevPic' = prevPic
    BY DEF LoseFrame, pocVars
  <1>4. NextFrames \in Nat /\ sender.gap + 1 \in 0 .. 2
    BY <1>1 DEF NextFrames, SenderType
  <1>5. sender' \in SenderType
    <2> DEFINE fs == NextFrames
               gs == sender.gap + 1
               ps == sender.poc + jump
    <2>1. fs \in Nat /\ gs \in 0 .. 2 /\ ps \in Int
      BY <1>1, <1>4 DEF SenderType
    <2>2. sender' = [sender EXCEPT !.frames = fs, !.wasRef = TRUE, !.gap = gs, !.poc = ps]
      BY <1>2, Zenon
    <2> HIDE DEF fs, gs, ps
    <2> QED
      BY <1>1, <2>1, <2>2 DEF SenderType
  <1>6. /\ sender'.sps = sender.sps /\ sender'.started = sender.started
        /\ sender'.base = sender.base /\ sender'.missed = sender.missed
        /\ sender'.arrived = sender.arrived /\ sender'.wasRef = TRUE
        /\ sender'.frames = NextFrames /\ sender'.gap = sender.gap + 1
    BY <1>1, <1>2 DEF SenderType
  <1>7. CountsType'
    BY <1>3, <1>5, <1>6 DEF CountsInv, CountsType
  <1>8. RefsInv => RefsInv'
    BY <1>3, <1>6 DEF RefsInv, RefCounted, MsbBefore, LsbBefore
  <1>9. \A x : Less(x)' = Less(x) /\ (InCycles(x)' <=> InCycles(x))
    BY <1>6, Zenon DEF Less, InCycles
  <1>10. NextFrames' = NextFrames + 1
    BY <1>6 DEF NextFrames
  <1>11. ASSUME NEW m \in Nat, FrameCounted(m)
         PROVE  FrameCounted(m)'
    <2>1. PICK f \in Nat :
            /\ sender.frames - sender.gap <= f /\ f <= sender.frames
            /\ prevPic.frameNum = f % 4 /\ OffsetBefore % 4 = 0
            /\ OffsetBefore + prevPic.frameNum = f - m
      BY <1>11 DEF FrameCounted
    <2>2. sender'.frames - sender'.gap <= f /\ f <= sender'.frames
      <3>1. ~sender.wasRef => sender.gap = 0
        BY DEF CountsInv, CountsType
      <3> QED
        BY <1>1, <1>6, <2>1, <3>1 DEF NextFrames, SenderType
    <2>3. OffsetBefore' = OffsetBefore
      BY <1>3 DEF OffsetBefore
    <2> QED
      BY <1>3, <2>1, <2>2, <2>3, Zenon DEF FrameCounted
  <1>12. ASSUME NEW m \in Nat, PlaceKnown(m)
         PROVE  PlaceKnown(m)'
    BY <1>4, <1>6, <1>9, <1>10, <1>12 DEF PlaceKnown
  <1>13. FramesInv => FramesInv'
    <2> SUFFICES ASSUME FramesInv
                 PROVE  FramesInv'
      OBVIOUS
    <2>1. CASE sender.missed = {}
      BY <1>3, <1>6, <2>1 DEF FramesInv
    <2>2. CASE sender.missed # {}
      <3>1. PICK m \in Nat :
              /\ sender.missed = {m} /\ (sender.started => FrameCounted(m))
              /\ sender.base # {} => sender.base = {Less(m)} /\ PlaceKnown(m)
        BY <2>2 DEF FramesInv
      <3>2. FrameCounted(m)'
        BY <1>1, <1>11, <3>1
      <3>3. sender'.base # {} => sender'.base = {Less(m)'} /\ PlaceKnown(m)'
        BY <1>6, <1>9, <1>12, <3>1
      <3> QED
        BY <1>6, <3>1, <3>2, <3>3 DEF FramesInv
    <2> QED
      BY <2>1, <2>2
  <1> QED
    BY <1>3, <1>6, <1>7, <1>8, <1>13 DEF CountsInv

\* A flush: the decoder knows nothing, and nothing can be told of it.
LEMMA CountsFlushCounts ==
  ASSUME CountsInv, FlushCounts
  PROVE  CountsInv'
  <1>1. /\ sender.started
        /\ sender' = [sender EXCEPT !.missed = {}, !.base = {}]
        /\ drift' = {} /\ prevRef' = NoPrevRef /\ prevPic' = NoPrevPic
    BY DEF FlushCounts, Forget
  <1>2. sender \in SenderType
    BY DEF CountsInv, CountsType
  <1>3. /\ sender' \in SenderType
        /\ sender'.sps = sender.sps /\ sender'.started = sender.started
        /\ sender'.base = {} /\ sender'.missed = {} /\ sender'.wasRef = sender.wasRef
        /\ sender'.gap = sender.gap
    BY <1>1, <1>2 DEF SenderType
  <1>4. CountsType'
    BY <1>1, <1>3 DEF CountsInv, CountsType, NoPrevRef, NoPrevPic
  <1>5. RefsInv' /\ FramesInv'
    BY <1>1, <1>3 DEF RefsInv, FramesInv
  <1> QED
    BY <1>1, <1>3, <1>4, <1>5 DEF CountsInv

\* The other parts have no encoder, and no counts to be off.
CountsOf == IF part = "counts" THEN CountsInv ELSE drift = {}

\* The invariant holds when the encoder starts.
LEMMA CountsInit == MCInit => CountsOf
  <1> SUFFICES ASSUME MCInit, part = "counts"
               PROVE  CountsInv
    BY DEF MCInit, CountsOf
  <1>1. PICK s \in PocSpses : sender = NewSender(s)
    BY DEF MCInit
  <1>2. CountsType
    BY <1>1 DEF CountsType, SenderType, NewSender, MCInit, PocInit, NoPrevRef, NoPrevPic
  <1>3. sender.base = {0} /\ sender.missed = {0} /\ sender.started = FALSE
    BY <1>1 DEF NewSender
  <1>4. Less(0) = 0 /\ InCycles(0)
    BY <1>2, CycleFields DEF CountsType, SenderType
  <1>5. RefsInv /\ FramesInv
    BY <1>3, <1>4 DEF RefsInv, FramesInv, PlaceKnown
  <1> QED
    BY <1>2, <1>3, <1>5 DEF CountsInv, MCInit

\* Every step of the module keeps it.
LEMMA CountsOfStep == CountsOf /\ [MCNext]_mcVars => CountsOf'
  <1> SUFFICES ASSUME CountsOf, [MCNext]_mcVars
               PROVE  CountsOf'
    OBVIOUS
  <1>1. CASE CountsStep
    <2>1. part = "counts" /\ part' = part /\ CountsInv
      BY <1>1 DEF CountsStep, CountsOf
    <2>2. CountsInv'
      BY <1>1, <2>1, CountsPicture, CountsLoseFrame, CountsFlushCounts, Zenon DEF CountsStep
    <2> QED
      BY <2>1, <2>2 DEF CountsOf
  <1>2. CASE LoopsStep \/ SetsStep \/ UNCHANGED mcVars
    <2>1. part' = part /\ sender' = sender /\ drift' = drift /\ prevRef' = prevRef
          /\ prevPic' = prevPic
      BY <1>2 DEF LoopsStep, SetsStep, mcVars, pocVars
    <2>2. CountsType => CountsType'
      BY <2>1 DEF CountsType
    <2>3. RefsInv => RefsInv'
      BY <2>1, Zenon DEF RefsInv, RefCounted, MsbBefore, LsbBefore
    <2>4. FramesInv => FramesInv'
      BY <2>1, Zenon DEF FramesInv, FrameCounted, OffsetBefore, Less, PlaceKnown, InCycles,
                         NextFrames
    <2>5. CountsInv => CountsInv'
      BY <2>1, <2>2, <2>3, <2>4, Zenon DEF CountsInv
    <2> QED
      BY <2>1, <2>5 DEF CountsOf
  <1> QED
    BY <1>1, <1>2 DEF MCNext

\* The counts compute_pic_order_count derives, top and bottom, are those of the
\* encoder in all three types, off by one and the same number since the last IDR
\* picture, operation 5 or flush: wherever frame_num and pic_order_cnt_lsb wrap,
\* with references lost and pictures nothing refers to in between, and however
\* far the stream goes.  CountsAreEncoders says which losses, and that nothing is
\* claimed after a flush of type 1 that leaves part of a cycle behind.
THEOREM CountsOfEncoder == MCSpec => []CountsAreEncoders
  <1>1. CountsOf => CountsAreEncoders
    BY DEF CountsOf, CountsInv, CountsAreEncoders
  <1> QED
    BY <1>1, CountsInit, CountsOfStep, PTL DEF MCSpec

-----------------------------------------------------------------------------
(* Predicted reference picture sets of H.265                               *)

\* An entry of the other set, moved, with its flags.
ShiftedEntry == [delta : Int, flags : Flags]

\* What is taken over of it.
AsEntry(e) == [delta |-> e.delta, used |-> e.flags.used]

\* The entries of s run outwards, on the side of `sign`.
Outwards(s, sign) ==
    \A i, j \in 1 .. Len(s) : i < j => sign * s[i].delta < sign * s[j].delta

\* They are all on that side.
AllOnSide(s, sign) == \A i \in 1 .. Len(s) : sign * s[i].delta > 0

\* w goes along the entries as Taken does.
TakesAlong(w, e, sign) ==
    /\ w[0] = <<>>
    /\ \A n \in 1 .. Len(e) :
          w[n] = IF OnSide(e[n], sign) THEN Append(w[n - 1], AsEntry(e[n])) ELSE w[n - 1]

\* Taken goes along them.
LEMMA TakenRun ==
  ASSUME NEW e \in Seq(ShiftedEntry), NEW sign \in {-1, 1}
  PROVE  \E w \in [0 .. Len(e) -> Seq(RpsEntry)] :
            TakesAlong(w, e, sign) /\ Taken(e, sign) = w[Len(e)]
  <1> DEFINE S == Seq(RpsEntry)
             On(x) == OnSide(x, sign)
             step == [x \in S \X ShiftedEntry |->
                         IF On(x[2]) THEN Append(x[1], AsEntry(x[2])) ELSE x[1]]
             Goes(v) == v = [n \in 0 .. Len(e) |->
                                IF n = 0 THEN <<>>
                                ELSE IF OnSide(e[n], sign)
                                THEN Append(v[n - 1], [delta |-> e[n].delta, used |-> e[n].flags.used])
                                ELSE v[n - 1]]
             w == CHOOSE u : Goes(u)
  <1>0. Len(e) \in Nat /\ \A n \in 1 .. Len(e) : e[n] \in ShiftedEntry
    OBVIOUS
  <1>1. \A x \in ShiftedEntry : AsEntry(x) \in RpsEntry
    BY DEF ShiftedEntry, AsEntry, RpsEntry, Flags
  <1>2. step \in [S \X ShiftedEntry -> S] /\ <<>> \in S
    <2> HIDE DEF On
    <2> QED
      BY <1>1
  <1>3. \A x \in S, y \in ShiftedEntry :
           step[<<x, y>>] = IF On(y) THEN Append(x, AsEntry(y)) ELSE x
    <2> HIDE DEF On
    <2> QED
      OBVIOUS
  <1> HIDE DEF step, S
  <1>4. PICK v \in [0 .. Len(e) -> S] : Runs(v, step, <<>>, e)
    BY <1>2, RunExists
  <1>5. Goes(v)
    <2>1. \A n \in 1 .. Len(e) : v[n] = IF On(e[n]) THEN Append(v[n - 1], AsEntry(e[n])) ELSE v[n - 1]
      <3> HIDE DEF On
      <3> TAKE n \in 1 .. Len(e)
      <3>1. v[n - 1] \in S /\ e[n] \in ShiftedEntry
        BY <1>0, <1>4
      <3>2. v[n] = step[<<v[n - 1], e[n]>>]
        BY <1>4, Zenon DEF Runs
      <3> QED
        BY <1>3, <3>1, <3>2, Zenon
    <2>2. v[0] = <<>> /\ \A n \in 0 .. Len(e) : n = 0 \/ n \in 1 .. Len(e)
      BY <1>0, <1>4 DEF Runs
    <2>3. \A n \in 0 .. Len(e) :
             v[n] = IF n = 0 THEN <<>>
                    ELSE IF OnSide(e[n], sign)
                    THEN Append(v[n - 1], [delta |-> e[n].delta, used |-> e[n].flags.used])
                    ELSE v[n - 1]
      BY <2>1, <2>2, Zenon DEF AsEntry
    <2>4. v = [n \in 0 .. Len(e) |-> v[n]]
      BY <1>4
    <2> QED
      BY <2>3, <2>4, Zenon
  <1>6. Taken(e, sign) = w[Len(e)]
    BY Zenon DEF Taken
  <1>7. Goes(w)
    <2> HIDE DEF Goes
    <2> QED
      BY <1>5
  <1> HIDE DEF w
  <1>8. /\ w = [n \in 0 .. Len(e) |-> w[n]]
        /\ \A n \in 0 .. Len(e) :
              w[n] = IF n = 0 THEN <<>>
                     ELSE IF OnSide(e[n], sign)
                     THEN Append(w[n - 1], [delta |-> e[n].delta, used |-> e[n].flags.used])
                     ELSE w[n - 1]
    BY <1>7, Zenon
  <1>9. TakesAlong(w, e, sign)
    <2>1. 0 \in 0 .. Len(e) /\ \A n \in 1 .. Len(e) : n \in 0 .. Len(e) /\ n # 0
      BY <1>0
    <2> QED
      BY <1>8, <2>1, Zenon DEF TakesAlong, AsEntry
  <1>10. w \in [0 .. Len(e) -> S]
    <2>1. ASSUME NEW n \in 1 .. Len(e), w[n - 1] \in S PROVE w[n] = step[<<w[n - 1], e[n]>>]
      BY <1>0, <1>3, <1>9, <2>1, Zenon DEF TakesAlong
    <2>2. RunsFrom(w, S, step, <<>>, e)
      BY <1>8, <1>9, <2>1, Zenon DEF RunsFrom, TakesAlong
    <2> QED
      BY <1>2, <2>2, RunTyped
  <1> QED
    BY <1>6, <1>9, <1>10 DEF S

\* What Taken has so far: of the first n entries those it takes, outwards if they
\* run so.
TakenSoFar(t, e, sign, n) ==
    /\ {t[k] : k \in 1 .. Len(t)} = {AsEntry(e[i]) : i \in {i \in 1 .. n : OnSide(e[i], sign)}}
    /\ AllOnSide(t, sign)
    /\ Outwards(e, sign) => Outwards(t, sign)

\* One entry more keeps that.
LEMMA TakesOneMore ==
  ASSUME NEW e \in Seq(ShiftedEntry), NEW sign \in {-1, 1}, NEW n \in 1 .. Len(e),
         NEW t \in Seq(RpsEntry), TakenSoFar(t, e, sign, n - 1)
  PROVE  TakenSoFar(IF OnSide(e[n], sign) THEN Append(t, AsEntry(e[n])) ELSE t, e, sign, n)
  <1>0. /\ \A i \in 1 .. n : i \in 1 .. n - 1 \/ i = n
        /\ n \in 1 .. n /\ 1 .. n - 1 \subseteq 1 .. n
    OBVIOUS
  <1>1. CASE ~OnSide(e[n], sign)
    <2>1. {i \in 1 .. n : OnSide(e[i], sign)} = {i \in 1 .. n - 1 : OnSide(e[i], sign)}
      BY <1>0, <1>1, Zenon
    <2> QED
      BY <1>1, <2>1, Zenon DEF TakenSoFar
  <1>2. CASE OnSide(e[n], sign)
    <2> DEFINE a == AsEntry(e[n])
               u == Append(t, a)
               I == {i \in 1 .. n - 1 : OnSide(e[i], sign)}
               J == {i \in 1 .. n : OnSide(e[i], sign)}
    <2>1. /\ Len(t) \in Nat /\ Len(u) = Len(t) + 1 /\ u[Len(t) + 1] = a
          /\ \A k \in 1 .. Len(t) : u[k] = t[k]
      OBVIOUS
    <2>2. J = I \cup {n}
      BY <1>0, <1>2, Zenon
    <2>3. {t[k] : k \in 1 .. Len(t)} = {AsEntry(e[i]) : i \in I}
      BY DEF TakenSoFar
    <2>8. a.delta = e[n].delta /\ \A i \in I : AsEntry(e[i]).delta = e[i].delta
      BY DEF AsEntry
    <2> HIDE DEF u, a, I, J
    <2>4. {u[k] : k \in 1 .. Len(u)} = {AsEntry(e[i]) : i \in J}
      <3>1. {u[k] : k \in 1 .. Len(u)} = {t[k] : k \in 1 .. Len(t)} \cup {a}
        BY <2>1
      <3>2. {AsEntry(e[i]) : i \in J} = {AsEntry(e[i]) : i \in I} \cup {a}
        BY <2>2, Zenon DEF a
      <3> QED
        BY <2>3, <3>1, <3>2, Zenon
    <2>5. AllOnSide(u, sign)
      <3>1. sign * a.delta > 0
        BY <1>2, <2>8 DEF OnSide
      <3>2. \A k \in 1 .. Len(t) : sign * t[k].delta > 0
        BY DEF TakenSoFar, AllOnSide
      <3> QED
        BY <2>1, <3>1, <3>2 DEF AllOnSide
    <2>6. ASSUME Outwards(e, sign)
          PROVE  Outwards(u, sign)
      <3>1. \A k \in 1 .. Len(t) : sign * t[k].delta < sign * a.delta
        <4>1. TAKE k \in 1 .. Len(t)
        <4>2. PICK i \in I : t[k] = AsEntry(e[i])
          BY <2>3
        <4>3. i \in 1 .. Len(e) /\ i < n /\ n \in 1 .. Len(e)
          BY <4>2 DEF I
        <4> QED
          BY <2>6, <2>8, <4>2, <4>3, Zenon DEF Outwards
      <3>2. \A k, m \in 1 .. Len(t) : k < m => sign * t[k].delta < sign * t[m].delta
        BY <2>6 DEF TakenSoFar, Outwards
      <3>3. \A m \in 1 .. Len(u) : m \in 1 .. Len(t) \/ m = Len(t) + 1
        BY <2>1
      <3>4. \A k, m \in 1 .. Len(u) : k < m => k \in 1 .. Len(t)
        BY <2>1
      <3> QED
        BY <2>1, <3>1, <3>2, <3>3, <3>4, Zenon DEF Outwards
    <2>7. TakenSoFar(u, e, sign, n)
      BY <2>4, <2>5, <2>6 DEF TakenSoFar, J
    <2> QED
      BY <1>2, <2>7 DEF u, a
  <1> QED
    BY <1>1, <1>2

\* What is taken of all of them.
LEMMA TakenIs ==
  ASSUME NEW e \in Seq(ShiftedEntry), NEW sign \in {-1, 1}
  PROVE  Taken(e, sign) \in Seq(RpsEntry) /\ TakenSoFar(Taken(e, sign), e, sign, Len(e))
  <1>0. Len(e) \in Nat
    OBVIOUS
  <1>1. PICK w \in [0 .. Len(e) -> Seq(RpsEntry)] :
           TakesAlong(w, e, sign) /\ Taken(e, sign) = w[Len(e)]
    BY TakenRun
  <1> DEFINE T == {n \in 0 .. Len(e) : TakenSoFar(w[n], e, sign, n)}
  <1>2. 0 \in T
    <2>1. w[0] = <<>>
      BY <1>1 DEF TakesAlong
    <2>2. TakenSoFar(<<>>, e, sign, 0)
      BY DEF TakenSoFar, AllOnSide, Outwards
    <2> QED
      BY <1>0, <2>1, <2>2
  <1>3. ASSUME NEW n \in 1 .. Len(e), n - 1 \in T
        PROVE  n \in T
    <2>1. w[n - 1] \in Seq(RpsEntry) /\ TakenSoFar(w[n - 1], e, sign, n - 1) /\ n \in 0 .. Len(e)
      BY <1>0, <1>1, <1>3
    <2>2. w[n] = IF OnSide(e[n], sign) THEN Append(w[n - 1], AsEntry(e[n])) ELSE w[n - 1]
      BY <1>1, Zenon DEF TakesAlong
    <2>3. TakenSoFar(w[n], e, sign, n)
      BY <2>1, <2>2, TakesOneMore, Zenon
    <2> QED
      BY <2>1, <2>3
  <1>4. T = 0 .. Len(e)
    <2>1. T \subseteq 0 .. Len(e)
      OBVIOUS
    <2> HIDE DEF T
    <2> QED
      BY <1>0, <1>2, <1>3, <2>1, Onwards
  <1> QED
    BY <1>0, <1>1, <1>4

\* One half: what lay on the other side backwards, the picture itself, and what
\* lay on this side, in an order that runs outwards.
Half(other, itself, own) == Reverse(other) \o <<itself>> \o own

\* Where its entries come from.
IsHalf(h, other, x, own) ==
    /\ h \in Seq(ShiftedEntry) /\ Len(h) = Len(other) + 1 + Len(own)
    /\ \A i \in 1 .. Len(other) : h[i] = other[Len(other) - i + 1]
    /\ h[Len(other) + 1] = x
    /\ \A i \in 1 .. Len(own) : h[Len(other) + 1 + i] = own[i]

LEMMA HalfIs ==
  ASSUME NEW other \in Seq(ShiftedEntry), NEW own \in Seq(ShiftedEntry), NEW x \in ShiftedEntry
  PROVE  IsHalf(Half(other, x, own), other, x, own)
  <1> DEFINE r == Reverse(other)
  <1>1. r \in Seq(ShiftedEntry) /\ Len(r) = Len(other)
        /\ \A i \in 1 .. Len(other) : r[i] = other[Len(other) - i + 1]
    BY DEF Reverse
  <1> DEFINE a == r \o <<x>>
  <1> HIDE DEF r
  <1>2. a \in Seq(ShiftedEntry) /\ Len(a) = Len(other) + 1
        /\ (\A i \in 1 .. Len(other) : a[i] = r[i]) /\ a[Len(other) + 1] = x
    BY <1>1
  <1> HIDE DEF a
  <1>3. Half(other, x, own) = a \o own
    BY DEF Half, a, r
  <1>4. /\ a \o own \in Seq(ShiftedEntry) /\ Len(a \o own) = Len(a) + Len(own)
        /\ \A i \in 1 .. Len(a) : (a \o own)[i] = a[i]
        /\ \A i \in 1 .. Len(own) : (a \o own)[Len(a) + i] = own[i]
    <2>1. a \in Seq(ShiftedEntry)
      BY <1>2
    <2>2. a \o own \in Seq(ShiftedEntry) /\ Len(a \o own) = Len(a) + Len(own)
      BY <2>1
    <2>3. \A i \in 1 .. Len(a) : (a \o own)[i] = a[i]
      BY <2>1
    <2>4. \A i \in 1 .. Len(own) : (a \o own)[Len(a) + i] = own[i]
      BY <2>1
    <2> QED
      BY <2>2, <2>3, <2>4
  <1>5. /\ Len(other) \in Nat /\ Len(a) = Len(other) + 1 /\ Len(other) + 1 \in 1 .. Len(a)
        /\ \A i \in 1 .. Len(other) : i \in 1 .. Len(a)
    BY <1>2
  <1>6. \A i \in 1 .. Len(other) : Half(other, x, own)[i] = other[Len(other) - i + 1]
    BY <1>1, <1>2, <1>3, <1>4, <1>5, Zenon
  <1> QED
    BY <1>2, <1>3, <1>4, <1>5, <1>6, Zenon DEF IsHalf

\* The entries of the half, in no order.
LEMMA HalfHas ==
  ASSUME NEW other \in Seq(ShiftedEntry), NEW own \in Seq(ShiftedEntry), NEW x \in ShiftedEntry
  PROVE  LET h == Half(other, x, own)
         IN  {h[i] : i \in 1 .. Len(h)}
                = {other[i] : i \in 1 .. Len(other)} \cup {x} \cup {own[i] : i \in 1 .. Len(own)}
  <1> DEFINE h == Half(other, x, own)
             k == Len(other)
             m == Len(own)
  <1>1. /\ k \in Nat /\ m \in Nat /\ Len(h) = k + 1 + m
        /\ \A i \in 1 .. k : h[i] = other[k - i + 1]
        /\ h[k + 1] = x
        /\ \A i \in 1 .. m : h[k + 1 + i] = own[i]
    <2>1. k \in Nat /\ m \in Nat
      OBVIOUS
    <2>2. IsHalf(h, other, x, own)
      BY HalfIs
    <2> HIDE DEF h
    <2> QED
      BY <2>1, <2>2, Zenon DEF IsHalf
  <1> HIDE DEF h, k, m
  <1>2. ASSUME NEW i \in 1 .. Len(h)
        PROVE  h[i] \in {other[j] : j \in 1 .. k} \cup {x} \cup {own[j] : j \in 1 .. m}
    <2>1. CASE i \in 1 .. k
      <3>1. k - i + 1 \in 1 .. k /\ h[i] = other[k - i + 1]
        BY <1>1, <2>1
      <3> QED
        BY <3>1
    <2>2. CASE i = k + 1
      BY <1>1, <2>2
    <2>3. CASE i > k + 1
      <3>1. PICK j \in 1 .. m : i = k + 1 + j
        <4>1. i - k - 1 \in 1 .. m /\ i = k + 1 + (i - k - 1)
          BY <1>1, <2>3
        <4> QED
          BY <4>1
      <3> QED
        BY <1>1, <3>1
    <2> QED
      BY <1>1, <2>1, <2>2, <2>3
  <1>3. ASSUME NEW j \in 1 .. k PROVE \E i \in 1 .. Len(h) : h[i] = other[j]
    <2>1. k - j + 1 \in 1 .. k /\ k - j + 1 \in 1 .. Len(h) /\ k - (k - j + 1) + 1 = j
      BY <1>1
    <2> QED
      BY <1>1, <2>1
  <1>4. ASSUME NEW j \in 1 .. m PROVE \E i \in 1 .. Len(h) : h[i] = own[j]
    <2>1. k + 1 + j \in 1 .. Len(h)
      BY <1>1
    <2> QED
      BY <1>1, <2>1
  <1>5. k + 1 \in 1 .. Len(h)
    BY <1>1
  <1>6. {h[i] : i \in 1 .. Len(h)}
            = {other[i] : i \in 1 .. k} \cup {x} \cup {own[i] : i \in 1 .. m}
    <2>1. \A y \in {h[i] : i \in 1 .. Len(h)} :
             y \in {other[i] : i \in 1 .. k} \cup {x} \cup {own[i] : i \in 1 .. m}
      BY <1>2
    <2>2. \A y \in {other[i] : i \in 1 .. k} \cup {x} \cup {own[i] : i \in 1 .. m} :
             y \in {h[i] : i \in 1 .. Len(h)}
      BY <1>1, <1>3, <1>4, <1>5
    <2> QED
      BY <2>1, <2>2
  <1> QED
    BY <1>6 DEF h, k, m

\* It runs outwards if the two sides do, the one against the other.
LEMMA HalfRuns ==
  ASSUME NEW other \in Seq(ShiftedEntry), NEW own \in Seq(ShiftedEntry), NEW x \in ShiftedEntry,
         NEW sign \in {-1, 1}, NEW back \in {-1, 1}, sign + back = 0,
         Outwards(own, sign), Outwards(other, back),
         \A i \in 1 .. Len(own) : sign * x.delta < sign * own[i].delta,
         \A i \in 1 .. Len(other) : sign * other[i].delta < sign * x.delta
  PROVE  Outwards(Half(other, x, own), sign)
  <1> DEFINE h == Half(other, x, own)
             k == Len(other)
             m == Len(own)
             far == [d \in Int |-> sign * d]
  <1>1. /\ k \in Nat /\ m \in Nat /\ Len(h) = k + 1 + m /\ h \in Seq(ShiftedEntry)
        /\ \A i \in 1 .. k : h[i] = other[k - i + 1]
        /\ h[k + 1] = x
        /\ \A i \in 1 .. m : h[k + 1 + i] = own[i]
    <2>1. k \in Nat /\ m \in Nat
      OBVIOUS
    <2>2. IsHalf(h, other, x, own)
      BY HalfIs
    <2> HIDE DEF h
    <2> QED
      BY <2>1, <2>2, Zenon DEF IsHalf
  <1>2. /\ \A i \in 1 .. k : other[i].delta \in Int
        /\ \A i \in 1 .. m : own[i].delta \in Int
        /\ \A i \in 1 .. Len(h) : h[i].delta \in Int
        /\ x.delta \in Int
    <2> HIDE DEF h
    <2>1. \A e \in ShiftedEntry : e.delta \in Int
      BY DEF ShiftedEntry
    <2> HIDE DEF ShiftedEntry
    <2>2. /\ \A i \in 1 .. k : other[i] \in ShiftedEntry
          /\ \A i \in 1 .. m : own[i] \in ShiftedEntry
          /\ \A i \in 1 .. Len(h) : h[i] \in ShiftedEntry
      BY <1>1
    <2> QED
      BY <2>1, <2>2, Zenon
  <1>3. \A d \in Int : far[d] \in Int /\ far[d] = sign * d /\ back * d = -far[d]
    <2>1. \A d \in Int : far[d] = sign * d
      OBVIOUS
    <2>2. CASE sign = 1
      <3>1. back = -1
        BY <2>2
      <3> QED
        BY <2>1, <2>2, <3>1
    <2>3. CASE sign = -1
      <3>1. back = 1
        BY <2>3
      <3> QED
        BY <2>1, <2>3, <3>1
    <2> QED
      BY <2>2, <2>3
  <1> HIDE DEF far, h, k, m
  <1>4. /\ \A i, j \in 1 .. m : i < j => far[own[i].delta] < far[own[j].delta]
        /\ \A i \in 1 .. m : far[x.delta] < far[own[i].delta]
    <2>1. /\ \A i, j \in 1 .. m : i < j => sign * own[i].delta < sign * own[j].delta
          /\ \A i \in 1 .. m : sign * x.delta < sign * own[i].delta
      BY Zenon DEF Outwards, m
    <2> QED
      BY <1>2, <1>3, <2>1, Zenon
  <1>5. /\ \A i, j \in 1 .. k : i < j => far[other[j].delta] < far[other[i].delta]
        /\ \A i \in 1 .. k : far[other[i].delta] < far[x.delta]
    <2>1. /\ \A i, j \in 1 .. k : i < j => back * other[i].delta < back * other[j].delta
          /\ \A i \in 1 .. k : sign * other[i].delta < sign * x.delta
      BY Zenon DEF Outwards, k
    <2>2. \A i, j \in 1 .. k : i < j => -far[other[i].delta] < -far[other[j].delta]
      BY <1>2, <1>3, <2>1, Zenon
    <2>3. \A i \in 1 .. k : far[other[i].delta] \in Int
      BY <1>2, <1>3, Zenon
    <2>4. \A i \in 1 .. k : far[other[i].delta] < far[x.delta]
      BY <1>2, <1>3, <2>1, Zenon
    <2> QED
      BY <2>2, <2>3, <2>4
  <1>6. ASSUME NEW i \in 1 .. Len(h), NEW j \in 1 .. Len(h), i < j
        PROVE  far[h[i].delta] < far[h[j].delta]
    <2>1. CASE j \in 1 .. k
      <3>1. i \in 1 .. k
        BY <1>1, <1>6, <2>1
      <3>2. PICK a \in 1 .. k, b \in 1 .. k : a = k - i + 1 /\ b = k - j + 1 /\ b < a
        <4>1. k - i + 1 \in 1 .. k /\ k - j + 1 \in 1 .. k /\ k - j + 1 < k - i + 1
          BY <1>1, <1>6, <2>1, <3>1
        <4> QED
          BY <4>1
      <3>3. h[i] = other[a] /\ h[j] = other[b]
        BY <1>1, <2>1, <3>1, <3>2
      <3> QED
        BY <1>5, <3>2, <3>3
    <2>2. CASE j = k + 1
      <3>1. i \in 1 .. k
        BY <1>1, <1>6, <2>2
      <3>2. PICK a \in 1 .. k : a = k - i + 1
        <4>1. k - i + 1 \in 1 .. k
          BY <1>1, <3>1
        <4> QED
          BY <4>1
      <3>3. h[i] = other[a] /\ h[j] = x
        BY <1>1, <2>2, <3>1, <3>2
      <3> QED
        BY <1>5, <3>2, <3>3
    <2>3. CASE j > k + 1
      <3>1. PICK b \in 1 .. m : j = k + 1 + b
        <4>1. j - k - 1 \in 1 .. m /\ j = k + 1 + (j - k - 1)
          BY <1>1, <2>3
        <4> QED
          BY <4>1
      <3>2. h[j] = own[b]
        BY <1>1, <3>1
      <3>3. CASE i > k + 1
        <4>1. PICK a \in 1 .. m : i = k + 1 + a
          <5>1. i - k - 1 \in 1 .. m /\ i = k + 1 + (i - k - 1)
            BY <1>1, <3>3
          <5> QED
            BY <5>1
        <4>2. h[i] = own[a] /\ a < b
          BY <1>1, <1>6, <3>1, <4>1
        <4> QED
          BY <1>4, <3>2, <4>2
      <3>4. CASE i = k + 1
        BY <1>1, <1>4, <3>2, <3>4
      <3>5. CASE i \in 1 .. k
        <4>1. PICK a \in 1 .. k : a = k - i + 1
          <5>1. k - i + 1 \in 1 .. k
            BY <1>1, <3>5
          <5> QED
            BY <5>1
        <4>2. h[i] = other[a]
          BY <1>1, <3>5, <4>1
        <4>3. far[other[a].delta] < far[x.delta] /\ far[x.delta] < far[own[b].delta]
          BY <1>4, <1>5
        <4>4. far[other[a].delta] \in Int /\ far[x.delta] \in Int /\ far[own[b].delta] \in Int
          BY <1>2, <1>3, Zenon
        <4>5. far[other[a].delta] < far[own[b].delta]
          BY <4>3, <4>4
        <4> QED
          BY <3>2, <4>2, <4>5, Zenon
      <3> QED
        BY <1>1, <3>3, <3>4, <3>5
    <2> QED
      BY <1>1, <2>1, <2>2, <2>3
  <1>7. \A i, j \in 1 .. Len(h) : i < j => sign * h[i].delta < sign * h[j].delta
    BY <1>2, <1>3, <1>6, Zenon
  <1> QED
    BY <1>7, Zenon DEF Outwards, h

\* The differences of a sequence of entries are integers.
LEMMA Deltas ==
  ASSUME NEW s \in Seq(RpsEntry)
  PROVE  Len(s) \in Nat /\ DOMAIN s = 1 .. Len(s) /\ \A j \in 1 .. Len(s) : s[j].delta \in Int
  <1>1. \A e \in RpsEntry : e.delta \in Int
    BY DEF RpsEntry
  <1>2. Len(s) \in Nat /\ DOMAIN s = 1 .. Len(s) /\ \A j \in 1 .. Len(s) : s[j] \in RpsEntry
    OBVIOUS
  <1> QED
    BY <1>1, <1>2, Zenon

\* What the moved entries are.
IsMoved(t, s, f, first, d) ==
    /\ t \in Seq(ShiftedEntry) /\ Len(t) = Len(s)
    /\ \A j \in 1 .. Len(s) : t[j] = [delta |-> s[j].delta + d, flags |-> f[first + j]]

LEMMA ShiftedIs ==
  ASSUME NEW s \in Seq(RpsEntry), NEW f, NEW first \in Nat, NEW d \in Int,
         \A j \in 1 .. Len(s) : f[first + j] \in Flags
  PROVE  IsMoved(Shifted(s, f, first, d), s, f, first, d)
  <1>1. Len(s) \in Nat /\ DOMAIN s = 1 .. Len(s) /\ \A j \in 1 .. Len(s) : s[j].delta \in Int
    BY Deltas
  <1>2. \A j \in 1 .. Len(s) : [delta |-> s[j].delta + d, flags |-> f[first + j]] \in ShiftedEntry
    BY <1>1 DEF ShiftedEntry
  <1> HIDE DEF ShiftedEntry
  <1>3. Shifted(s, f, first, d)
          = [j \in 1 .. Len(s) |-> [delta |-> s[j].delta + d, flags |-> f[first + j]]]
    BY <1>1 DEF Shifted
  <1>4. Shifted(s, f, first, d) \in [1 .. Len(s) -> ShiftedEntry]
    BY <1>2, <1>3
  <1>5. Shifted(s, f, first, d) \in Seq(ShiftedEntry) /\ Len(Shifted(s, f, first, d)) = Len(s)
    BY <1>1, <1>4
  <1> QED
    BY <1>3, <1>5 DEF IsMoved

\* They run as they did, beyond what 0 is moved to.
DeltasMoved(t, s, d) == Len(t) = Len(s) /\ \A j \in 1 .. Len(s) : t[j].delta = s[j].delta + d

Beyond(t, sign, d) == \A j \in 1 .. Len(t) : sign * d < sign * t[j].delta

LEMMA ShiftedRuns ==
  ASSUME NEW s \in Seq(RpsEntry), NEW t, NEW d \in Int, DeltasMoved(t, s, d), NEW sign \in {-1, 1}
  PROVE  /\ Outwards(s, sign) => Outwards(t, sign)
         /\ AllOnSide(s, sign) => Beyond(t, sign, d)
  <1>0. Len(t) = Len(s) /\ \A j \in 1 .. Len(s) : t[j].delta = s[j].delta + d
    BY DEF DeltasMoved
  <1>1. \A j \in 1 .. Len(s) : s[j].delta \in Int
    BY Deltas
  <1>2. \A a, b \in Int : sign * a < sign * b => sign * (a + d) < sign * (b + d)
    OBVIOUS
  <1>3. \A a \in Int : sign * a > 0 => sign * d < sign * (a + d)
    OBVIOUS
  <1>4. ASSUME Outwards(s, sign), NEW i \in 1 .. Len(t), NEW j \in 1 .. Len(t), i < j
        PROVE  sign * t[i].delta < sign * t[j].delta
    <2>1. i \in 1 .. Len(s) /\ j \in 1 .. Len(s)
      BY <1>0
    <2>2. sign * s[i].delta < sign * s[j].delta
      BY <1>4, <2>1, Zenon DEF Outwards
    <2> QED
      BY <1>0, <1>1, <1>2, <1>4, <2>1, <2>2, Zenon
  <1>5. ASSUME AllOnSide(s, sign), NEW j \in 1 .. Len(t)
        PROVE  sign * d < sign * t[j].delta
    <2>1. j \in 1 .. Len(s)
      BY <1>0
    <2>2. sign * s[j].delta > 0
      BY <1>5, <2>1, Zenon DEF AllOnSide
    <2> QED
      BY <1>0, <1>1, <1>3, <2>1, <2>2, Zenon
  <1> QED
    BY <1>4, <1>5, Zenon DEF Outwards, Beyond

\* A set whose halves run outwards from the picture, as pic_order_cnt differences
\* coded on their own do.
OrderedSet(set) ==
    /\ set.s0 \in Seq(RpsEntry) /\ Outwards(set.s0, -1) /\ AllOnSide(set.s0, -1)
    /\ set.s1 \in Seq(RpsEntry) /\ Outwards(set.s1, 1) /\ AllOnSide(set.s1, 1)

\* What a set is predicted from.
PredictionInput(g) ==
    /\ OrderedSet(g.ref) /\ g.deltaRps \in Int
    /\ g.flags \in [1 .. Len(g.ref.s0) + Len(g.ref.s1) + 1 -> Flags]

\* All the moved entries.
AllShifted(g) ==
    LET all == g.ref.s0 \o g.ref.s1 \o <<[delta |-> 0, used |-> TRUE]>>
    IN  {[delta |-> all[j].delta + g.deltaRps, flags |-> g.flags[j]] : j \in DOMAIN all}

\* The halves, the moved entries in them and what Taken makes of them.
LEMMA Halves ==
  ASSUME NEW g, PredictionInput(g)
  PROVE  \E before, after \in Seq(ShiftedEntry) : \E x \in ShiftedEntry :
            /\ PredictedSet(g.ref, g.deltaRps, g.flags)
                  = [s0 |-> Taken(Half(after, x, before), -1), s1 |-> Taken(Half(before, x, after), 1)]
            /\ Outwards(Half(after, x, before), -1) /\ Outwards(Half(before, x, after), 1)
            /\ {before[i] : i \in 1 .. Len(before)} \cup {x} \cup {after[i] : i \in 1 .. Len(after)}
                  = AllShifted(g)
  <1> DEFINE s0 == g.ref.s0
             s1 == g.ref.s1
             d == g.deltaRps
             f == g.flags
             n == Len(s0)
             m == Len(s1)
             before == Shifted(s0, f, 0, d)
             after == Shifted(s1, f, n, d)
             x == [delta |-> d, flags |-> f[n + m + 1]]
  <1>1. /\ s0 \in Seq(RpsEntry) /\ Outwards(s0, -1) /\ AllOnSide(s0, -1)
        /\ s1 \in Seq(RpsEntry) /\ Outwards(s1, 1) /\ AllOnSide(s1, 1)
        /\ d \in Int /\ f \in [1 .. n + m + 1 -> Flags]
    BY DEF PredictionInput, OrderedSet
  <1> HIDE DEF s0, s1, d, f
  <1>2. n \in Nat /\ m \in Nat
    BY <1>1
  <1> HIDE DEF n, m
  <1>3. Len(f) = n + m + 1
    <2>1. n + m + 1 \in Nat
      BY <1>2
    <2> QED
      BY <1>1, <2>1
  <1>4. /\ \A j \in 1 .. n : f[0 + j] \in Flags /\ 0 + j = j
        /\ \A j \in 1 .. m : f[n + j] \in Flags
        /\ f[n + m + 1] \in Flags
    BY <1>1, <1>2
  <1>5. /\ before \in Seq(ShiftedEntry) /\ Len(before) = n
        /\ \A j \in 1 .. n : before[j] = [delta |-> s0[j].delta + d, flags |-> f[j]]
    <2>1. IsMoved(before, s0, f, 0, d)
      <3>1. 0 \in Nat
        OBVIOUS
      <3> QED
        BY <1>1, <1>4, <3>1, ShiftedIs, Zenon DEF n
    <2> HIDE DEF before
    <2> QED
      BY <1>4, <2>1, Zenon DEF n, IsMoved
  <1>6. /\ after \in Seq(ShiftedEntry) /\ Len(after) = m
        /\ \A j \in 1 .. m : after[j] = [delta |-> s1[j].delta + d, flags |-> f[n + j]]
    <2>1. IsMoved(after, s1, f, n, d)
      BY <1>1, <1>2, <1>4, ShiftedIs, Zenon DEF m
    <2> HIDE DEF after
    <2> QED
      BY <2>1, Zenon DEF m, IsMoved
  <1>7. x \in ShiftedEntry /\ x.delta = d
    BY <1>1, <1>4 DEF ShiftedEntry
  <1>8. PredictedSet(g.ref, d, f)
          = [s0 |-> Taken(Half(after, x, before), -1), s1 |-> Taken(Half(before, x, after), 1)]
    <2>1. Itself(f, d) = <<x>>
      BY <1>3 DEF Itself
    <2> QED
      BY <2>1, Zenon DEF PredictedSet, Half, before, after, s0, s1, n
  <1>9. {before[i] : i \in 1 .. Len(before)} \cup {x} \cup {after[i] : i \in 1 .. Len(after)}
           = AllShifted(g)
    <2> DEFINE last == [delta |-> 0, used |-> TRUE]
               all == s0 \o s1 \o <<last>>
               y(j) == [delta |-> all[j].delta + d, flags |-> f[j]]
    <2>1. /\ DOMAIN all = 1 .. n + m + 1
          /\ \A j \in 1 .. n : all[j] = s0[j]
          /\ \A j \in 1 .. m : all[n + j] = s1[j]
          /\ all[n + m + 1] = last
      <3> DEFINE E == RpsEntry
      <3>1. last \in E /\ s0 \in Seq(E) /\ s1 \in Seq(E)
        BY <1>1 DEF RpsEntry
      <3> HIDE DEF E, last
      <3>2. PICK a \in Seq(E) : a = s0 \o s1 /\ Len(a) = n + m
        <4>1. s0 \o s1 \in Seq(E) /\ Len(s0 \o s1) = Len(s0) + Len(s1)
          BY <3>1
        <4> QED
          BY <4>1, Zenon DEF n, m
      <3>3. (\A j \in 1 .. n : a[j] = s0[j]) /\ (\A j \in 1 .. m : a[n + j] = s1[j])
        <4>1. /\ \A j \in 1 .. Len(s0) : (s0 \o s1)[j] = s0[j]
              /\ \A j \in 1 .. Len(s1) : (s0 \o s1)[Len(s0) + j] = s1[j]
          BY <3>1
        <4> QED
          BY <3>2, <4>1, Zenon DEF n, m
      <3>4. /\ a \o <<last>> \in Seq(E) /\ Len(a \o <<last>>) = n + m + 1
            /\ (a \o <<last>>)[n + m + 1] = last
            /\ \A j \in 1 .. n + m : (a \o <<last>>)[j] = a[j]
        <4>1. Len(a) = n + m /\ last \in E /\ a \in Seq(E)
          BY <3>1, <3>2
        <4> HIDE DEF E
        <4>2. /\ a \o <<last>> \in Seq(E) /\ Len(a \o <<last>>) = Len(a) + 1
              /\ (a \o <<last>>)[Len(a) + 1] = last
              /\ \A j \in 1 .. Len(a) : (a \o <<last>>)[j] = a[j]
          BY <4>1
        <4> QED
          BY <4>1, <4>2, Zenon
      <3>5. all = a \o <<last>>
        BY <3>2
      <3> HIDE DEF all
      <3>6. DOMAIN all = 1 .. n + m + 1
        BY <3>4, <3>5
      <3> QED
        BY <1>2, <3>3, <3>4, <3>5, <3>6
    <2>2. AllShifted(g) = {y(j) : j \in 1 .. n + m + 1}
      BY <2>1, Zenon DEF AllShifted, s0, s1, d, f
    <2> HIDE DEF all, last
    <2>3. /\ \A j \in 1 .. n : y(j) = before[j]
          /\ \A j \in 1 .. m : y(n + j) = after[j]
      <3> HIDE DEF before, after
      <3>1. \A j \in 1 .. n : y(j) = before[j]
        BY <1>5, <2>1, Zenon
      <3>2. \A j \in 1 .. m : y(n + j) = after[j]
        BY <1>6, <2>1, Zenon
      <3> QED
        BY <3>1, <3>2
    <2>4. y(n + m + 1) = x
      BY <1>1, <2>1 DEF last
    <2> HIDE DEF y, x, before, after
    <2>5. \A j \in 1 .. n + m + 1 : j \in 1 .. n \/ j = n + m + 1 \/ \E i \in 1 .. m : j = n + i
      <3>1. TAKE j \in 1 .. n + m + 1
      <3>2. CASE j > n /\ j # n + m + 1
        <4>1. j - n \in 1 .. m /\ j = n + (j - n)
          BY <1>2, <3>2
        <4> QED
          BY <4>1
      <3> QED
        BY <1>2, <3>2
    <2>6. /\ \A j \in 1 .. n : j \in 1 .. n + m + 1
          /\ \A j \in 1 .. m : n + j \in 1 .. n + m + 1
          /\ n + m + 1 \in 1 .. n + m + 1
      BY <1>2
    <2>7. {y(j) : j \in 1 .. n + m + 1}
             \subseteq {before[i] : i \in 1 .. n} \cup {x} \cup {after[i] : i \in 1 .. m}
      BY <2>3, <2>4, <2>5
    <2>8. {before[i] : i \in 1 .. n} \cup {x} \cup {after[i] : i \in 1 .. m}
             \subseteq {y(j) : j \in 1 .. n + m + 1}
      BY <2>3, <2>4, <2>6
    <2> QED
      BY <1>5, <1>6, <2>2, <2>7, <2>8
  <1> HIDE DEF before, after, x
  <1>14. PICK neg \in {-1, 1} : neg = -1
    OBVIOUS
  <1>15. neg + 1 = 0 /\ 1 + neg = 0 /\ 1 \in {-1, 1} /\ Outwards(s0, neg) /\ AllOnSide(s0, neg)
    BY <1>1, <1>14
  <1>10. /\ Outwards(before, neg) /\ \A j \in 1 .. Len(before) : neg * d < neg * before[j].delta
         /\ Outwards(after, 1) /\ \A j \in 1 .. Len(after) : 1 * d < 1 * after[j].delta
    <2>1. DeltasMoved(before, s0, d) /\ DeltasMoved(after, s1, d)
      <3>1. ASSUME NEW j \in 1 .. n PROVE before[j].delta = s0[j].delta + d
        <4>1. before[j] = [delta |-> s0[j].delta + d, flags |-> f[j]]
          BY <1>5
        <4> QED
          BY <4>1
      <3>2. ASSUME NEW j \in 1 .. m PROVE after[j].delta = s1[j].delta + d
        <4>1. after[j] = [delta |-> s1[j].delta + d, flags |-> f[n + j]]
          BY <1>6
        <4> QED
          BY <4>1
      <3>3. Len(before) = Len(s0) /\ Len(after) = Len(s1)
        BY <1>5, <1>6 DEF n, m
      <3> QED
        BY <3>1, <3>2, <3>3, Zenon DEF n, m, DeltasMoved
    <2>2. Outwards(before, neg) /\ Beyond(before, neg, d)
      BY <1>1, <1>15, <2>1, ShiftedRuns
    <2>3. Outwards(after, 1) /\ Beyond(after, 1, d)
      BY <1>1, <1>15, <2>1, ShiftedRuns
    <2> QED
      BY <2>2, <2>3, Zenon DEF Beyond
  <1>11. /\ \A j \in 1 .. Len(before) : before[j].delta \in Int /\ 1 * before[j].delta < 1 * d
         /\ \A j \in 1 .. Len(after) : after[j].delta \in Int /\ neg * after[j].delta < neg * d
    <2>1. \A e \in ShiftedEntry : e.delta \in Int
      BY DEF ShiftedEntry
    <2> HIDE DEF ShiftedEntry
    <2>2. /\ \A j \in 1 .. Len(before) : before[j] \in ShiftedEntry
          /\ \A j \in 1 .. Len(after) : after[j] \in ShiftedEntry
      BY <1>5, <1>6
    <2>3. /\ \A j \in 1 .. Len(before) : before[j].delta \in Int
          /\ \A j \in 1 .. Len(after) : after[j].delta \in Int
      BY <2>1, <2>2, Zenon
    <2> QED
      BY <1>1, <1>10, <1>14, <2>3
  <1>12. Outwards(Half(after, x, before), -1)
    <2>1. Outwards(Half(after, x, before), neg)
      BY <1>5, <1>6, <1>7, <1>10, <1>11, <1>15, HalfRuns
    <2> QED
      BY <1>14, <2>1
  <1>13. Outwards(Half(before, x, after), 1)
    BY <1>5, <1>6, <1>7, <1>10, <1>11, <1>15, HalfRuns
  <1> QED
    BY <1>5, <1>6, <1>7, <1>8, <1>9, <1>12, <1>13 DEF d, f

\* Those of some entries that are taken on one side.
TakenOf(all, sign) == {AsEntry(y) : y \in {y \in all : OnSide(y, sign)}}

\* What is taken of a half, in no order, is what is taken of its entries.
LEMMA HalfTakes ==
  ASSUME NEW h \in Seq(ShiftedEntry), NEW sign \in {-1, 1}, Outwards(h, sign),
         NEW all, {h[i] : i \in 1 .. Len(h)} = all
  PROVE  /\ Taken(h, sign) \in Seq(RpsEntry)
         /\ Outwards(Taken(h, sign), sign) /\ AllOnSide(Taken(h, sign), sign)
         /\ Range(Taken(h, sign)) = TakenOf(all, sign)
  <1> DEFINE t == Taken(h, sign)
  <1>1. t \in Seq(RpsEntry) /\ TakenSoFar(t, h, sign, Len(h))
    BY TakenIs
  <1>2. DOMAIN t = 1 .. Len(t)
    BY <1>1
  <1> HIDE DEF t
  <1>3. Range(t) = {AsEntry(h[i]) : i \in {i \in 1 .. Len(h) : OnSide(h[i], sign)}}
    BY <1>1, <1>2, Zenon DEF Range, TakenSoFar
  <1>4. {AsEntry(h[i]) : i \in {i \in 1 .. Len(h) : OnSide(h[i], sign)}} = TakenOf(all, sign)
    BY Zenon DEF TakenOf
  <1>5. Outwards(t, sign) /\ AllOnSide(t, sign)
    BY <1>1, Zenon DEF TakenSoFar
  <1> QED
    BY <1>1, <1>3, <1>4, <1>5, Zenon DEF t

\* A set predicted from another has the pictures 7.4.8 means, whatever the size
\* of the other, and is as ordered as that one.
THEOREM PredictedSetIsMeant ==
  ASSUME NEW g, PredictionInput(g)
  PROVE  LET got == PredictedSet(g.ref, g.deltaRps, g.flags)
         IN  OrderedSet(got) /\ Range(got.s0) \cup Range(got.s1) = MeantSet(g)
  <1> DEFINE got == PredictedSet(g.ref, g.deltaRps, g.flags)
             all == AllShifted(g)
             Side(sign) == TakenOf(all, sign)
  <1>1. PICK before \in Seq(ShiftedEntry), after \in Seq(ShiftedEntry), x \in ShiftedEntry :
            /\ got = [s0 |-> Taken(Half(after, x, before), -1), s1 |-> Taken(Half(before, x, after), 1)]
            /\ Outwards(Half(after, x, before), -1) /\ Outwards(Half(before, x, after), 1)
            /\ {before[i] : i \in 1 .. Len(before)} \cup {x} \cup {after[i] : i \in 1 .. Len(after)}
                  = AllShifted(g)
    BY Halves, Zenon
  <1> HIDE DEF got, all
  <1>2. PICK neg \in {-1, 1} : neg = -1
    OBVIOUS
  <1> DEFINE h0 == Half(after, x, before)
             h1 == Half(before, x, after)
  <1>3. h0 \in Seq(ShiftedEntry) /\ h1 \in Seq(ShiftedEntry)
    BY HalfIs, Zenon DEF IsHalf
  <1>4. {h0[i] : i \in 1 .. Len(h0)} = all /\ {h1[i] : i \in 1 .. Len(h1)} = all
    <2>1. {h0[i] : i \in 1 .. Len(h0)}
             = {after[i] : i \in 1 .. Len(after)} \cup {x} \cup {before[i] : i \in 1 .. Len(before)}
      BY HalfHas, Zenon
    <2>2. {h1[i] : i \in 1 .. Len(h1)}
             = {before[i] : i \in 1 .. Len(before)} \cup {x} \cup {after[i] : i \in 1 .. Len(after)}
      BY HalfHas, Zenon
    <2> HIDE DEF h0, h1
    <2> QED
      BY <1>1, <2>1, <2>2, Zenon DEF all
  <1>5. Outwards(h0, neg) /\ Outwards(h1, 1) /\ 1 \in {-1, 1} /\ neg \in {-1, 1}
    BY <1>1, <1>2
  <1> HIDE DEF h0, h1
  <1>6. got.s0 = Taken(h0, neg) /\ got.s1 = Taken(h1, 1)
    BY <1>1, <1>2 DEF h0, h1
  <1>7. /\ Taken(h0, neg) \in Seq(RpsEntry)
        /\ Outwards(Taken(h0, neg), neg) /\ AllOnSide(Taken(h0, neg), neg)
        /\ Range(Taken(h0, neg)) = Side(neg)
    BY <1>3, <1>4, <1>5, HalfTakes
  <1>8. /\ Taken(h1, 1) \in Seq(RpsEntry)
        /\ Outwards(Taken(h1, 1), 1) /\ AllOnSide(Taken(h1, 1), 1)
        /\ Range(Taken(h1, 1)) = Side(1)
    BY <1>3, <1>4, <1>5, HalfTakes
  <1>9. OrderedSet(got)
    BY <1>2, <1>6, <1>7, <1>8 DEF OrderedSet
  <1>10. Range(got.s0) \cup Range(got.s1) = Side(neg) \cup Side(1)
    BY <1>6, <1>7, <1>8, Zenon
  <1> DEFINE seq == g.ref.s0 \o g.ref.s1 \o <<[delta |-> 0, used |-> TRUE]>>
             d == g.deltaRps
             y(j) == [delta |-> seq[j].delta + d, flags |-> g.flags[j]]
             Meant(j) == g.flags[j].useDelta /\ seq[j].delta + d # 0
  <1>11. all = {y(j) : j \in DOMAIN seq}
    BY Zenon DEF all, AllShifted
  <1>12. \A j \in DOMAIN seq : Meant(j) <=> OnSide(y(j), neg) \/ OnSide(y(j), 1)
    <2>1. all \subseteq ShiftedEntry
      BY <1>1, <1>3, <1>4
    <2>2. \A e \in ShiftedEntry : e.delta \in Int
      BY DEF ShiftedEntry
    <2> HIDE DEF ShiftedEntry, seq
    <2>3. TAKE j \in DOMAIN seq
    <2>4. /\ y(j) \in all
          /\ y(j).delta = seq[j].delta + d /\ y(j).flags = g.flags[j]
      BY <1>11
    <2>5. y(j).delta \in Int
      BY <2>1, <2>2, <2>4, Zenon
    <2> HIDE DEF y
    <2>6. OnSide(y(j), neg) <=> y(j).delta < 0 /\ y(j).flags.useDelta
      BY <1>2, <2>5 DEF OnSide
    <2>7. OnSide(y(j), 1) <=> y(j).delta > 0 /\ y(j).flags.useDelta
      BY <2>5 DEF OnSide
    <2>8. y(j).delta # 0 <=> y(j).delta < 0 \/ y(j).delta > 0
      BY <2>5
    <2> QED
      BY <2>4, <2>6, <2>7, <2>8, Zenon
  <1>13. \A j \in DOMAIN seq :
            AsEntry(y(j)) = [delta |-> seq[j].delta + d, used |-> g.flags[j].used]
    <2> HIDE DEF seq
    <2> QED
      BY DEF AsEntry
  <1>14. Side(neg) \cup Side(1)
            = {[delta |-> seq[j].delta + d, used |-> g.flags[j].used] : j \in {j \in DOMAIN seq : Meant(j)}}
    <2> HIDE DEF seq, y, Meant
    <2> DEFINE E(j) == [delta |-> seq[j].delta + d, used |-> g.flags[j].used]
               M == {E(j) : j \in {j \in DOMAIN seq : Meant(j)}}
    <2>1. ASSUME NEW e \in Side(neg) \cup Side(1) PROVE e \in M
      <3>1. PICK j \in DOMAIN seq : e = AsEntry(y(j)) /\ (OnSide(y(j), neg) \/ OnSide(y(j), 1))
        BY <1>11, <2>1, Zenon DEF TakenOf
      <3> QED
        BY <1>12, <1>13, <3>1, Zenon
    <2>2. ASSUME NEW e \in M PROVE e \in Side(neg) \cup Side(1)
      <3>1. PICK j \in DOMAIN seq : Meant(j) /\ e = E(j)
        BY <2>2, Zenon
      <3>2. y(j) \in all /\ e = AsEntry(y(j)) /\ (OnSide(y(j), neg) \/ OnSide(y(j), 1))
        BY <1>11, <1>12, <1>13, <3>1, Zenon
      <3> QED
        BY <3>2, Zenon DEF TakenOf
    <2> QED
      BY <2>1, <2>2, Zenon
  <1>15. Range(got.s0) \cup Range(got.s1) = MeantSet(g)
    BY <1>10, <1>14, Zenon DEF MeantSet
  <1> QED
    BY <1>9, <1>15 DEF got

\* A function that adds up integers from 0 is their sums.
LEMMA AddsUp ==
  ASSUME NEW n \in Nat, NEW f \in [1 .. n -> Int], NEW w, w = [i \in 0 .. n |-> w[i]],
         w[0] = 0, \A i \in 1 .. n : w[i] = w[i - 1] + f[i]
  PROVE  Sums(w, f, n)
  <1> DEFINE T == {i \in 0 .. n : w[i] \in Int}
  <1>1. 0 \in T
    OBVIOUS
  <1>2. ASSUME NEW i \in 1 .. n, i - 1 \in T PROVE i \in T
    <2>1. f[i] \in Int /\ i \in 0 .. n /\ \A a, b \in Int : a + b \in Int
      OBVIOUS
    <2> QED
      BY <1>2, <2>1, Zenon
  <1>3. T = 0 .. n
    <2>1. T \subseteq 0 .. n
      OBVIOUS
    <2> HIDE DEF T
    <2> QED
      BY <1>1, <1>2, <2>1, Onwards
  <1>4. w \in [0 .. n -> Int]
    <2>1. \A i \in 0 .. n : w[i] \in Int
      BY <1>3
    <2> QED
      BY <2>1
  <1> QED
    BY <1>4 DEF Sums

\* A difference of a set coded on its own: to the entry before, never 0.
RpsStep == [step : Nat \ {0}, used : BOOLEAN]

\* The differences of a sequence of steps.
LEMMA StepsOf ==
  ASSUME NEW s \in Seq(RpsStep)
  PROVE  /\ Len(s) \in Nat
         /\ \A i \in 1 .. Len(s) : /\ s[i].step \in Nat \ {0} /\ s[i].step \in Int
                                  /\ s[i].used \in BOOLEAN
  <1>1. \A e \in RpsStep : e.step \in Nat \ {0} /\ e.step \in Int /\ e.used \in BOOLEAN
    BY DEF RpsStep
  <1>2. Len(s) \in Nat /\ \A i \in 1 .. Len(s) : s[i] \in RpsStep
    OBVIOUS
  <1> QED
    BY <1>1, <1>2, Zenon

\* Summed puts the sums of the differences beside their flags.
LEMMA SummedRun ==
  ASSUME NEW s \in Seq(RpsStep), NEW sign \in {-1, 1}
  PROVE  \E w : /\ Sums(w, [i \in 1 .. Len(s) |-> sign * s[i].step], Len(s))
                /\ Summed(s, sign) = [i \in 1 .. Len(s) |-> [delta |-> w[i], used |-> s[i].used]]
  <1> DEFINE n == Len(s)
             f == [i \in 1 .. n |-> sign * s[i].step]
             P(u) == u = [i \in 0 .. n |-> IF i = 0 THEN 0 ELSE u[i - 1] + sign * s[i].step]
             w == CHOOSE u : P(u)
  <1>1. n \in Nat /\ \A i \in 1 .. n : s[i].step \in Int
    BY StepsOf
  <1>2. f \in [1 .. n -> Int] /\ \A i \in 1 .. n : f[i] = sign * s[i].step
    BY <1>1
  <1>3. Summed(s, sign) = [i \in 1 .. n |-> [delta |-> w[i], used |-> s[i].used]]
    BY Zenon DEF Summed
  <1> HIDE DEF f, n
  <1>4. PICK v : Sums(v, f, n)
    BY <1>1, <1>2, SumsExist
  <1>5. P(v)
    <2>1. v = [i \in 0 .. n |-> v[i]]
      BY <1>4 DEF Sums
    <2>2. \A i \in 0 .. n : v[i] = IF i = 0 THEN 0 ELSE v[i - 1] + sign * s[i].step
      <3>1. \A i \in 0 .. n : i = 0 \/ (i \in 1 .. n /\ i # 0)
        BY <1>1
      <3> QED
        BY <1>2, <1>4, <3>1, Zenon DEF Sums
    <2> QED
      BY <2>1, <2>2, Zenon
  <1>6. P(w)
    <2> HIDE DEF P
    <2> QED
      BY <1>5
  <1> HIDE DEF w
  <1>7. w = [i \in 0 .. n |-> w[i]] /\ w[0] = 0 /\ \A i \in 1 .. n : w[i] = w[i - 1] + f[i]
    <2>1. \A i \in 0 .. n : w[i] = IF i = 0 THEN 0 ELSE w[i - 1] + sign * s[i].step
      BY <1>6, Zenon
    <2>2. 0 \in 0 .. n /\ \A i \in 1 .. n : i \in 0 .. n /\ i # 0
      BY <1>1
    <2> QED
      BY <1>2, <1>6, <2>1, <2>2, Zenon
  <1>8. Sums(w, f, n)
    BY <1>1, <1>2, <1>7, AddsUp
  <1> QED
    BY <1>3, <1>8 DEF f, n

\* The sums run away from 0 on their side.
LEMMA SumsRun ==
  ASSUME NEW n \in Nat, NEW f \in [1 .. n -> Int], NEW sign \in {-1, 1}, NEW w, Sums(w, f, n),
         \A i \in 1 .. n : sign * f[i] > 0
  PROVE  \A j \in 0 .. n : \A i \in 0 .. n : i < j => sign * w[i] < sign * w[j]
  <1> DEFINE T == {j \in 0 .. n : \A i \in 0 .. n : i < j => sign * w[i] < sign * w[j]}
  <1>1. 0 \in T
    OBVIOUS
  <1>2. ASSUME NEW j \in 1 .. n, j - 1 \in T PROVE j \in T
    <2>1. w[j] = w[j - 1] + f[j] /\ w[j - 1] \in Int /\ w[j] \in Int /\ f[j] \in Int
      BY DEF Sums
    <2>2. sign * w[j - 1] < sign * w[j]
      BY <2>1
    <2>4. \A a, b, c \in Int : sign * a < sign * b /\ sign * b < sign * c => sign * a < sign * c
      OBVIOUS
    <2>3. ASSUME NEW i \in 0 .. n, i < j PROVE sign * w[i] < sign * w[j]
      <3>1. i = j - 1 \/ i < j - 1
        BY <2>3
      <3>2. CASE i < j - 1
        <4>1. sign * w[i] < sign * w[j - 1]
          BY <1>2, <3>2
        <4>2. w[i] \in Int
          BY DEF Sums
        <4> QED
          BY <2>1, <2>2, <2>4, <4>1, <4>2, Zenon
      <3> QED
        BY <2>2, <3>1, <3>2
    <2> QED
      BY <2>3
  <1>3. T = 0 .. n
    <2>1. T \subseteq 0 .. n
      OBVIOUS
    <2> HIDE DEF T
    <2> QED
      BY <1>1, <1>2, <2>1, Onwards
  <1> QED
    BY <1>3

\* A half that is coded on its own runs outwards.
LEMMA SummedIs ==
  ASSUME NEW s \in Seq(RpsStep), NEW sign \in {-1, 1}
  PROVE  /\ Summed(s, sign) \in Seq(RpsEntry) /\ Len(Summed(s, sign)) = Len(s)
         /\ Outwards(Summed(s, sign), sign) /\ AllOnSide(Summed(s, sign), sign)
  <1> DEFINE n == Len(s)
             f == [i \in 1 .. n |-> sign * s[i].step]
             t == Summed(s, sign)
  <1>1. PICK w : Sums(w, f, n) /\ t = [i \in 1 .. n |-> [delta |-> w[i], used |-> s[i].used]]
    BY SummedRun
  <1>2. n \in Nat /\ \A i \in 1 .. n : s[i].step \in Nat \ {0} /\ s[i].used \in BOOLEAN
    BY StepsOf
  <1>3. f \in [1 .. n -> Int] /\ \A i \in 1 .. n : sign * f[i] > 0
    <2>1. \A a \in Nat \ {0} : sign * a \in Int /\ sign * (sign * a) > 0
      OBVIOUS
    <2>2. \A i \in 1 .. n : f[i] = sign * s[i].step
      OBVIOUS
    <2> QED
      BY <1>2, <2>1, <2>2
  <1> HIDE DEF f, n, t
  <1>4. \A i \in 1 .. n : [delta |-> w[i], used |-> s[i].used] \in RpsEntry
    <2>1. \A i \in 1 .. n : w[i] \in Int
      BY <1>1, <1>2 DEF Sums
    <2> QED
      BY <1>2, <2>1 DEF RpsEntry
  <1>5. t \in Seq(RpsEntry) /\ Len(t) = n
    <2> HIDE DEF RpsEntry
    <2>1. t \in [1 .. n -> RpsEntry]
      BY <1>1, <1>4
    <2> QED
      BY <1>2, <2>1
  <1>6. \A i \in 1 .. n : t[i].delta = w[i]
    BY <1>1
  <1>7. \A j \in 0 .. n : \A i \in 0 .. n : i < j => sign * w[i] < sign * w[j]
    BY <1>1, <1>2, <1>3, SumsRun
  <1>8. w[0] = 0 /\ 0 \in 0 .. n /\ \A i \in 1 .. n : i \in 0 .. n /\ 0 < i
    BY <1>1, <1>2 DEF Sums
  <1>9. Outwards(t, sign)
    BY <1>5, <1>6, <1>7, <1>8, Zenon DEF Outwards
  <1>10. AllOnSide(t, sign)
    <2>1. \A i \in 1 .. n : sign * w[0] < sign * w[i]
      BY <1>7, <1>8, Zenon
    <2>2. \A i \in 1 .. n : sign * w[i] > 0
      <3>1. \A i \in 1 .. n : w[i] \in Int
        BY <1>1, <1>2 DEF Sums
      <3> QED
        BY <1>8, <2>1, <3>1
    <2> QED
      BY <1>5, <1>6, <2>2, Zenon DEF AllOnSide
  <1> QED
    BY <1>5, <1>9, <1>10 DEF t, n

\* A set coded on its own is ordered.
LEMMA CodedIsOrdered ==
  ASSUME NEW neg \in Seq(RpsStep), NEW pos \in Seq(RpsStep)
  PROVE  LET set == Coded(neg, pos)
         IN  OrderedSet(set) /\ Len(set.s0) = Len(neg) /\ Len(set.s1) = Len(pos)
  <1>1. PICK back \in {-1, 1} : back = -1
    OBVIOUS
  <1>2. back \in {-1, 1} /\ 1 \in {-1, 1}
    OBVIOUS
  <1>3. /\ Summed(neg, back) \in Seq(RpsEntry) /\ Len(Summed(neg, back)) = Len(neg)
        /\ Outwards(Summed(neg, back), back) /\ AllOnSide(Summed(neg, back), back)
    BY <1>2, SummedIs
  <1>4. /\ Summed(pos, 1) \in Seq(RpsEntry) /\ Len(Summed(pos, 1)) = Len(pos)
        /\ Outwards(Summed(pos, 1), 1) /\ AllOnSide(Summed(pos, 1), 1)
    BY <1>2, SummedIs
  <1>5. Coded(neg, pos).s0 = Summed(neg, back) /\ Coded(neg, pos).s1 = Summed(pos, 1)
    BY <1>1 DEF Coded
  <1> QED
    BY <1>1, <1>3, <1>4, <1>5 DEF OrderedSet

\* What the runs predict from.
LEMMA RpsShape ==
  ASSUME NEW g \in RpsInputs
  PROVE  PredictionInput(g)
  <1>1. PICK s \in [neg : Steps, pos : Steps] :
           g \in [ref : {Coded(s.neg, s.pos)}, deltaRps : {-3, -1, 1, 2},
                  flags : [1 .. Len(s.neg) + Len(s.pos) + 1 -> Flags]]
    BY Zenon DEF RpsInputs
  <1>2. PICK neg \in Steps, pos \in Steps : neg = s.neg /\ pos = s.pos
    BY <1>1
  <1>3. Steps \subseteq Seq(RpsStep)
    <2> DEFINE S == [step : {1, 2}, used : {TRUE}]
    <2>1. S \subseteq RpsStep
      <3> SUFFICES ASSUME NEW e \in S PROVE e \in RpsStep
        OBVIOUS
      <3>1. e = [step |-> e.step, used |-> e.used] /\ e.step \in {1, 2} /\ e.used = TRUE
        OBVIOUS
      <3>2. e.step \in Nat \ {0}
        BY <3>1
      <3>3. e.used \in BOOLEAN
        BY <3>1, Zenon
      <3> QED
        BY <3>1, <3>2, <3>3, Zenon DEF RpsStep
    <2> HIDE DEF S, RpsStep
    <2>2. ASSUME NEW n \in 0 .. 2, NEW u \in [1 .. n -> S] PROVE u \in Seq(RpsStep)
      <3>1. u \in [1 .. n -> RpsStep] /\ n \in Nat
        BY <2>1
      <3> QED
        BY <3>1
    <2>3. ASSUME NEW u \in Steps PROVE u \in Seq(RpsStep)
      <3>1. PICK n \in 0 .. 2 : u \in [1 .. n -> S]
        BY Zenon DEF Steps, S
      <3> QED
        BY <2>2, <3>1, Zenon
    <2> QED
      BY <2>3, Zenon
  <1>4. /\ g.ref = Coded(neg, pos) /\ g.deltaRps \in Int
        /\ g.flags \in [1 .. Len(neg) + Len(pos) + 1 -> Flags]
    BY <1>1, <1>2
  <1>5. /\ OrderedSet(Coded(neg, pos))
        /\ Len(Coded(neg, pos).s0) = Len(neg) /\ Len(Coded(neg, pos).s1) = Len(pos)
    BY <1>2, <1>3, CodedIsOrdered
  <1> QED
    BY <1>4, <1>5, Zenon DEF PredictionInput

\* What runs outwards on a side is ordered as it is coded.
LEMMA HalfReads ==
  ASSUME NEW s \in Seq(RpsEntry), NEW sign \in {-1, 1}, Outwards(s, sign), AllOnSide(s, sign)
  PROVE  /\ sign = -1 => /\ \A i, j \in DOMAIN s : i < j => s[j].delta < s[i].delta
                         /\ \A i \in DOMAIN s : s[i].delta < 0
         /\ sign = 1 => /\ \A i, j \in DOMAIN s : i < j => s[j].delta > s[i].delta
                        /\ \A i \in DOMAIN s : s[i].delta > 0
  <1>1. DOMAIN s = 1 .. Len(s) /\ \A i \in 1 .. Len(s) : s[i].delta \in Int
    BY Deltas
  <1>2. \A i, j \in 1 .. Len(s) : i < j => sign * s[i].delta < sign * s[j].delta
    BY Zenon DEF Outwards
  <1>3. \A i \in 1 .. Len(s) : sign * s[i].delta > 0
    BY Zenon DEF AllOnSide
  <1>4. CASE sign = -1
    BY <1>1, <1>2, <1>3, <1>4
  <1>5. CASE sign = 1
    BY <1>1, <1>2, <1>3, <1>5
  <1> QED
    BY <1>4, <1>5

\* A predicted set (parse_short_term_ref_pic_set) has the pictures that are meant,
\* each with its own flag, in halves that run outwards, in every behaviour of the runs.
THEOREM SetsOfEncoder == MCSpec => []SetsAreEncoders
  <1>1. given \in Inputs(part) => SetsAreEncoders
    <2> SUFFICES ASSUME part = "rps", given \in RpsInputs
                 PROVE  SetsAreEncoders
      BY DEF SetsAreEncoders, Inputs
    <2>1. PICK g : g = given
      OBVIOUS
    <2>2. PredictionInput(g)
      BY <2>1, RpsShape
    <2>3. PICK got : got = PredictedSet(g.ref, g.deltaRps, g.flags)
      OBVIOUS
    <2>4. OrderedSet(got) /\ Range(got.s0) \cup Range(got.s1) = MeantSet(g)
      BY <2>2, <2>3, PredictedSetIsMeant
    <2>5. PICK back \in {-1, 1} : back = -1
      OBVIOUS
    <2>6. /\ \A i, j \in DOMAIN got.s0 : i < j => got.s0[j].delta < got.s0[i].delta
          /\ \A i \in DOMAIN got.s0 : got.s0[i].delta < 0
      <3>1. got.s0 \in Seq(RpsEntry) /\ Outwards(got.s0, back) /\ AllOnSide(got.s0, back)
        BY <2>4, <2>5 DEF OrderedSet
      <3>2. back \in {-1, 1}
        OBVIOUS
      <3> QED
        BY <2>5, <3>1, <3>2, HalfReads, Zenon
    <2>7. /\ \A i, j \in DOMAIN got.s1 : i < j => got.s1[j].delta > got.s1[i].delta
          /\ \A i \in DOMAIN got.s1 : got.s1[i].delta > 0
      <3>1. got.s1 \in Seq(RpsEntry) /\ Outwards(got.s1, 1) /\ AllOnSide(got.s1, 1) /\ 1 \in {-1, 1}
        BY <2>4 DEF OrderedSet
      <3> QED
        BY <3>1, HalfReads, Zenon
    <2> QED
      BY <2>1, <2>3, <2>4, <2>6, <2>7, Zenon DEF SetsAreEncoders
  <1> QED
    BY <1>1, GivenStays, PTL
=============================================================================
