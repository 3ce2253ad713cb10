--------------------------- MODULE EncoderProofs ---------------------------
(***************************************************************************)
(* The stream of the encoder is whole for a receiver, for any group        *)
(* length, moduli and bitrates, and whatever calls fail.  The contexts of  *)
(* the video processor in front of it are whole, and the frames it lent    *)
(* keep their content, for any sizes and any number of surfaces.           *)
(***************************************************************************)
EXTENDS MCEncoder, FiniteSetTheorems, WellFoundedInduction, TLAPS

-----------------------------------------------------------------------------
(* Remainders *)

LEMMA Division ==
  ASSUME NEW a \in Nat, NEW m \in Nat \ {0}
  PROVE  /\ a \div m \in Int
         /\ a = m * (a \div m) + (a % m)
         /\ a % m \in 0 .. m - 1
  <1>1. a \div m \in Int
    OBVIOUS
  <1>2. a = m * (a \div m) + (a % m)
    OBVIOUS
  <1>3. a % m \in 0 .. m - 1
    OBVIOUS
  <1> QED
    BY <1>1, <1>2, <1>3

LEMMA RemainderOfSum ==
  ASSUME NEW q \in Int, NEW r \in Int, NEW m \in Nat \ {0}, 0 <= r, r < m
  PROVE  (m * q + r) % m = r
  OBVIOUS

LEMMA NoRemainder ==
  ASSUME NEW m \in Nat \ {0}
  PROVE  0 % m = 0 /\ m % m = 0
  <1>1. 0 % m = 0
    OBVIOUS
  <1>2. m % m = 0
    OBVIOUS
  <1> QED
    BY <1>1, <1>2

\* A count taken modulo m goes up by one, or starts over.
LEMMA NextRemainder ==
  ASSUME NEW a \in Nat, NEW m \in Nat \ {0}
  PROVE  (a + 1) % m = ((a % m) + 1) % m
  <1> DEFINE q == a \div m
             r == a % m
  <1>1. q \in Int /\ r \in 0 .. m - 1 /\ a = m * q + r
    BY Division
  <1> HIDE DEF q, r
  <1>2. CASE r + 1 < m
    <2>1. a + 1 = m * q + (r + 1)
      BY <1>1
    <2>2. (m * q + (r + 1)) % m = r + 1
      BY <1>1, <1>2, RemainderOfSum
    <2>3. (r + 1) % m = r + 1
      BY <1>1, <1>2
    <2> QED
      BY <2>1, <2>2, <2>3 DEF r
  <1>3. CASE r + 1 = m
    <2>1. a + 1 = m * (q + 1) + 0
      BY <1>1, <1>3
    <2>2. (m * (q + 1) + 0) % m = 0
      BY <1>1, RemainderOfSum
    <2>3. (r + 1) % m = 0
      BY <1>3, NoRemainder
    <2> QED
      BY <2>1, <2>2, <2>3 DEF r
  <1> QED
    BY <1>1, <1>2, <1>3

\* Two pictures in a row are on different surfaces.
LEMMA Alternating ==
  ASSUME NEW a \in Nat
  PROVE  a % 2 \in 0 .. 1 /\ (a + 1) % 2 # a % 2
  OBVIOUS

-----------------------------------------------------------------------------
(* The invariant *)

Latest == returned[Len(returned)]

\* The reference is the picture that was returned last, as its surface still
\* shows it; without a reference the count is at its start, and there the next
\* picture is an IDR.
Referenced ==
    /\ counter \in 0 .. Gop
    /\ counter = 0 <=> reference = NoReference
    /\ counter # 0 =>
          /\ returned # <<>>
          /\ reference = [index |-> Latest.count % 2, count |-> Latest.count]
          /\ recon[Latest.count % 2] = Latest.number
          /\ counter = Latest.count + 1

\* A picture's count is that of its group, and its frame_num follows from it.
HeadedAt(s, n) ==
    /\ s[n].count < Gop
    /\ s[n].count < n
    /\ s[n - s[n].count].idr
    /\ s[n].frameNum = s[n].count % Limit

Headed == \A n \in DOMAIN returned : HeadedAt(returned, n)

\* StreamContinues of the picture p, with q before it.
OrderCount(c, q) == IF c = "H264" THEN 2 * q.count ELSE q.count

Continues(c, p, q) ==
    /\ p.predicts
    /\ p.from = q.number
    /\ p.fromPoc = OrderCount(c, q)
    /\ p.frameNum = (q.frameNum + 1) % Limit
    /\ p.count = q.count + 1

Starts(p) == ~p.predicts /\ p.frameNum = 0 /\ p.lsb = 0

ContinuesAt(c, s, n) ==
    IF s[n].idr THEN Starts(s[n]) ELSE n > 1 /\ Continues(c, s[n], s[n - 1])

\* A key frame that failed left the count at its start.
Owing == owed => counter = 0

\* What the driver has not been told is still to be told.
Telling == returned # <<>> /\ ~resetRateControl => Latest.rate = bitrate

IInv ==
    /\ TypeOK
    /\ Referenced
    /\ Headed
    /\ Owing
    /\ Telling
    /\ StreamContinues
    /\ KeyFrameOwed
    /\ RateFollows

-----------------------------------------------------------------------------
(* One picture *)

\* A picture that is not an IDR has a reference and does not start a group.
LEMMA NotIdr ==
  ASSUME IInv, NEW keyframe \in BOOLEAN, ~IsIdr(keyframe)
  PROVE  counter \in 1 .. Gop - 1
  <1>1. counter \in 0 .. Gop /\ counter # 0 /\ counter # Gop
    BY EncoderAssumption, NoRemainder DEF IInv, Referenced, IsIdr
  <1> QED
    BY <1>1, EncoderAssumption

LEMMA CountType ==
  ASSUME IInv, NEW keyframe \in BOOLEAN
  PROVE  /\ Count(keyframe) \in 0 .. Gop - 1
         /\ Count(keyframe) \in Nat
         /\ ReconIndex(Count(keyframe)) \in 0 .. 1
  <1>1. Count(keyframe) \in 0 .. Gop - 1
    <2>1. CASE IsIdr(keyframe)
      BY <2>1, EncoderAssumption DEF Count
    <2>2. CASE ~IsIdr(keyframe)
      BY <2>2, NotIdr, EncoderAssumption DEF Count
    <2> QED
      BY <2>1, <2>2
  <1>2. Count(keyframe) \in Nat
    BY <1>1, EncoderAssumption
  <1>3. Count(keyframe) % 2 \in 0 .. 1
    BY <1>2
  <1> QED
    BY <1>1, <1>2, <1>3 DEF ReconIndex

LEMMA LsbType ==
  ASSUME NEW count \in Nat
  PROVE  Lsb(count) \in Nat /\ Lsb(0) = 0
  <1>1. 2 * Limit \in Nat \ {0} /\ 2 * count \in Nat /\ PocLsb \in Nat \ {0}
    BY EncoderAssumption
  <1>2. (2 * count) % (2 * Limit) \in Nat /\ count % PocLsb \in Nat
    BY <1>1, Division
  <1>3. (2 * 0) % (2 * Limit) = 0 /\ 0 % PocLsb = 0
    BY <1>1, NoRemainder
  <1> QED
    BY <1>2, <1>3 DEF Lsb

\* What FrameMeta::new and the headers say of a picture, field by field.
LEMMA PictureFields ==
  ASSUME NEW idr, NEW count, NEW ref
  PROVE  LET p == Picture(idr, count, ref)
         IN  /\ p.number = attempts + 1
             /\ p.idr = idr
             /\ p.count = count
             /\ p.frameNum = count % Limit
             /\ p.lsb = Lsb(count)
             /\ p.predicts = (ref # NoReference)
             /\ p.from = IF ref = NoReference THEN 0 ELSE recon[ref.index]
             /\ ref # NoReference =>
                   p.fromPoc = IF codec = "H264" THEN 2 * ref.count ELSE count - 1
             /\ ref = NoReference => p.fromPoc = 0
             /\ p.rate = bitrate
             /\ p.reset = resetRateControl
             /\ p.owed = owed
  <1> DEFINE from == IF ref = NoReference THEN 0 ELSE recon[ref.index]
             poc == IF ref = NoReference THEN 0
                    ELSE IF codec = "H264" THEN 2 * ref.count ELSE count - 1
             predicts == ref # NoReference
             frameNum == count % Limit
             lsb == Lsb(count)
             number == attempts + 1
             p == Picture(idr, count, ref)
  <1>1. p = [number |-> number, idr |-> idr, count |-> count, frameNum |-> frameNum, lsb |-> lsb,
             predicts |-> predicts, from |-> from, fromPoc |-> poc, idrPicId |-> 0,
             rate |-> bitrate, reset |-> resetRateControl, owed |-> owed]
    BY DEF Picture
  <1>2. ref # NoReference => poc = IF codec = "H264" THEN 2 * ref.count ELSE count - 1
    <2>1. CASE ref # NoReference /\ codec = "H264"
      BY <2>1
    <2>2. CASE ref # NoReference /\ codec # "H264"
      BY <2>2
    <2> QED
      BY <2>1, <2>2
  <1>3. ref = NoReference => poc = 0
    OBVIOUS
  <1> HIDE DEF from, poc, predicts, frameNum, lsb, number, p
  <1>4. /\ p.number = number /\ p.idr = idr /\ p.count = count /\ p.frameNum = frameNum
        /\ p.lsb = lsb /\ p.predicts = predicts /\ p.from = from /\ p.fromPoc = poc
        /\ p.rate = bitrate /\ p.reset = resetRateControl /\ p.owed = owed
    BY <1>1
  <1> QED
    BY <1>2, <1>3, <1>4 DEF from, predicts, frameNum, lsb, number, p

\* The picture that comes next.
LEMMA PictureType ==
  ASSUME IInv, NEW keyframe \in BOOLEAN
  PROVE  Picture(IsIdr(keyframe), Count(keyframe), Ref(keyframe)) \in PictureInfo
  <1> DEFINE ref == Ref(keyframe)
             count == Count(keyframe)
             from == IF ref = NoReference THEN 0 ELSE recon[ref.index]
             poc == IF ref = NoReference THEN 0
                    ELSE IF codec = "H264" THEN 2 * ref.count ELSE count - 1
  <1>1. ref \in [index : 0 .. 1, count : Nat] \cup {NoReference}
    BY DEF IInv, TypeOK, Ref
  <1>2. count \in Nat /\ Lsb(count) \in Nat
    BY CountType, LsbType
  <1>3. Limit \in Nat \ {0}
    BY EncoderAssumption
  <1>4. recon \in [0 .. 1 -> Nat] /\ codec \in {"H264", "H265"}
    BY DEF IInv, TypeOK
  <1>5. /\ bitrate \in Nat /\ resetRateControl \in BOOLEAN /\ owed \in BOOLEAN
        /\ attempts + 1 \in Nat
    BY EncoderAssumption DEF IInv, TypeOK
  <1>6. IsIdr(keyframe) \in BOOLEAN /\ (ref # NoReference) \in BOOLEAN
    BY DEF IsIdr
  <1>7. Picture(IsIdr(keyframe), count, ref)
          = [number |-> attempts + 1, idr |-> IsIdr(keyframe), count |-> count,
             frameNum |-> count % Limit, lsb |-> Lsb(count),
             predicts |-> ref # NoReference, from |-> from, fromPoc |-> poc,
             idrPicId |-> 0, rate |-> bitrate, reset |-> resetRateControl, owed |-> owed]
    BY DEF Picture
  <1> HIDE DEF ref, count
  <1>8. count % Limit \in Nat
    BY <1>2, <1>3, Division
  <1>9. from \in Nat
    BY <1>1, <1>4
  <1>10. poc \in Int
    <2>1. CASE ref = NoReference
      BY <2>1
    <2>2. CASE ref # NoReference
      <3>1. 2 * ref.count \in Int /\ count - 1 \in Int
        BY <1>1, <1>2, <2>2
      <3>2. CASE codec = "H264"
        BY <2>2, <3>1, <3>2
      <3>3. CASE codec # "H264"
        BY <2>2, <3>1, <3>3
      <3> QED
        BY <3>2, <3>3
    <2> QED
      BY <2>1, <2>2
  <1> HIDE DEF from, poc
  <1>11. Picture(IsIdr(keyframe), count, ref) \in PictureInfo
    <2> DEFINE idr == IsIdr(keyframe)
               number == attempts + 1
               frameNum == count % Limit
               lsb == Lsb(count)
               predicts == ref # NoReference
    <2>1. /\ idr \in BOOLEAN /\ number \in Nat /\ frameNum \in Nat /\ lsb \in Nat
          /\ predicts \in BOOLEAN /\ bitrate \in Nat /\ resetRateControl \in BOOLEAN
          /\ owed \in BOOLEAN
      BY <1>2, <1>5, <1>6, <1>8
    <2> HIDE DEF idr, number, frameNum, lsb, predicts
    <2>2. [number |-> number, idr |-> idr, count |-> count, frameNum |-> frameNum, lsb |-> lsb,
           predicts |-> predicts, from |-> from, fromPoc |-> poc, idrPicId |-> 0,
           rate |-> bitrate, reset |-> resetRateControl, owed |-> owed] \in PictureInfo
      BY <1>2, <1>9, <1>10, <2>1 DEF PictureInfo
    <2> QED
      BY <1>7, <2>2, Zenon DEF idr, number, frameNum, lsb, predicts
  <1> QED
    BY <1>11 DEF count, ref

-----------------------------------------------------------------------------
(* The invariant is kept *)

\* What a sequence holds once a picture was appended to it.
LEMMA Appended ==
  ASSUME NEW s \in Seq(PictureInfo), NEW e \in PictureInfo
  PROVE  /\ Append(s, e) \in Seq(PictureInfo)
         /\ Append(s, e) # <<>>
         /\ Len(Append(s, e)) = Len(s) + 1
         /\ Append(s, e)[Len(s) + 1] = e
         /\ DOMAIN Append(s, e) = 1 .. Len(s) + 1
         /\ DOMAIN s = 1 .. Len(s)
         /\ \A n \in 1 .. Len(s) : Append(s, e)[n] = s[n]
         /\ Len(s) \in Nat
         /\ s # <<>> => Len(s) \in 1 .. Len(s) /\ s[Len(s)] \in PictureInfo
  <1> DEFINE t == Append(s, e)
  <1>1. t \in Seq(PictureInfo) /\ Len(t) = Len(s) + 1 /\ Len(s) \in Nat
    OBVIOUS
  <1>2. t[Len(s) + 1] = e
    OBVIOUS
  <1>3. \A n \in 1 .. Len(s) : t[n] = s[n]
    OBVIOUS
  <1>4. DOMAIN s = 1 .. Len(s)
    OBVIOUS
  <1>5. DOMAIN t = 1 .. Len(s) + 1
    BY <1>1
  <1>6. t # <<>>
    BY <1>1
  <1>7. s # <<>> => Len(s) \in 1 .. Len(s) /\ s[Len(s)] \in PictureInfo
    OBVIOUS
  <1> QED
    BY <1>1, <1>2, <1>3, <1>4, <1>5, <1>6, <1>7

\* The picture returned last is one.
LEMMA LatestTyped ==
  ASSUME TypeOK, returned # <<>>
  PROVE  /\ Latest \in PictureInfo
         /\ Latest.count \in Nat
         /\ Len(returned) \in DOMAIN returned
  <1>1. returned \in Seq(PictureInfo)
    BY DEF TypeOK
  <1>2. Latest \in PictureInfo /\ Len(returned) \in DOMAIN returned
    BY <1>1 DEF Latest
  <1> QED
    BY <1>2 DEF PictureInfo

\* Each picture returned is one.
LEMMA ReturnedTyped ==
  ASSUME TypeOK, NEW n \in DOMAIN returned
  PROVE  returned[n].count \in Nat
  <1>1. returned \in Seq(PictureInfo)
    BY DEF TypeOK
  <1>2. returned[n] \in PictureInfo
    BY <1>1
  <1> QED
    BY <1>2 DEF PictureInfo

LEMMA StreamContinuesAt ==
  StreamContinues <=> \A n \in DOMAIN returned : ContinuesAt(codec, returned, n)
  BY DEF StreamContinues, ContinuesAt, Continues, Starts, OrderCount, Poc

LEMMA StreamContinuesNext ==
  StreamContinues' <=> \A n \in DOMAIN returned' : ContinuesAt(codec', returned', n)
  BY DEF StreamContinues, ContinuesAt, Continues, Starts, OrderCount, Poc

LEMMA InitIInv == Init => IInv
  <1> SUFFICES ASSUME Init PROVE IInv
    OBVIOUS
  <1> USE DEF Init
  <1>1. bitrate \in Rates \ {0} /\ bitrate \in Nat
    BY EncoderAssumption
  <1>2. CodedSize(bitrate) \in Nat
    BY <1>1, EncoderAssumption DEF CodedSize
  <1>3. DOMAIN returned = {} /\ returned = <<>> /\ returned \in Seq(PictureInfo)
    OBVIOUS
  <1>4. TypeOK
    BY <1>1, <1>2, <1>3 DEF TypeOK
  <1>5. Referenced
    BY EncoderAssumption DEF Referenced
  <1>6. Headed /\ Telling /\ Owing
    BY <1>3 DEF Headed, Telling, Owing
  <1>7. StreamContinues /\ KeyFrameOwed /\ RateFollows
    BY <1>3 DEF StreamContinues, KeyFrameOwed, RateFollows
  <1> QED
    BY <1>4, <1>5, <1>6, <1>7 DEF IInv

\* What is said of the pictures returned stays true when none is.
LEMMA ReturnedKept ==
  ASSUME IInv, UNCHANGED <<returned, codec>>
  PROVE  Headed' /\ StreamContinues' /\ KeyFrameOwed' /\ RateFollows'
  BY DEF IInv, Headed, HeadedAt, StreamContinues, KeyFrameOwed, RateFollows, Poc

LEMMA ReconstructedType ==
  ASSUME IInv, NEW keyframe \in BOOLEAN, NEW failed,
         recon' \in Reconstructed(Count(keyframe), failed)
  PROVE  /\ recon' \in [0 .. 1 -> Nat]
         /\ failed = "none" => recon'[ReconIndex(Count(keyframe))] = attempts + 1
         /\ \A i \in 0 .. 1 : i # ReconIndex(Count(keyframe)) => recon'[i] = recon[i]
  <1> DEFINE index == ReconIndex(Count(keyframe))
             written == [recon EXCEPT ![index] = attempts + 1]
  <1>1. index \in 0 .. 1
    BY CountType
  <1>2. recon \in [0 .. 1 -> Nat] /\ attempts + 1 \in Nat
    BY DEF IInv, TypeOK
  <1>3. recon' = recon \/ recon' = written
    BY DEF Reconstructed
  <1>4. failed = "none" => recon' = written
    BY DEF Reconstructed
  <1> HIDE DEF index
  <1>5. /\ written \in [0 .. 1 -> Nat]
        /\ written[index] = attempts + 1
        /\ \A i \in 0 .. 1 : i # index => written[i] = recon[i]
    BY <1>1, <1>2
  <1> HIDE DEF written
  <1>6. /\ recon' \in [0 .. 1 -> Nat]
        /\ failed = "none" => recon'[index] = attempts + 1
        /\ \A i \in 0 .. 1 : i # index => recon'[i] = recon[i]
    BY <1>2, <1>3, <1>4, <1>5
  <1> QED
    BY <1>6 DEF index

\* A picture that failed: the count and the reference are dropped if it was to
\* be an IDR, and the surface it may have spoiled is not the reference's.
LEMMA FailedIInv ==
  ASSUME IInv, NEW keyframe \in BOOLEAN, NEW failed \in EncodeFailures,
         EncodeSurface(keyframe, failed), processor' \in BOOLEAN
  PROVE  IInv'
  <1> USE DEF IInv
  <1>1. failed # "none"
    BY DEF EncodeFailures
  <1>2. /\ counter' = Count(keyframe)
        /\ reference' = Ref(keyframe)
        /\ owed' = (owed \/ IsIdr(keyframe))
        /\ resetRateControl' = resetRateControl
        /\ attempts' = attempts + 1
        /\ UNCHANGED <<returned, codec, bitrate, codedSize>>
    <2>1. resetRateControl \in BOOLEAN
      BY DEF TypeOK
    <2> QED
      BY <1>1, <2>1 DEF EncodeSurface, CounterAfter, ResetAfter
  <1>3. recon' \in [0 .. 1 -> Nat]
        /\ \A i \in 0 .. 1 : i # ReconIndex(Count(keyframe)) => recon'[i] = recon[i]
    BY ReconstructedType DEF EncodeSurface
  <1>4. TypeOK'
    <2>1. owed' \in BOOLEAN
      BY <1>2 DEF TypeOK, IsIdr
    <2>2. counter' \in Nat
      BY <1>2, CountType
    <2>3. reference' \in [index : 0 .. 1, count : Nat] \cup {NoReference}
      BY <1>2 DEF TypeOK, Ref
    <2>4. attempts' \in Nat
      BY <1>2 DEF TypeOK
    <2> QED
      BY <1>2, <1>3, <2>1, <2>2, <2>3, <2>4 DEF TypeOK
  <1>5. Referenced'
    <2>1. CASE IsIdr(keyframe)
      <3>1. counter' = 0 /\ reference' = NoReference
        BY <1>2, <2>1 DEF Count, Ref
      <3> QED
        BY <3>1, EncoderAssumption DEF Referenced
    <2>2. CASE ~IsIdr(keyframe)
      <3>1. counter' = counter /\ reference' = reference /\ counter # 0 /\ Count(keyframe) = counter
        BY <1>2, <2>2, NotIdr, EncoderAssumption DEF Count, Ref
      <3>2. returned # <<>> /\ counter = Latest.count + 1 /\ Latest' = Latest
        BY <1>2, <3>1 DEF Referenced, Latest
      <3>3. Latest.count \in Nat
        BY <3>2, LatestTyped
      <3>4. Latest.count % 2 \in 0 .. 1 /\ Latest.count % 2 # ReconIndex(counter)
        <4> DEFINE last == Latest.count
        <4>1. last \in Nat /\ counter = last + 1
          BY <3>2, <3>3
        <4> HIDE DEF last
        <4>2. last % 2 \in 0 .. 1 /\ last % 2 # (last + 1) % 2
          BY <4>1, Alternating
        <4> QED
          BY <4>1, <4>2 DEF ReconIndex, last
      <3>5. recon'[Latest.count % 2] = recon[Latest.count % 2]
        BY <1>3, <3>1, <3>4
      <3> QED
        BY <1>2, <3>1, <3>2, <3>5 DEF Referenced
    <2> QED
      BY <2>1, <2>2
  <1>6. Owing'
    <2>1. CASE IsIdr(keyframe)
      BY <1>2, <2>1 DEF Owing, Count
    <2>2. CASE ~IsIdr(keyframe)
      BY <1>2, <2>2 DEF Owing, Count, TypeOK
    <2> QED
      BY <2>1, <2>2
  <1>7. Telling'
    BY <1>2 DEF Telling, Latest
  <1> QED
    BY <1>2, <1>4, <1>5, <1>6, <1>7, ReturnedKept

\* A picture that was returned: it is the reference of the next one.
LEMMA ReturnedIInv ==
  ASSUME IInv, NEW keyframe \in BOOLEAN, EncodeSurface(keyframe, "none"), processor' \in BOOLEAN
  PROVE  IInv'
  <1> USE DEF IInv
  <1> DEFINE idr == IsIdr(keyframe)
             count == Count(keyframe)
             ref == Ref(keyframe)
             p == Picture(idr, count, ref)
             n == Len(returned) + 1
  <1>1. /\ counter' = count + 1
        /\ reference' = [index |-> ReconIndex(count), count |-> count]
        /\ owed' = FALSE
        /\ resetRateControl' = FALSE
        /\ attempts' = attempts + 1
        /\ returned' = Append(returned, p)
        /\ UNCHANGED <<codec, bitrate, codedSize>>
    BY DEF EncodeSurface, CounterAfter, ResetAfter
  <1>2. /\ recon' \in [0 .. 1 -> Nat]
        /\ recon'[ReconIndex(count)] = attempts + 1
    BY ReconstructedType DEF EncodeSurface
  <1>3. p \in PictureInfo
    BY PictureType
  <1>4. /\ p.number = attempts + 1
        /\ p.idr = idr
        /\ p.count = count
        /\ p.frameNum = count % Limit
        /\ p.lsb = Lsb(count)
        /\ p.predicts = (ref # NoReference)
        /\ p.from = IF ref = NoReference THEN 0 ELSE recon[ref.index]
        /\ ref # NoReference =>
              p.fromPoc = IF codec = "H264" THEN 2 * ref.count ELSE count - 1
        /\ p.rate = bitrate
        /\ p.reset = resetRateControl
        /\ p.owed = owed
    BY PictureFields
  <1>5. /\ count \in 0 .. Gop - 1
        /\ count \in Nat
        /\ ReconIndex(count) \in 0 .. 1
    BY CountType
  <1>6. idr => count = 0 /\ ref = NoReference
    BY DEF Count, Ref
  <1>7. ~idr => /\ count = counter /\ counter # 0
                /\ ref = [index |-> Latest.count % 2, count |-> Latest.count]
                /\ ref # NoReference
                /\ returned # <<>>
                /\ count = Latest.count + 1
                /\ recon[Latest.count % 2] = Latest.number
    <2> SUFFICES ASSUME ~idr
                 PROVE  /\ count = counter /\ counter # 0
                        /\ ref = [index |-> Latest.count % 2, count |-> Latest.count]
                        /\ ref # NoReference
                        /\ returned # <<>>
                        /\ count = Latest.count + 1
                        /\ recon[Latest.count % 2] = Latest.number
      OBVIOUS
    <2>1. count = counter /\ counter # 0 /\ ref = reference
      BY NotIdr, EncoderAssumption DEF Count, Ref
    <2> HIDE DEF idr, count, ref
    <2> QED
      BY <2>1 DEF Referenced
  <1>8. n > 1 => /\ returned # <<>> /\ Latest = returned[n - 1] /\ n - 1 \in DOMAIN returned
                 /\ Latest \in PictureInfo /\ Latest.count \in Nat
    <2>1. returned \in Seq(PictureInfo)
      BY DEF TypeOK
    <2>2. Len(returned) \in Nat /\ (returned = <<>> => Len(returned) = 0)
      BY <2>1
    <2>3. n - 1 = Len(returned)
      BY <2>2
    <2> QED
      BY <2>2, <2>3, LatestTyped DEF Latest
  <1> HIDE DEF idr, count, ref, p
  <1>9. /\ returned' \in Seq(PictureInfo)
        /\ returned' # <<>>
        /\ Latest' = p
        /\ DOMAIN returned' = 1 .. n
        /\ DOMAIN returned = 1 .. n - 1
        /\ returned'[n] = p
        /\ \A k \in 1 .. n - 1 : returned'[k] = returned[k]
        /\ n \in Nat \ {0}
        /\ returned # <<>> => n > 1
    <2>1. returned \in Seq(PictureInfo)
      BY DEF TypeOK
    <2>2. Len(returned) \in Nat /\ n - 1 = Len(returned)
      BY <2>1
    <2>3. Latest' = p
      BY <1>1, <1>3, <2>1, Appended DEF Latest
    <2> QED
      BY <1>1, <1>3, <2>1, <2>2, <2>3, Appended
  <1> HIDE DEF n
  <1>10. TypeOK'
    <2>1. counter' \in Nat /\ attempts' \in Nat /\ codedSize' \in Nat /\ bitrate' \in Rates \ {0}
      BY <1>1, <1>5 DEF TypeOK
    <2>2. reference' \in [index : 0 .. 1, count : Nat] \cup {NoReference}
      BY <1>1, <1>5
    <2> QED
      BY <1>1, <1>2, <1>9, <2>1, <2>2 DEF TypeOK
  <1>11. Referenced'
    <2>1. counter' \in 0 .. Gop /\ counter' # 0
      BY <1>1, <1>5, EncoderAssumption
    <2>2. reference' # NoReference
      BY <1>1 DEF NoReference
    <2>3. /\ reference' = [index |-> p.count % 2, count |-> p.count]
          /\ recon'[p.count % 2] = p.number
          /\ counter' = p.count + 1
      BY <1>1, <1>2, <1>4 DEF ReconIndex
    <2> QED
      BY <1>9, <2>1, <2>2, <2>3 DEF Referenced
  <1>12. Headed'
    <2>1. ASSUME NEW k \in 1 .. n - 1
          PROVE  HeadedAt(returned', k)
      <3>1. k \in DOMAIN returned /\ HeadedAt(returned, k)
        BY <1>9 DEF Headed
      <3>2. returned[k].count \in Nat
        BY <3>1, ReturnedTyped
      <3>3. k - returned[k].count \in 1 .. n - 1
        BY <1>9, <3>1, <3>2 DEF HeadedAt
      <3> QED
        BY <1>9, <3>1, <3>3 DEF HeadedAt
    <2>2. HeadedAt(returned', n)
      <3>1. CASE idr
        <4>1. p.count = 0 /\ p.idr /\ n - p.count = n /\ p.count < Gop /\ p.count < n
          BY <1>4, <1>6, <1>9, <3>1, EncoderAssumption
        <4> QED
          BY <1>4, <1>9, <4>1 DEF HeadedAt
      <3>2. CASE ~idr
        <4>1. /\ n > 1 /\ Latest = returned[n - 1] /\ n - 1 \in DOMAIN returned
              /\ Latest.count \in Nat /\ count = Latest.count + 1
          BY <1>7, <1>8, <1>9, <3>2
        <4>2. Latest.count < n - 1 /\ returned[n - 1 - Latest.count].idr
          BY <4>1 DEF Headed, HeadedAt
        <4>3. /\ n - count = n - 1 - Latest.count
              /\ n - count \in 1 .. n - 1
              /\ count < n /\ count < Gop
          BY <1>5, <1>9, <4>1, <4>2, EncoderAssumption
        <4>4. returned'[n - count].idr
          BY <1>9, <4>2, <4>3
        <4> QED
          BY <1>4, <1>9, <4>3, <4>4 DEF HeadedAt
      <3> QED
        BY <3>1, <3>2
    <2>3. DOMAIN returned' = (1 .. n - 1) \cup {n}
      BY <1>9
    <2> QED
      BY <2>1, <2>2, <2>3 DEF Headed
  <1>13. Owing'
    BY <1>1 DEF Owing
  <1>14. Telling'
    BY <1>1, <1>4, <1>9 DEF Telling
  <1>15. StreamContinues'
    <2>1. ASSUME NEW k \in 1 .. n - 1
          PROVE  ContinuesAt(codec, returned', k)
      <3>1. returned'[k] = returned[k] /\ ContinuesAt(codec, returned, k)
        BY <1>9, StreamContinuesAt
      <3>2. k > 1 => returned'[k - 1] = returned[k - 1]
        BY <1>9
      <3> QED
        BY <3>1, <3>2 DEF ContinuesAt
    <2>2. idr => Starts(p)
      <3>1. Lsb(0) = 0 /\ 0 % Limit = 0
        BY EncoderAssumption, LsbType, NoRemainder
      <3>2. idr => p.lsb = Lsb(0) /\ p.frameNum = 0 % Limit /\ ~p.predicts
        BY <1>4, <1>6
      <3> QED
        BY <3>1, <3>2 DEF Starts
    <2>3. ASSUME ~idr
          PROVE  n > 1 /\ Continues(codec, p, returned[n - 1])
      <3>1. /\ n > 1 /\ Latest = returned[n - 1] /\ n - 1 \in DOMAIN returned
            /\ Latest.count \in Nat /\ count = Latest.count + 1
        BY <1>7, <1>8, <1>9, <2>3
      <3>2. p.predicts /\ p.from = Latest.number
        <4>1. /\ ref # NoReference /\ recon[Latest.count % 2] = Latest.number
              /\ ref.index = Latest.count % 2
          BY <1>7, <2>3
        <4> QED
          BY <1>4, <4>1
      <3>3. p.fromPoc = OrderCount(codec, Latest)
        <4>1. /\ ref # NoReference /\ ref.count = Latest.count
              /\ count - 1 = Latest.count
          BY <1>7, <2>3, <3>1
        <4>2. p.fromPoc = IF codec = "H264" THEN 2 * ref.count ELSE count - 1
          BY <1>4, <4>1
        <4> QED
          BY <4>1, <4>2 DEF OrderCount
      <3>4. p.frameNum = (Latest.frameNum + 1) % Limit
        <4>1. Latest.frameNum = Latest.count % Limit
          BY <3>1 DEF Headed, HeadedAt
        <4>2. (Latest.count + 1) % Limit = ((Latest.count % Limit) + 1) % Limit
          BY <3>1, NextRemainder, EncoderAssumption
        <4> QED
          BY <1>4, <3>1, <4>1, <4>2
      <3>5. p.count = Latest.count + 1
        BY <1>4, <3>1
      <3> QED
        BY <3>1, <3>2, <3>3, <3>4, <3>5 DEF Continues
    <2>4. ContinuesAt(codec, returned', n)
      <3>1. returned'[n] = p /\ p.idr = idr
        BY <1>4, <1>9
      <3>2. ~idr => returned'[n - 1] = returned[n - 1]
        BY <1>9, <2>3
      <3> QED
        BY <2>2, <2>3, <3>1, <3>2 DEF ContinuesAt
    <2>5. DOMAIN returned' = (1 .. n - 1) \cup {n}
      BY <1>9
    <2>6. \A k \in DOMAIN returned' : ContinuesAt(codec', returned', k)
      BY <1>1, <2>1, <2>4, <2>5
    <2> QED
      BY <2>6, StreamContinuesNext
  <1>16. KeyFrameOwed'
    <2>1. p.owed => p.idr
      <3>1. owed => IsIdr(keyframe)
        BY EncoderAssumption, NoRemainder DEF Owing, IsIdr
      <3> QED
        BY <1>4, <3>1 DEF idr
    <2>2. DOMAIN returned' = (1 .. n - 1) \cup {n}
      BY <1>9
    <2> QED
      BY <1>9, <2>1, <2>2 DEF KeyFrameOwed
  <1>17. RateFollows'
    <2>1. n > 1 /\ p.rate # returned[n - 1].rate => p.reset
      BY <1>4, <1>8 DEF Telling
    <2>2. ASSUME NEW k \in 1 .. n - 1
          PROVE  k > 1 /\ returned'[k].rate # returned'[k - 1].rate => returned'[k].reset
      <3>1. returned'[k] = returned[k] /\ k \in DOMAIN returned
        BY <1>9
      <3>2. k > 1 => returned'[k - 1] = returned[k - 1]
        BY <1>9
      <3> QED
        BY <3>1, <3>2 DEF RateFollows
    <2>3. n > 1 => returned'[n - 1] = returned[n - 1]
      BY <1>9
    <2>4. DOMAIN returned' = (1 .. n - 1) \cup {n}
      BY <1>9
    <2> QED
      BY <1>9, <2>1, <2>2, <2>3, <2>4 DEF RateFollows
  <1> QED
    BY <1>10, <1>11, <1>12, <1>13, <1>14, <1>15, <1>16, <1>17

LEMMA EncodeSurfaceIInv ==
  ASSUME IInv, NEW keyframe \in BOOLEAN, NEW failed \in EncodeFailures \cup {"none"},
         EncodeSurface(keyframe, failed), processor' \in BOOLEAN
  PROVE  IInv'
  <1>1. CASE failed = "none"
    BY <1>1, ReturnedIInv
  <1>2. CASE failed \in EncodeFailures
    BY <1>2, FailedIInv
  <1> QED
    BY <1>1, <1>2

\* A call that stopped before the encoder proper.
LEMMA UntouchedIInv ==
  ASSUME IInv, processor' \in BOOLEAN,
         UNCHANGED <<codec, counter, reference, resetRateControl, bitrate, codedSize, recon,
                     attempts, owed, returned>>
  PROVE  IInv'
  <1>1. TypeOK'
    BY DEF IInv, TypeOK
  <1>2. Referenced' /\ Owing' /\ Telling'
    BY DEF IInv, Referenced, Owing, Telling, Latest
  <1>3. Headed' /\ StreamContinues' /\ KeyFrameOwed' /\ RateFollows'
    BY ReturnedKept
  <1> QED
    BY <1>1, <1>2, <1>3 DEF IInv

LEMMA SetBitrateIInv ==
  ASSUME IInv, NEW rate \in Rates, SetBitrate(rate)
  PROVE  IInv'
  <1>1. rate \in Nat /\ CodedSize(rate) \in Nat
    BY EncoderAssumption DEF CodedSize
  <1>2. TypeOK'
    <2>1. codedSize' \in Nat
      BY <1>1 DEF IInv, TypeOK, SetBitrate, Grown
    <2>2. bitrate' \in Rates \ {0} /\ resetRateControl' \in BOOLEAN
      BY DEF IInv, TypeOK, SetBitrate
    <2> QED
      BY <2>1, <2>2 DEF IInv, TypeOK, SetBitrate, vppVars
  <1>3. Referenced' /\ Owing'
    BY DEF IInv, Referenced, Owing, Latest, SetBitrate
  <1>4. Telling'
    BY DEF IInv, Telling, Latest, SetBitrate
  <1>5. Headed' /\ StreamContinues' /\ KeyFrameOwed' /\ RateFollows'
    BY ReturnedKept DEF SetBitrate
  <1> QED
    BY <1>2, <1>3, <1>4, <1>5 DEF IInv

\* Every step keeps the invariant.
LEMMA NextIInv == IInv /\ [Next]_vars => IInv'
  <1> SUFFICES ASSUME IInv, [Next]_vars PROVE IInv'
    OBVIOUS
  <1>1. ASSUME NEW keyframe \in BOOLEAN, NEW failed \in EncodeFailures \cup {"none"},
               EncodeFrame(keyframe, failed)
        PROVE  IInv'
    <2>1. processor' \in BOOLEAN /\ EncodeSurface(keyframe, failed)
      BY <1>1 DEF EncodeFrame, IInv, TypeOK
    <2> QED
      BY <2>1, EncodeSurfaceIInv
  <1>2. ASSUME NEW keyframe \in BOOLEAN, NEW failed \in EncodeFailures \cup {"none"},
               NEW blit, ConvertFrame(keyframe, blit, failed)
        PROVE  IInv'
    <2>1. processor' \in BOOLEAN
      BY <1>2 DEF ConvertFrame
    <2>2. CASE blit = "none"
      BY <1>2, <2>1, <2>2, EncodeSurfaceIInv DEF ConvertFrame
    <2>3. CASE blit # "none"
      BY <1>2, <2>1, <2>3, UntouchedIInv DEF ConvertFrame
    <2> QED
      BY <2>2, <2>3
  <1>3. ASSUME NEW rate \in Rates, SetBitrate(rate)
        PROVE  IInv'
    BY <1>3, SetBitrateIInv
  <1>4. CASE UNCHANGED vars
    <2>1. processor' \in BOOLEAN
      BY <1>4 DEF vars, encoderVars, IInv, TypeOK
    <2> QED
      BY <1>4, <2>1, UntouchedIInv DEF vars, encoderVars
  <1> QED
    BY <1>1, <1>2, <1>3, <1>4 DEF Next

-----------------------------------------------------------------------------
(* Theorems *)

\* The invariant holds in every state of the encoder.
LEMMA Invariant == Spec => []IInv
  BY InitIInv, NextIInv, PTL DEF Spec

\* Every variable of the encoder keeps its type: the counter never goes
\* negative, the reference names one of the two surfaces, and every picture
\* handed over has all its numbers (FrameMeta::new and encode_surface).
THEOREM TypeCorrect == Spec => []TypeOK
  <1>1. IInv => TypeOK
    BY DEF IInv
  <1> QED
    BY <1>1, Invariant, PTL

\* Whatever calls of encode_surface fail, and wherever: a returned picture
\* predicts from the one returned before it, which is still on its surface,
\* by that picture's order count, and frame_num goes up by one modulo the
\* limit; for any length of groups and any moduli.
THEOREM StreamIsWhole == Spec => []StreamContinues
  <1>1. IInv => StreamContinues
    BY DEF IInv
  <1> QED
    BY <1>1, Invariant, PTL

\* After a key frame that failed in encode_surface, the next picture that is
\* returned is a key frame.
THEOREM FailedKeyFrameRepeated == Spec => []KeyFrameOwed
  <1>1. IInv => KeyFrameOwed
    BY DEF IInv
  <1> QED
    BY <1>1, Invariant, PTL

\* No more than Gop pictures are returned from one key frame to the next, for
\* any Gop and with any failures in between.
THEOREM KeyFramesInTime == Spec => []KeyFrameInterval
  <1>1. IInv => KeyFrameInterval
    <2> SUFFICES ASSUME IInv, NEW n \in DOMAIN returned, n >= Gop
                 PROVE  \E k \in n - Gop + 1 .. n : returned[k].idr
      BY DEF KeyFrameInterval
    <2> DEFINE count == returned[n].count
    <2>1. n \in Nat /\ count \in Nat /\ Gop \in Nat
      <3>1. returned \in Seq(PictureInfo)
        BY DEF IInv, TypeOK
      <3> QED
        BY <3>1, ReturnedTyped, EncoderAssumption DEF IInv
    <2>2. count < Gop /\ returned[n - count].idr
      BY DEF IInv, Headed, HeadedAt
    <2> HIDE DEF count
    <2>3. n - count \in n - Gop + 1 .. n
      BY <2>1, <2>2
    <2> QED
      BY <2>2, <2>3
  <1> QED
    BY <1>1, Invariant, PTL

\* A change of set_bitrate reaches the driver with the first picture returned
\* after it, whatever failed in between.
THEOREM RateReachesDriver == Spec => []RateFollows
  <1>1. IInv => RateFollows
    BY DEF IInv
  <1> QED
    BY <1>1, Invariant, PTL

-----------------------------------------------------------------------------
(* The receiver's order counts *)

\* A receiver that knows an order count finds the next one, if it is at most
\* half a turn of the low bits further.
LEMMA NearestNext ==
  ASSUME NEW a \in Nat, NEW step \in Nat \ {0}, NEW m \in Nat \ {0}, 2 * step <= m
  PROVE  Nearest(a, (a + step) % m, m) = a + step
  <1> DEFINE q == a \div m
             r == a % m
             lsb == (a + step) % m
  <1>1. q \in Int /\ r \in 0 .. m - 1 /\ a = m * q + r
    BY Division
  <1> DEFINE msb == a - r
  <1>2. Nearest(a, lsb, m) =
           CASE lsb < r /\ 2 * (r - lsb) >= m -> msb + m + lsb
             [] lsb > r /\ 2 * (lsb - r) > m  -> (msb - m) + lsb
             [] OTHER -> msb + lsb
    BY DEF Nearest
  <1>3. m * q \in Int /\ msb = m * q
    BY <1>1
  <1>4. CASE r + step < m
    <2>1. lsb = r + step
      <3>1. a + step = m * q + (r + step)
        BY <1>1, <1>3
      <3> HIDE DEF q, r
      <3>2. (m * q + (r + step)) % m = r + step
        BY <1>1, <1>4, RemainderOfSum
      <3> QED
        BY <3>1, <3>2
    <2> HIDE DEF q, r, lsb, msb
    <2>2. ~(lsb < r) /\ ~(2 * (lsb - r) > m)
      BY <1>1, <2>1
    <2>3. Nearest(a, lsb, m) = msb + lsb
      BY <1>2, <2>2
    <2>4. msb + lsb = a + step
      BY <1>1, <1>3, <2>1
    <2> QED
      BY <2>3, <2>4 DEF lsb
  <1>5. CASE r + step >= m
    <2>1. lsb = r + step - m
      <3>1. m * (q + 1) = m * q + m
        BY <1>1
      <3>2. a + step = m * (q + 1) + (r + step - m)
        BY <1>1, <1>3, <3>1
      <3>3. 0 <= r + step - m /\ r + step - m < m
        BY <1>1, <1>5
      <3> HIDE DEF q, r
      <3> DEFINE turn == q + 1
                 low == r + step - m
      <3>4. turn \in Int /\ low \in Int /\ 0 <= low /\ low < m
        BY <1>1, <3>3
      <3>5. a + step = m * turn + low
        BY <3>2
      <3> HIDE DEF turn, low
      <3>6. (m * turn + low) % m = low
        BY <3>4, RemainderOfSum
      <3> QED
        BY <3>5, <3>6 DEF low
    <2> HIDE DEF q, r, lsb, msb
    <2>2. lsb < r /\ 2 * (r - lsb) >= m /\ ~(lsb > r)
      BY <1>1, <2>1
    <2>3. Nearest(a, lsb, m) = msb + m + lsb
      BY <1>2, <2>2
    <2>4. msb + m + lsb = a + step
      BY <1>1, <1>3, <2>1
    <2> QED
      BY <2>3, <2>4 DEF lsb
  <1> QED
    BY <1>1, <1>4, <1>5

\* What Derived computes, where something computes it.
LEMMA DerivedUnfolds ==
  ASSUME NEW s, NEW m, NEW g,
         g = [n \in DOMAIN s |-> IF s[n].idr THEN 0 ELSE Nearest(g[n - 1], s[n].lsb, m)]
  PROVE  \A n \in DOMAIN s :
            Derived(s, m)[n] =
               IF s[n].idr THEN 0 ELSE Nearest(Derived(s, m)[n - 1], s[n].lsb, m)
  <1> DEFINE d == Derived(s, m)
  <1>1. d = CHOOSE f : f = [n \in DOMAIN s |-> IF s[n].idr THEN 0
                                             ELSE Nearest(f[n - 1], s[n].lsb, m)]
    BY DEF Derived
  <1>2. d = [n \in DOMAIN s |-> IF s[n].idr THEN 0 ELSE Nearest(d[n - 1], s[n].lsb, m)]
    BY <1>1
  <1> QED
    BY <1>2

\* Of any pictures of a sequence one is first.
LEMMA FirstOf ==
  ASSUME NEW len \in Nat, NEW T \in SUBSET (1 .. len), T # {}
  PROVE  \E n \in T : \A k \in T : n <= k
  <1> DEFINE Below(n) == {k \in T : k < n}
             R == StrictSubsetOrdering(T)
  <1>1. IsFiniteSet(T)
    <2>1. 1 \in Int /\ len \in Int
      OBVIOUS
    <2>2. IsFiniteSet(1 .. len)
      BY <2>1, FS_Interval
    <2> QED
      BY <2>2, FS_Subset
  <1>2. IsWellFoundedOn(R, SUBSET T)
    BY <1>1, FS_StrictSubsetOrderingWellFounded, FS_FiniteSubsetsOfFinite
  <1>3. {Below(n) : n \in T} \subseteq SUBSET T /\ {Below(n) : n \in T} # {}
    OBVIOUS
  <1>4. PICK x \in {Below(n) : n \in T} : \A y \in {Below(n) : n \in T} : ~(<<y, x>> \in R)
    <2> HIDE DEF Below, R
    <2> QED
      BY <1>2, <1>3, WFMin
  <1>5. PICK n \in T : x = Below(n)
    OBVIOUS
  <1>6. ASSUME NEW k \in T, k < n PROVE FALSE
    <2>1. \A i \in T : i \in Int
      OBVIOUS
    <2>2. Below(k) \subseteq Below(n)
      <3> SUFFICES ASSUME NEW i \in T, i < k PROVE i < n
        OBVIOUS
      <3> QED
        BY <1>6, <2>1
    <2>3. k \in Below(n) /\ k \notin Below(k)
      BY <1>6, <2>1
    <2>4. <<Below(k), Below(n)>> \in R
      <3> HIDE DEF Below
      <3>1. Below(k) \subseteq T /\ Below(n) \subseteq T
        BY DEF Below
      <3> QED
        BY <2>2, <2>3, <3>1 DEF StrictSubsetOrdering
    <2> QED
      BY <1>4, <1>5, <2>4
  <1> QED
    <2>1. \A i \in T : i \in Int
      OBVIOUS
    <2> QED
      BY <1>5, <1>6, <2>1

\* Each picture has the low bits of its count, which starts over with an IDR.
LowBits ==
    \A n \in DOMAIN returned :
        /\ returned[n].lsb = Lsb(returned[n].count)
        /\ returned[n].idr => returned[n].count = 0

\* Every step keeps that.
LEMMA NextLowBits == IInv /\ LowBits /\ [Next]_vars => LowBits'
  <1> SUFFICES ASSUME IInv, LowBits, [Next]_vars PROVE LowBits'
    OBVIOUS
  <1>1. CASE UNCHANGED <<codec, returned>>
    BY <1>1 DEF LowBits, Lsb
  <1>2. ASSUME NEW keyframe \in BOOLEAN, NEW failed \in EncodeFailures \cup {"none"},
               EncodeSurface(keyframe, failed)
        PROVE  LowBits'
    <2> DEFINE p == Picture(IsIdr(keyframe), Count(keyframe), Ref(keyframe))
    <2>1. CASE failed # "none"
      BY <1>1, <1>2, <2>1 DEF EncodeSurface
    <2>2. CASE failed = "none"
      <3>1. returned' = Append(returned, p) /\ codec' = codec
        BY <1>2, <2>2 DEF EncodeSurface
      <3>2. returned \in Seq(PictureInfo) /\ p \in PictureInfo
        BY PictureType DEF IInv, TypeOK
      <3>3. p.lsb = Lsb(p.count) /\ (p.idr => p.count = 0)
        <4>1. p.idr = IsIdr(keyframe) /\ p.count = Count(keyframe) /\ p.lsb = Lsb(Count(keyframe))
          BY PictureFields
        <4> QED
          BY <4>1 DEF Count
      <3> HIDE DEF p
      <3>4. /\ DOMAIN returned' = (1 .. Len(returned)) \cup {Len(returned) + 1}
            /\ DOMAIN returned = 1 .. Len(returned)
            /\ returned'[Len(returned) + 1] = p
            /\ \A n \in 1 .. Len(returned) : returned'[n] = returned[n]
        <4>1. /\ DOMAIN Append(returned, p) = 1 .. Len(returned) + 1
              /\ DOMAIN returned = 1 .. Len(returned)
              /\ Append(returned, p)[Len(returned) + 1] = p
              /\ \A n \in 1 .. Len(returned) : Append(returned, p)[n] = returned[n]
              /\ Len(returned) \in Nat
          BY <3>2, Appended
        <4> QED
          BY <3>1, <4>1
      <3> QED
        BY <3>1, <3>3, <3>4 DEF LowBits, Lsb
    <2> QED
      BY <2>1, <2>2
  <1> QED
    BY <1>1, <1>2 DEF Next, EncodeFrame, ConvertFrame, SetBitrate, vars, encoderVars

\* The low bits of the next picture are at most half a turn further.
LEMMA NextArrives ==
  ASSUME codec \in {"H264", "H265"}, NEW count \in Nat
  PROVE  LET max == IF codec = "H264" THEN 2 * Limit ELSE PocLsb
             step == IF codec = "H264" THEN 2 ELSE 1
             before == IF codec = "H264" THEN 2 * count ELSE count
         IN  Nearest(before, Lsb(count + 1), max) = before + step
  <1>1. CASE codec = "H264"
    <2>1. /\ 2 * count \in Nat /\ 2 * Limit \in Nat \ {0} /\ 2 * 2 <= 2 * Limit
          /\ 2 * (count + 1) = 2 * count + 2
      BY EncoderAssumption, ReceiverAssumption
    <2>2. Nearest(2 * count, (2 * count + 2) % (2 * Limit), 2 * Limit) = 2 * count + 2
      BY <2>1, NearestNext
    <2> QED
      BY <1>1, <2>1, <2>2 DEF Lsb
  <1>2. CASE codec = "H265"
    <2>1. Nearest(count, (count + 1) % PocLsb, PocLsb) = count + 1
      BY EncoderAssumption, NearestNext
    <2> QED
      BY <1>2, <2>1 DEF Lsb
  <1> QED
    BY <1>1, <1>2

\* The order counts of the stream are what a receiver computes from it: they
\* satisfy its definition, and nothing else does.
LEMMA CountsArrive ==
  ASSUME IInv, LowBits
  PROVE  OrderCountsArrive
  <1> DEFINE max == IF codec = "H264" THEN 2 * Limit ELSE PocLsb
             count == [n \in DOMAIN returned |-> Poc(returned[n])]
             poc == Derived(returned, max)
             T == {n \in DOMAIN returned : poc[n] # count[n]}
  <1>1. /\ returned \in Seq(PictureInfo) /\ codec \in {"H264", "H265"}
        /\ DOMAIN returned = 1 .. Len(returned) /\ Len(returned) \in Nat
        /\ \A n \in DOMAIN returned : returned[n].count \in Nat
    BY ReturnedTyped DEF IInv, TypeOK
  <1>2. ASSUME NEW n \in DOMAIN returned
        PROVE  /\ returned[n].idr => count[n] = 0
               /\ ~returned[n].idr => n - 1 \in DOMAIN returned
                                      /\ Nearest(count[n - 1], returned[n].lsb, max) = count[n]
    <2>1. returned[n].idr => count[n] = 0
      BY <1>2 DEF LowBits, Poc
    <2>2. ASSUME ~returned[n].idr
          PROVE  n - 1 \in DOMAIN returned
                 /\ Nearest(count[n - 1], returned[n].lsb, max) = count[n]
      <3>1. n > 1 /\ returned[n].count = returned[n - 1].count + 1
        BY <2>2 DEF IInv, StreamContinues
      <3>2. n - 1 \in DOMAIN returned
        BY <1>1, <3>1
      <3> DEFINE c == returned[n - 1].count
      <3>3. c \in Nat /\ returned[n].lsb = Lsb(c + 1) /\ returned[n].count = c + 1
        BY <1>1, <3>1, <3>2 DEF LowBits
      <3>4. /\ count[n - 1] = IF codec = "H264" THEN 2 * c ELSE c
            /\ count[n] = IF codec = "H264" THEN 2 * (c + 1) ELSE c + 1
        BY <3>2, <3>3 DEF Poc
      <3> HIDE DEF c, count
      <3>5. CASE codec = "H264"
        <4>1. Nearest(2 * c, Lsb(c + 1), 2 * Limit) = 2 * c + 2
          BY <1>1, <3>3, <3>5, NextArrives
        <4> QED
          BY <3>2, <3>3, <3>4, <3>5, <4>1
      <3>6. CASE codec # "H264"
        <4>1. Nearest(c, Lsb(c + 1), PocLsb) = c + 1
          BY <1>1, <3>3, <3>6, NextArrives
        <4> QED
          BY <3>2, <3>3, <3>4, <3>6, <4>1
      <3> QED
        BY <3>5, <3>6
    <2> QED
      BY <2>1, <2>2
  <1>3. count = [n \in DOMAIN returned |->
                    IF returned[n].idr THEN 0 ELSE Nearest(count[n - 1], returned[n].lsb, max)]
    <2> DEFINE other == [n \in DOMAIN returned |->
                    IF returned[n].idr THEN 0 ELSE Nearest(count[n - 1], returned[n].lsb, max)]
    <2>1. \A n \in DOMAIN returned : count[n] = other[n]
      BY <1>2
    <2> QED
      BY <2>1
  <1>4. \A n \in DOMAIN returned :
           poc[n] = IF returned[n].idr THEN 0 ELSE Nearest(poc[n - 1], returned[n].lsb, max)
    <2> HIDE DEF count, max
    <2> QED
      BY <1>3, DerivedUnfolds
  <1>5. ASSUME T # {} PROVE FALSE
    <2>1. T \subseteq 1 .. Len(returned)
      BY <1>1
    <2>2. PICK n \in T : \A k \in T : n <= k
      BY <1>1, <1>5, <2>1, FirstOf
    <2>3. n \in DOMAIN returned /\ poc[n] # count[n] /\ n \in Nat
      BY <1>1
    <2>4. n - 1 \in DOMAIN returned => poc[n - 1] = count[n - 1]
      BY <2>2, <2>3
    <2> HIDE DEF poc, count, max, T
    <2> QED
      BY <1>2, <1>4, <2>3, <2>4
  <1>6. \A n \in DOMAIN returned : poc[n] = Poc(returned[n])
    BY <1>5
  <1> QED
    BY <1>6 DEF OrderCountsArrive

\* A receiver that has only the low bits of the order counts of the pictures
\* returned (encode_slice_header) derives the ones the encoder gave the driver,
\* for any group length and wherever the low bits wrap within a group.
THEOREM CountsReachReceiver == Spec => []OrderCountsArrive
  <1>1. Init => LowBits
    BY DEF Init, LowBits
  <1> QED
    BY <1>1, Invariant, NextLowBits, CountsArrive, PTL DEF Spec

-----------------------------------------------------------------------------
(* The contexts of the processor *)

LEMMA BlitKeepsContexts ==
  ASSUME ContextsWhole, NEW size, NEW failed, BlitOn(size, failed)
  PROVE  ContextsWhole'
  <1>1. CASE failed = "none"
    <2>1. contexts' = With(contexts, size, FALSE)
      BY <1>1 DEF BlitOn
    <2>2. /\ DOMAIN contexts' = DOMAIN contexts \cup {size}
          /\ contexts'[size] = FALSE
          /\ \A z \in DOMAIN contexts : z # size => contexts'[z] = contexts[z]
      BY <2>1 DEF With
    <2>3. ASSUME NEW z \in DOMAIN contexts'
          PROVE  ~contexts'[z]
      <3>1. CASE z = size
        BY <2>2, <3>1, Zenon
      <3>2. CASE z # size
        <4>1. z \in DOMAIN contexts
          BY <2>2, <3>2
        <4> QED
          BY <2>2, <3>2, <4>1, Zenon DEF ContextsWhole
      <3> QED
        BY <3>1, <3>2
    <2> QED
      BY <2>3, Zenon DEF ContextsWhole
  <1>2. CASE failed \in {"display", "context"}
    <2>1. contexts' = contexts
      BY <1>2 DEF BlitOn
    <2> QED
      BY <2>1 DEF ContextsWhole
  <1>3. CASE failed \notin {"none", "display", "context"}
    <2>1. contexts' = Without(contexts, size)
      BY <1>3 DEF BlitOn
    <2>2. /\ DOMAIN contexts' = DOMAIN contexts \ {size}
          /\ \A z \in DOMAIN contexts \ {size} : contexts'[z] = contexts[z]
      BY <2>1 DEF Without, Restrict
    <2> QED
      BY <2>2, Zenon DEF ContextsWhole
  <1> QED
    BY <1>1, <1>2, <1>3

\* A blit that fails between the begin and the end of a picture takes its
\* context with it, so that no blit starts on a context that was left in the
\* middle of one (Processor::blit).
THEOREM ContextsStayWhole == VppSpec => []ContextsWhole
  <1>1. VppInit => ContextsWhole
    BY DEF VppInit, ContextsWhole
  <1>2. ContextsWhole /\ [VppNext]_vppVars => ContextsWhole'
    <2> SUFFICES ASSUME ContextsWhole, [VppNext]_vppVars PROVE ContextsWhole'
      OBVIOUS
    <2>1. ASSUME NEW size, NEW failed, Blit(size, failed)
          PROVE  ContextsWhole'
      BY <2>1, BlitKeepsContexts DEF Blit
    <2>2. ASSUME NEW size, NEW failed, Resize(size, failed)
          PROVE  ContextsWhole'
      <3>1. CASE UNCHANGED vppVars
        BY <3>1 DEF vppVars, ContextsWhole
      <3>2. CASE BlitOn(size, IF failed = "export" THEN "none" ELSE failed)
        <4> DEFINE how == IF failed = "export" THEN "none" ELSE failed
        <4>1. BlitOn(size, how)
          BY <3>2
        <4> HIDE DEF how
        <4> QED
          BY <4>1, BlitKeepsContexts
      <3> QED
        BY <2>2, <3>1, <3>2, Zenon DEF Resize
    <2>3. ASSUME NEW f, DropFrame(f)
          PROVE  ContextsWhole'
      BY <2>3 DEF DropFrame, ContextsWhole
    <2>4. CASE UNCHANGED vppVars
      BY <2>4 DEF vppVars, ContextsWhole
    <2> QED
      BY <2>1, <2>2, <2>3, <2>4, Zenon DEF VppNext
  <1> QED
    BY <1>1, <1>2, PTL DEF VppSpec

-----------------------------------------------------------------------------
(* Frames *)

\* A surface that is to be written is nobody's.
LEMMA AllocatableUnheld ==
  ASSUME HeldFramesKept, NEW size, NEW s \in Allocatable(size), NEW f \in DOMAIN held
  PROVE  held[f] # s
  <1>1. held[f] \in DOMAIN surfaces /\ ~surfaces[held[f]].free
    BY DEF HeldFramesKept
  <1>2. CASE Free(size) # {}
    BY <1>1, <1>2 DEF Allocatable, Free
  <1>3. CASE Free(size) = {}
    <2>1. s \in 1 .. MaxSurfaces /\ DOMAIN surfaces \cap 1 .. s = 1 .. s - 1
      BY <1>3 DEF Allocatable
    <2>2. s \in 1 .. s /\ s \notin 1 .. s - 1
      BY <2>1, VppAssumption
    <2> QED
      BY <1>1, <2>1, <2>2
  <1> QED
    BY <1>2, <1>3

\* The return of a surface changes no other.
LEMMA GivenBackOthers ==
  ASSUME NEW size, NEW s, NEW shows, NEW r \in DOMAIN surfaces, r # s
  PROVE  /\ r \in DOMAIN GivenBack(size, s, shows)
         /\ GivenBack(size, s, shows)[r] = surfaces[r]
  <1> DEFINE g == GivenBack(size, s, shows)
  <1> DEFINE back == [size |-> size, shows |-> shows, free |-> TRUE]
  <1>1. CASE Free(size) \ {s} = {}
    <2>1. g = With(surfaces, s, back)
      BY <1>1 DEF GivenBack
    <2> HIDE DEF back, g
    <2>2. DOMAIN g = DOMAIN surfaces \cup {s} /\ \A z \in DOMAIN surfaces : z # s => g[z] = surfaces[z]
      BY <2>1 DEF With
    <2>3. r \in DOMAIN g /\ g[r] = surfaces[r]
      BY <2>2
    <2> QED
      BY <2>3 DEF g
  <1>2. CASE Free(size) \ {s} # {}
    <2>1. g = Without(surfaces, s)
      BY <1>2 DEF GivenBack
    <2> HIDE DEF g
    <2>2. DOMAIN g = DOMAIN surfaces \ {s} /\ \A z \in DOMAIN surfaces \ {s} : g[z] = surfaces[z]
      BY <2>1 DEF Without, Restrict
    <2>3. r \in DOMAIN g /\ g[r] = surfaces[r]
      BY <2>2
    <2> QED
      BY <2>3 DEF g
  <1> QED
    BY <1>1, <1>2

LEMMA ResizeKeepsFrames ==
  ASSUME HeldFramesKept, NEW size, NEW failed, Resize(size, failed)
  PROVE  HeldFramesKept'
  <1>1. CASE UNCHANGED vppVars
    BY <1>1 DEF vppVars, HeldFramesKept
  <1>2. CASE ~UNCHANGED vppVars
    <2>1. PICK s \in Allocatable(size) :
            \E shows :
              /\ failed = "none" => shows = blits'
              /\ IF failed = "none"
                 THEN /\ surfaces' = Lent(size, s, shows)
                      /\ held' = With(held, blits', s)
                 ELSE /\ surfaces' = GivenBack(size, s, shows)
                      /\ UNCHANGED held
      BY <1>2 DEF Resize
    <2>2. PICK shows :
            /\ failed = "none" => shows = blits'
            /\ IF failed = "none"
               THEN /\ surfaces' = Lent(size, s, shows)
                    /\ held' = With(held, blits', s)
               ELSE /\ surfaces' = GivenBack(size, s, shows)
                    /\ UNCHANGED held
      BY <2>1
    <2>3. \A f \in DOMAIN held : held[f] # s /\ held[f] \in DOMAIN surfaces
      BY AllocatableUnheld DEF HeldFramesKept
    <2>4. CASE failed = "none"
      <3>1. /\ surfaces' = With(surfaces, s, [size |-> size, shows |-> blits', free |-> FALSE])
            /\ held' = With(held, blits', s)
        BY <2>2, <2>4 DEF Lent
      <3>2. /\ DOMAIN surfaces' = DOMAIN surfaces \cup {s}
            /\ surfaces'[s] = [size |-> size, shows |-> blits', free |-> FALSE]
            /\ \A r \in DOMAIN surfaces : r # s => surfaces'[r] = surfaces[r]
        <4> DEFINE lent == [size |-> size, shows |-> blits', free |-> FALSE]
        <4>1. surfaces' = With(surfaces, s, lent)
          BY <3>1
        <4> HIDE DEF lent
        <4>2. /\ DOMAIN surfaces' = DOMAIN surfaces \cup {s}
              /\ surfaces'[s] = lent
              /\ \A r \in DOMAIN surfaces : r # s => surfaces'[r] = surfaces[r]
          BY <4>1 DEF With
        <4> QED
          BY <4>2 DEF lent
      <3>3. /\ DOMAIN held' = DOMAIN held \cup {blits'}
            /\ held'[blits'] = s
            /\ \A f \in DOMAIN held : f # blits' => held'[f] = held[f]
        BY <3>1 DEF With
      <3>4. ASSUME NEW f \in DOMAIN held'
            PROVE  held'[f] \in DOMAIN surfaces' /\ surfaces'[held'[f]].shows = f /\ ~surfaces'[held'[f]].free
        <4>1. CASE f = blits'
          BY <3>2, <3>3, <4>1
        <4>2. CASE f # blits'
          BY <2>3, <3>2, <3>3, <3>4, <4>2 DEF HeldFramesKept
        <4> QED
          BY <4>1, <4>2
      <3> QED
        BY <3>4 DEF HeldFramesKept
    <2>5. CASE failed # "none"
      <3>1. surfaces' = GivenBack(size, s, shows) /\ held' = held
        BY <2>2, <2>5
      <3> QED
        BY <2>3, <3>1, GivenBackOthers DEF HeldFramesKept
    <2> QED
      BY <2>4, <2>5
  <1> QED
    BY <1>1, <1>2

LEMMA DropKeepsFrames ==
  ASSUME HeldFramesKept, NEW f \in DOMAIN held, DropFrame(f)
  PROVE  HeldFramesKept'
  <1>1. /\ surfaces' = GivenBack(surfaces[held[f]].size, held[f], surfaces[held[f]].shows)
        /\ held' = Without(held, f)
    BY DEF DropFrame
  <1>2. /\ DOMAIN held' = DOMAIN held \ {f}
        /\ \A g \in DOMAIN held \ {f} : held'[g] = held[g]
    BY <1>1 DEF Without, Restrict
  <1>3. ASSUME NEW g \in DOMAIN held \ {f}
        PROVE  /\ held[g] # held[f]
               /\ held[g] \in DOMAIN surfaces
    BY DEF HeldFramesKept
  <1>4. ASSUME NEW g \in DOMAIN held \ {f}
        PROVE  held[g] \in DOMAIN surfaces' /\ surfaces'[held[g]] = surfaces[held[g]]
    BY <1>1, <1>3, GivenBackOthers
  <1> QED
    BY <1>2, <1>4 DEF HeldFramesKept

\* resize() never writes over a frame a caller still holds: the surface it
\* takes is free or new, also after calls that failed and frames dropped in
\* any order.
THEOREM FramesStayWhole == VppSpec => []HeldFramesKept
  <1>1. VppInit => HeldFramesKept
    BY DEF VppInit, HeldFramesKept
  <1>2. HeldFramesKept /\ [VppNext]_vppVars => HeldFramesKept'
    <2> SUFFICES ASSUME HeldFramesKept, [VppNext]_vppVars PROVE HeldFramesKept'
      OBVIOUS
    <2>1. ASSUME NEW size, NEW failed, Blit(size, failed)
          PROVE  HeldFramesKept'
      BY <2>1 DEF Blit, HeldFramesKept
    <2>2. CASE UNCHANGED vppVars
      BY <2>2 DEF vppVars, HeldFramesKept
    <2> QED
      BY <2>1, <2>2, ResizeKeepsFrames, DropKeepsFrames, Zenon DEF VppNext
  <1> QED
    BY <1>1, <1>2, PTL DEF VppSpec
=============================================================================
