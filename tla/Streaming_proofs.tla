--------------------------- MODULE Streaming_proofs ---------------------------
(***************************************************************************)
(* Proofs about StreamPlan and Streaming, for any set of sources of the    *)
(* kind ffprobe can print and any number of attempts.                      *)
(***************************************************************************)
EXTENDS Streaming, SequenceTheorems, FiniteSetTheorems, WellFoundedInduction,
        TLAPS

----------------------------------------------------------------------------
(* What the first of some indices is.                                      *)
LEMMA FirstOne ==
  ASSUME NEW S \in SUBSET Nat, S # {}
  PROVE  Min(S) \in S /\ \A j \in S : Min(S) <= j
<1>1. \E i \in S : \A j \in S : ~(<<j, i>> \in OpToRel(<, Nat))
  BY NatLessThanWellFounded, WFMin
<1>2. \E i \in S : \A j \in S : i <= j
  <2>1. PICK i \in S : \A j \in S : ~(<<j, i>> \in OpToRel(<, Nat))
    BY <1>1
  <2>2. \A j \in S : ~(j < i)
    BY <2>1, Zenon DEF OpToRel
  <2> QED
    BY <2>2
<1> QED
  BY <1>2, Zenon DEF Min

----------------------------------------------------------------------------
(* The ladder.                                                             *)

LEMMA FullLadderIs ==
  /\ Len(FullLadder) = 5 /\ DOMAIN FullLadder = 1..5
  /\ FullLadder[1] = Rung("1080p", 1080, 5000, 5350, 128)
  /\ FullLadder[2] = Rung("720p", 720, 2800, 2996, 128)
  /\ FullLadder[3] = Rung("480p", 480, 1400, 1498, 96)
  /\ FullLadder[4] = Rung("360p", 360, 800, 856, 64)
  /\ FullLadder[5] = Rung("240p", 240, 400, 428, 48)
BY DEF FullLadder

LEMMA FullLadderRungs ==
  ASSUME NEW i \in 1..5
  PROVE  FullLadder[i] \in ToSet(FullLadder)
BY FullLadderIs DEF ToSet

LEMMA FullLadderValues ==
  ASSUME NEW i \in 1..5
  PROVE  /\ FullLadder[i].height \in Nat /\ FullLadder[i].height >= 240
         /\ PeakBandwidth(FullLadder[i]) \in Nat
<1>1. i = 1 \/ i = 2 \/ i = 3 \/ i = 4 \/ i = 5
  OBVIOUS
<1> QED
  BY <1>1, FullLadderIs DEF Rung, PeakBandwidth

LEMMA FullLadderFalls ==
  ASSUME NEW i \in 1..5, NEW j \in 1..5, i < j
  PROVE  /\ FullLadder[j].height < FullLadder[i].height
         /\ PeakBandwidth(FullLadder[j]) < PeakBandwidth(FullLadder[i])
<1>1. /\ FullLadder[1].height = 1080 /\ PeakBandwidth(FullLadder[1]) = 5478
      /\ FullLadder[2].height = 720  /\ PeakBandwidth(FullLadder[2]) = 3124
      /\ FullLadder[3].height = 480  /\ PeakBandwidth(FullLadder[3]) = 1594
      /\ FullLadder[4].height = 360  /\ PeakBandwidth(FullLadder[4]) = 920
      /\ FullLadder[5].height = 240  /\ PeakBandwidth(FullLadder[5]) = 476
  BY FullLadderIs DEF Rung, PeakBandwidth
<1>2. i = 1 \/ i = 2 \/ i = 3 \/ i = 4 \/ i = 5
  OBVIOUS
<1>3. j = 1 \/ j = 2 \/ j = 3 \/ j = 4 \/ j = 5
  OBVIOUS
<1> QED
  BY <1>1, <1>2, <1>3

(* What LadderFor gives is the whole end of the ladder.                    *)
LEMMA LadderShape ==
  ASSUME NEW height \in Int
  PROVE  LET L == LadderFor(height) IN
         /\ L \in Seq(ToSet(FullLadder)) /\ Len(L) \in 1..5
         /\ \A i \in DOMAIN L : height >= 240 => L[i].height <= height
         /\ \A i, j \in DOMAIN L :
              i < j => PeakBandwidth(L[j]) < PeakBandwidth(L[i])
<1> DEFINE fit == { i \in DOMAIN FullLadder : FullLadder[i].height <= height }
           L   == LadderFor(height)
<1>1. L = IF fit = {} THEN <<Last(FullLadder)>>
                      ELSE SubSeq(FullLadder, Min(fit), Len(FullLadder))
  BY DEF LadderFor
<1>2. Last(FullLadder) = FullLadder[5] /\ Len(FullLadder) = 5
  BY FullLadderIs DEF Last
<1>3. CASE fit = {}
  <2>1. L = <<FullLadder[5]>>
    BY <1>1, <1>2, <1>3, Zenon
  <2>2. FullLadder[5] \in ToSet(FullLadder)
    BY FullLadderRungs
  <2>3. ~(height >= 240)
    BY <1>3, FullLadderIs DEF Rung
  <2> HIDE DEF L
  <2> QED
    BY <2>1, <2>2, <2>3 DEF L
<1>4. CASE fit # {}
  <2> DEFINE m == Min(fit)
  <2>1. fit \in SUBSET Nat
    BY FullLadderIs
  <2>2. m \in fit /\ m \in 1..5
    BY <1>4, <2>1, FirstOne, FullLadderIs
  <2>3. L = SubSeq(FullLadder, m, 5)
    BY <1>1, <1>2, <1>4, Zenon
  <2> HIDE DEF L, m
  <2>4. /\ L \in Seq(ToSet(FullLadder))
        /\ Len(L) = 6 - m /\ DOMAIN L = 1..(6 - m)
        /\ \A i \in 1..(6 - m) : L[i] = FullLadder[m + i - 1]
    <3>1. \A i \in m..5 : FullLadder[i] \in ToSet(FullLadder)
      BY <2>2, FullLadderRungs
    <3>2. /\ L \in Seq(ToSet(FullLadder))
          /\ Len(L) = IF m <= 5 THEN 5 - m + 1 ELSE 0
          /\ \A i \in 1..(5 - m + 1) : L[i] = FullLadder[m + i - 1]
      BY <2>2, <2>3, <3>1, SubSeqProperties
    <3>3. Len(L) = 6 - m /\ DOMAIN L = 1..Len(L)
      BY <2>2, <3>2
    <3>4. \A i \in 1..(6 - m) : i \in 1..(5 - m + 1)
      BY <2>2
    <3> QED
      BY <3>2, <3>3, <3>4
  <2>5. ASSUME NEW i \in 1..(6 - m)
        PROVE  m + i - 1 \in 1..5 /\ (m + i - 1 = m \/ m < m + i - 1)
    BY <2>2
  <2>6. FullLadder[m].height <= height
    BY <2>2
  <2>7. ASSUME NEW i \in 1..(6 - m) PROVE L[i].height <= height
    <3>1. L[i] = FullLadder[m + i - 1] /\ m + i - 1 \in 1..5
      BY <2>4, <2>5
    <3>2. CASE m + i - 1 = m
      BY <2>6, <3>1, <3>2
    <3>3. CASE m < m + i - 1
      <4>1. FullLadder[m + i - 1].height < FullLadder[m].height
        BY <2>2, <3>1, <3>3, FullLadderFalls
      <4> QED
        BY <2>2, <2>6, <3>1, <4>1, FullLadderValues
    <3> QED
      BY <2>5, <3>2, <3>3
  <2>8. ASSUME NEW i \in 1..(6 - m), NEW j \in 1..(6 - m), i < j
        PROVE  PeakBandwidth(L[j]) < PeakBandwidth(L[i])
    <3>1. m + i - 1 < m + j - 1
      BY <2>2, <2>8
    <3>2. m + i - 1 \in 1..5 /\ m + j - 1 \in 1..5
      BY <2>5
    <3>3. PeakBandwidth(FullLadder[m + j - 1])
            < PeakBandwidth(FullLadder[m + i - 1])
      BY <3>1, <3>2, FullLadderFalls
    <3> QED
      BY <2>4, <3>3
  <2> QED
    BY <2>2, <2>4, <2>7, <2>8 DEF L
<1> QED
  BY <1>3, <1>4

(* The stable sort of BuildMasterPlaylist finds its ladder sorted.         *)
LEMMA SortKeeps ==
  ASSUME NEW S, NEW ladder \in Seq(S),
         \A i \in DOMAIN ladder : PeakBandwidth(ladder[i]) \in Int,
         \A i, j \in DOMAIN ladder :
           i < j => PeakBandwidth(ladder[j]) < PeakBandwidth(ladder[i])
  PROVE  Sorted(ladder) = ladder
<1>1. DOMAIN ladder = 1..Len(ladder) /\ Len(ladder) \in Nat
  OBVIOUS
<1>2. \A i \in DOMAIN ladder : Before(ladder, i) = 1..(i - 1)
  BY <1>1 DEF Before
<1>3. \A i \in DOMAIN ladder : Cardinality(Before(ladder, i)) = i - 1
  <2>1. \A k \in Nat : Cardinality(1..k) = k
    BY FS_Interval
  <2> QED
    BY <1>1, <1>2, <2>1
<1> DEFINE Place(n) ==
             CHOOSE i \in DOMAIN ladder : Cardinality(Before(ladder, i)) = n - 1
<1>4. ASSUME NEW n \in DOMAIN ladder PROVE Place(n) = n
  <2>1. \A i \in DOMAIN ladder :
          Cardinality(Before(ladder, i)) = n - 1 => i = n
    BY <1>1, <1>3
  <2>2. Cardinality(Before(ladder, n)) = n - 1
    BY <1>1, <1>3
  <2> QED
    BY <2>1, <2>2, Zenon
<1>5. Sorted(ladder) = [n \in DOMAIN ladder |-> ladder[Place(n)]]
  BY Zenon DEF Sorted
<1> HIDE DEF Place
<1>6. Sorted(ladder) = [n \in DOMAIN ladder |-> ladder[n]]
  BY <1>4, <1>5
<1> QED
  BY <1>1, <1>6, LenProperties

(* The even width: not above the proportion of the picture, and less than  *)
(* two pixels below it.                                                    *)
LEMMA WidthFits ==
  ASSUME NEW r, r.height \in Nat, NEW w \in Nat, NEW h \in Nat, h > 0,
         r.height <= h
  PROVE  LET v == Width(r, w, h) IN
         /\ v \in Nat /\ v <= w /\ v % 2 = 0
         /\ v * h <= r.height * w
         /\ r.height * w < (v + 2) * h
<1> DEFINE a == r.height * w
           q == a \div (2 * h)
<1>1. a \in Nat /\ 2 * h \in Nat /\ 2 * h > 0
  OBVIOUS
<1>2. Width(r, w, h) = 2 * q
  BY DEF Width
<1> HIDE DEF a, q
<1>3. q \in Nat /\ (2 * h) * q <= a /\ a < (2 * h) * q + 2 * h
  BY <1>1 DEF q
<1>4. (2 * q) * h = (2 * h) * q /\ (2 * q + 2) * h = (2 * h) * q + 2 * h
  BY <1>3
<1>5. a <= h * w
  BY DEF a
<1>6. 2 * q <= w
  <2> SUFFICES ASSUME 2 * q > w PROVE FALSE
    BY <1>3
  <2>1. (2 * q) * h > w * h
    BY <1>3
  <2> QED
    BY <1>1, <1>3, <1>4, <1>5, <2>1
<1>7. (2 * q) % 2 = 0
  BY <1>3
<1> QED
  BY <1>2, <1>3, <1>4, <1>6, <1>7 DEF a

----------------------------------------------------------------------------
(* The probe.                                                              *)

LEMMA RotationTyped ==
  ASSUME NEW s
  PROVE  ParseRotation(s) \in Int
BY DEF ParseRotation, NormaliseRotation, QuarterTurn

LEMMA ProbeTyped ==
  ASSUME NEW out \in Output
  PROVE  LET p == ParseProbe(out) IN
         /\ p.width \in Int /\ p.height \in Int /\ p.duration \in Int
<1> DEFINE videos == { i \in DOMAIN out.streams : out.streams[i].type = "video" }
           v      == out.streams[Min(videos)]
           none   == [video |-> FALSE, codec |-> "", width |-> 0, height |-> 0,
                      rotation |-> 0, duration |-> out.duration,
                      container |-> out.container]
           first  == [video |-> TRUE, codec |-> v.codec, width |-> v.width,
                      height |-> v.height, rotation |-> ParseRotation(v),
                      duration |-> IF out.duration = 0 THEN v.duration
                                   ELSE out.duration,
                      container |-> out.container]
<1>1. out.streams \in Seq(Stream) /\ out.duration \in Int
  BY DEF Output
<1>2. ParseProbe(out) = IF videos = {} THEN none ELSE first
  BY Zenon DEF ParseProbe
<1>3. /\ none.width \in Int /\ none.height \in Int /\ none.duration \in Int
  BY <1>1
<1>4. ASSUME videos # {}
      PROVE  first.width \in Int /\ first.height \in Int /\ first.duration \in Int
  <2>1. videos \in SUBSET Nat
    BY <1>1
  <2>2. Min(videos) \in DOMAIN out.streams
    BY <1>4, <2>1, FirstOne
  <2>3. \A i \in DOMAIN out.streams : out.streams[i] \in Stream
    BY <1>1
  <2>4. v \in Stream
    BY <2>2, <2>3, Zenon
  <2> HIDE DEF v
  <2>5. v.width \in Int /\ v.height \in Int /\ v.duration \in Int
    BY <2>4 DEF Stream
  <2> QED
    BY <1>1, <2>5
<1> HIDE DEF videos, none, first
<1> QED
  BY <1>2, <1>3, <1>4

(* What is accepted has passed the checks of size and length.              *)
LEMMA AcceptedIs ==
  ASSUME NEW p, NEW purpose, NEW declared,
         Validate(p, purpose, declared) = "none"
  PROVE  /\ ~(p.duration <= 0)
         /\ ~(DisplayDimensions(p)[1] < 640) /\ ~(DisplayDimensions(p)[2] < 360)
<1> DEFINE F      == Fails(p, purpose, declared)
           failed == { i \in DOMAIN Checks : F[Checks[i]] }
<1>1. /\ DOMAIN Checks = 1..7 /\ \A i \in 1..7 : Checks[i] # "none"
      /\ Checks[2] = "undeterminable_duration"
      /\ Checks[5] = "resolution_too_low"
  BY DEF Checks
<1>2. failed = {}
  <2> SUFFICES ASSUME failed # {} PROVE FALSE
    OBVIOUS
  <2>1. Checks[Min(failed)] = "none"
    <3>1. Validate(p, purpose, declared)
            = IF failed = {} THEN "none" ELSE Checks[Min(failed)]
      BY DEF Validate
    <3> HIDE DEF failed
    <3> QED
      BY <3>1
  <2>2. Min(failed) \in 1..7
    BY <1>1, FirstOne
  <2> QED
    BY <1>1, <2>1, <2>2
<1>3. ~F["undeterminable_duration"] /\ ~F["resolution_too_low"]
  BY <1>1, <1>2
<1> QED
  BY <1>3 DEF Fails

----------------------------------------------------------------------------
(* What the source decides stays as it is.                                 *)

Names == { r.name : r \in ToSet(Ladder) }

LEMMA LadderTyped ==
  ASSUME source \in Source
  PROVE  /\ DisplayDimensions(Probe)[1] \in Int
         /\ DisplayDimensions(Probe)[2] \in Int
         /\ Ladder \in Seq(ToSet(FullLadder))
         /\ DOMAIN Ladder = 1..Len(Ladder) /\ Len(Ladder) \in 1..5
         /\ \A i \in DOMAIN Ladder : Ladder[i].name \in Names
         /\ Names \subseteq RungName
<1>1. source.out \in Output
  BY StreamingAssumption
<1>2. DisplayDimensions(Probe)[1] \in Int /\ DisplayDimensions(Probe)[2] \in Int
  BY <1>1, ProbeTyped DEF Probe, DisplayDimensions
<1>3. Ladder \in Seq(ToSet(FullLadder)) /\ Len(Ladder) \in 1..5
  BY <1>2, LadderShape DEF Ladder
<1>4. DOMAIN Ladder = 1..Len(Ladder)
  BY <1>3
<1>5. \A i \in DOMAIN Ladder : Ladder[i] \in ToSet(FullLadder)
  BY <1>3, <1>4
<1>6. Names \subseteq RungName
  BY <1>5 DEF Names, RungName, ToSet
<1>7. \A i \in DOMAIN Ladder : Ladder[i].name \in Names
  BY DEF Names, ToSet
<1> QED
  BY <1>2, <1>3, <1>4, <1>6, <1>7

(* The master playlist names the rungs of the ladder in its order.         *)
LEMMA MasterIs ==
  ASSUME source \in Source
  PROVE  LET w == DisplayDimensions(Probe)[1]
             h == DisplayDimensions(Probe)[2]
         IN /\ Master = [i \in DOMAIN Ladder |->
                           [rung   |-> Ladder[i].name,
                            width  |-> Width(Ladder[i], w, h),
                            height |-> Ladder[i].height]]
            /\ { v.rung : v \in ToSet(Master) } = Names
<1> DEFINE w == DisplayDimensions(Probe)[1]
           h == DisplayDimensions(Probe)[2]
<1>1. Sorted(Ladder) = Ladder
  <2>1. \A i \in DOMAIN Ladder : Ladder[i] \in ToSet(FullLadder)
    BY LadderTyped
  <2>2. \A r \in ToSet(FullLadder) : PeakBandwidth(r) \in Int
    BY FullLadderIs, FullLadderValues DEF ToSet
  <2>3. \A i, j \in DOMAIN Ladder :
          i < j => PeakBandwidth(Ladder[j]) < PeakBandwidth(Ladder[i])
    BY LadderTyped, LadderShape DEF Ladder
  <2> QED
    BY <2>1, <2>2, <2>3, LadderTyped, SortKeeps
<1> HIDE DEF w, h
<1>2. Master = [i \in DOMAIN Ladder |-> [rung   |-> Ladder[i].name,
                                         width  |-> Width(Ladder[i], w, h),
                                         height |-> Ladder[i].height]]
  BY <1>1 DEF Master, MasterPlaylist, w, h
<1>3. { v.rung : v \in ToSet(Master) } = Names
  BY <1>2 DEF ToSet, Names
<1> QED
  BY <1>2, <1>3 DEF w, h

LEMMA SegmentCountIs ==
  ASSUME source \in Source
  PROVE  /\ SegmentCount \in Int /\ SegmentCount <= MaxSegments
         /\ Accepted => SegmentCount >= 1
<1>1. Probe.duration \in Int
  BY StreamingAssumption, ProbeTyped DEF Probe
<1>2. Accepted => Probe.duration > 0
  BY <1>1, AcceptedIs DEF Accepted
<1>3. (Probe.duration + 5) \div 6 \in Int
  BY <1>1
<1>4. Accepted => (Probe.duration + 5) \div 6 >= 1
  BY <1>1, <1>2
<1> QED
  BY <1>3, <1>4, StreamingAssumption DEF SegmentCount

LEMMA SourceStays ==
  ASSUME [Next]_vars
  PROVE  /\ source' = source
         /\ Ladder' = Ladder /\ Names' = Names /\ Master' = Master
         /\ SegmentCount' = SegmentCount /\ Accepted' = Accepted
<1>1. source' = source
  BY DEF Next, vars, Claim, Judge, Encode, Upload, UploadMaster, Succeed, Abort,
         AskMaster, ServeMaster, ServeVariant, AskVariant
<1>2. Probe' = Probe
  BY <1>1 DEF Probe
<1>3. Ladder' = Ladder /\ SegmentCount' = SegmentCount
  BY <1>2 DEF Ladder, SegmentCount
<1>4. Names' = Names /\ Master' = Master
  BY <1>2, <1>3 DEF Names, Master
<1>5. Accepted' = Accepted
  BY <1>1, <1>2 DEF Accepted
<1> QED
  BY <1>1, <1>3, <1>4, <1>5

----------------------------------------------------------------------------
(* The inductive invariant.                                                *)

(* Every file of every rung is stored, and the master playlist.            *)
AllStored == /\ MasterKey \in objects
             /\ Names \X (0..SegmentCount) \subseteq objects

(* An attempt that uploads has stored what comes before the file it is at. *)
Uploaded(w) ==
  \A i \in DOMAIN Ladder, k \in 0..SegmentCount :
    i < at[w][1] \/ (i = at[w][1] /\ k < at[w][2])
      => <<Ladder[i].name, k>> \in objects

AttemptAt(w) ==
  /\ step[w] \in {"encoding", "uploading", "succeeding"} => Accepted
  /\ step[w] = "uploading"  => Uploaded(w)
  /\ step[w] = "succeeding" => AllStored

(* What the row promises is there.                                         *)
RowHolds ==
  row.status = "READY" => Accepted /\ AllStored /\ row.rungs = Names

(* A request began when the row was READY, and was shown these rungs.      *)
PlayerAt ==
  /\ player # "idle" => row.status = "READY" /\ known = Names
  /\ player = "variant" => asked \in Names
  /\ offered \subseteq Names

Support == /\ TypeOK
           /\ \A w \in Attempt : AttemptAt(w)
           /\ RowHolds
           /\ PlayerAt
           /\ signed \subseteq objects
           /\ ~broken

----------------------------------------------------------------------------
(* Types.                                                                  *)

LEMMA MasterNames ==
  ASSUME source \in Source
  PROVE  { v.rung : v \in ToSet(Master) } = Names
BY MasterIs

LEMMA AtTyped ==
  ASSUME TypeOK, NEW w \in Attempt
  PROVE  /\ at[w][1] \in 1..6 /\ at[w][2] \in 0..MaxSegments
         /\ at[w][1] \in Nat /\ at[w][2] \in Nat
<1>1. Len(FullLadder) + 1 = 6
  BY FullLadderIs
<1>2. at \in [Attempt -> (1..6) \X (0..MaxSegments)]
  BY <1>1 DEF TypeOK
<1>3. at[w] \in (1..6) \X (0..MaxSegments)
  BY <1>2
<1>4. at[w][1] \in 1..6 /\ at[w][2] \in 0..MaxSegments
  BY <1>3
<1>5. MaxSegments \in Nat
  BY StreamingAssumption
<1> QED
  BY <1>4, <1>5

LEMMA TypesInductive ==
  ASSUME TypeOK, [Next]_vars
  PROVE  TypeOK'
<1>0. source \in Source
  BY DEF TypeOK
<1>1. /\ Names \subseteq RungName /\ Len(Ladder) \in 1..5
      /\ DOMAIN Ladder = 1..Len(Ladder)
      /\ \A i \in DOMAIN Ladder : Ladder[i].name \in RungName
      /\ Len(FullLadder) = 5
  <2>1. /\ Names \subseteq RungName /\ Len(Ladder) \in 1..5
        /\ DOMAIN Ladder = 1..Len(Ladder)
        /\ \A i \in DOMAIN Ladder : Ladder[i].name \in Names
    BY <1>0, LadderTyped
  <2>2. Len(FullLadder) = 5
    BY FullLadderIs
  <2> QED
    BY <2>1, <2>2
<1>2. SegmentCount \in Int /\ SegmentCount <= MaxSegments /\ MaxSegments \in Nat
  BY <1>0, SegmentCountIs, StreamingAssumption
<1>3. ASSUME NEW w \in Attempt, Claim(w) PROVE TypeOK'
  BY <1>3 DEF Claim, playing, TypeOK
<1>4. ASSUME NEW w \in Attempt, Judge(w) PROVE TypeOK'
  BY <1>4 DEF Judge, playing, TypeOK
<1>5. ASSUME NEW w \in Attempt, Encode(w) PROVE TypeOK'
  <2>1. <<1, Index>> \in (1..(Len(FullLadder) + 1)) \X (0..MaxSegments)
    BY <1>1, <1>2 DEF Index
  <2> QED
    BY <1>5, <2>1 DEF Encode, playing, TypeOK
<1>6. ASSUME NEW w \in Attempt, Upload(w) PROVE TypeOK'
  <2> DEFINE next == IF at[w][2] < SegmentCount THEN <<at[w][1], at[w][2] + 1>>
                     ELSE <<at[w][1] + 1, Index>>
  <2>1. /\ at[w][1] \in 1..6 /\ at[w][2] \in 0..MaxSegments
        /\ at[w][1] \in Nat /\ at[w][2] \in Nat
    BY AtTyped
  <2>2. at[w][1] \in 1..Len(Ladder)
    BY <1>1, <1>6, <2>1 DEF Upload
  <2>3. next \in (1..(Len(FullLadder) + 1)) \X (0..MaxSegments)
    <3>1. at[w][1] + 1 \in 1..(Len(FullLadder) + 1) /\ Index \in 0..MaxSegments
          /\ at[w][1] \in 1..(Len(FullLadder) + 1)
      BY <1>1, <1>2, <2>1, <2>2 DEF Index
    <3>2. at[w][2] < SegmentCount => at[w][2] + 1 \in 0..MaxSegments
      BY <1>2, <2>1
    <3> QED
      BY <3>1, <3>2
  <2>4. <<Ladder[at[w][1]].name, at[w][2]>> \in Key
    BY <1>1, <2>1, <2>2 DEF Key
  <2>5. /\ at' = [at EXCEPT ![w] = next]
        /\ objects' = objects \cup {<<Ladder[at[w][1]].name, at[w][2]>>}
        /\ UNCHANGED <<source, row, owner, step, playing>>
    BY <1>6 DEF Upload
  <2> HIDE DEF next
  <2> QED
    BY <2>3, <2>4, <2>5 DEF playing, TypeOK
<1>7. ASSUME NEW w \in Attempt, UploadMaster(w) PROVE TypeOK'
  BY <1>7 DEF UploadMaster, playing, Key, TypeOK
<1>8. ASSUME NEW w \in Attempt, Succeed(w) PROVE TypeOK'
  BY <1>1, <1>8 DEF Succeed, playing, Names, TypeOK
<1>9. ASSUME NEW w \in Attempt, Abort(w) PROVE TypeOK'
  BY <1>9 DEF Abort, playing, TypeOK
<1>10. CASE AskMaster
  BY <1>10 DEF AskMaster, TypeOK
<1>11. CASE ServeMaster
  BY <1>1, <1>11, MasterNames DEF ServeMaster, TypeOK
<1>12. CASE ServeVariant
  <2>1. player' = "idle" /\ known' = {} /\ asked' = ""
    BY <1>12 DEF ServeVariant
  <2>2. signed' \subseteq Key /\ broken' \in BOOLEAN
    <3>1. CASE asked \in known /\ <<asked, Index>> \in objects
      <4>1. asked \in RungName
        BY <3>1 DEF TypeOK
      <4>2. {asked} \X (1..SegmentCount) \subseteq RungName \X (0..MaxSegments)
        BY <1>2, <4>1
      <4>3. {asked} \X (1..SegmentCount) \subseteq Key
        BY <4>2 DEF Key
      <4> QED
        BY <1>12, <3>1, <4>3 DEF ServeVariant, TypeOK
    <3>2. CASE ~(asked \in known /\ <<asked, Index>> \in objects)
      BY <1>12, <3>2 DEF ServeVariant, TypeOK
    <3> QED
      BY <3>1, <3>2
  <2> QED
    BY <1>12, <2>1, <2>2 DEF ServeVariant, TypeOK
<1>13. ASSUME NEW rung \in RungName, AskVariant(rung) PROVE TypeOK'
  BY <1>13 DEF AskVariant, TypeOK
<1>14. CASE UNCHANGED vars
  BY <1>14 DEF vars, TypeOK
<1> QED
  BY <1>3, <1>4, <1>5, <1>6, <1>7, <1>8, <1>9, <1>10, <1>11, <1>12, <1>13,
     <1>14 DEF Next

----------------------------------------------------------------------------
(* Steps.                                                                  *)

(* Nothing that is stored is lost.                                         *)
LEMMA StoredStays ==
  ASSUME [Next]_vars
  PROVE  /\ objects \subseteq objects'
         /\ AllStored => AllStored'
         /\ \A w \in Attempt : at'[w] = at[w] => (Uploaded(w) => Uploaded(w)')
<1>1. objects \subseteq objects'
  BY DEF Next, vars, playing, Claim, Judge, Encode, Upload, UploadMaster,
         Succeed, Abort, AskMaster, ServeMaster, ServeVariant, AskVariant
<1>2. AllStored => AllStored'
  BY <1>1, SourceStays DEF AllStored, MasterKey
<1>3. \A w \in Attempt : at'[w] = at[w] => (Uploaded(w) => Uploaded(w)')
  BY <1>1, SourceStays DEF Uploaded
<1> QED
  BY <1>1, <1>2, <1>3

(* An attempt that has gone past the last rung has stored every rung.      *)
LEMMA PastTheEnd ==
  ASSUME TypeOK, NEW w \in Attempt, Uploaded(w), at[w][1] > Len(Ladder)
  PROVE  Names \X (0..SegmentCount) \subseteq objects
<1> SUFFICES ASSUME NEW name \in Names, NEW k \in 0..SegmentCount
             PROVE  <<name, k>> \in objects
  OBVIOUS
<1>1. PICK i \in DOMAIN Ladder : name = Ladder[i].name
  BY DEF Names, ToSet
<1>2. DOMAIN Ladder = 1..Len(Ladder) /\ Len(Ladder) \in 1..5
  BY LadderTyped DEF TypeOK
<1>3. at[w][1] \in Nat
  BY AtTyped
<1>4. i < at[w][1]
  BY <1>2, <1>3
<1> QED
  BY <1>1, <1>4 DEF Uploaded

AttemptStep(w) == \/ Claim(w) \/ Judge(w) \/ Encode(w) \/ Upload(w)
                  \/ UploadMaster(w) \/ Succeed(w) \/ Abort(w)

LEMMA AttemptInductive ==
  ASSUME TypeOK, [Next]_vars, NEW w \in Attempt, AttemptAt(w)
  PROVE  AttemptAt(w)'
<1>0. source \in Source
  BY DEF TypeOK
<1>1. Accepted' = Accepted
  BY SourceStays
<1>2. CASE step'[w] = step[w] /\ at'[w] = at[w]
  BY <1>1, <1>2, StoredStays DEF AttemptAt
<1>3. CASE Judge(w)
  BY <1>1, <1>3 DEF Judge, AttemptAt, TypeOK
<1>4. CASE Encode(w)
  <2>1. step'[w] = "uploading" /\ at'[w] = <<1, 0>> /\ Accepted'
    BY <1>1, <1>4 DEF Encode, AttemptAt, TypeOK, Index
  <2>2. Uploaded(w)'
    <3>1. DOMAIN Ladder' = DOMAIN Ladder /\ DOMAIN Ladder = 1..Len(Ladder)
          /\ Len(Ladder) \in Nat
      BY <1>0, SourceStays, LadderTyped
    <3>2. \A i \in DOMAIN Ladder, k \in 0..SegmentCount' : ~(i < 1) /\ ~(k < 0)
      BY <3>1
    <3> QED
      BY <2>1, <3>1, <3>2 DEF Uploaded
  <2> QED
    BY <2>1, <2>2 DEF AttemptAt
<1>5. CASE Upload(w)
  <2> DEFINE r == at[w][1]
             f == at[w][2]
  <2>1. /\ step[w] = "uploading" /\ r <= Len(Ladder) /\ step' = step
        /\ objects' = objects \cup {<<Ladder[r].name, f>>}
        /\ at' = [at EXCEPT ![w] = IF f < SegmentCount THEN <<r, f + 1>>
                                   ELSE <<r + 1, 0>>]
    BY <1>5 DEF Upload, Index
  <2>2. r \in Nat /\ f \in Nat
    BY AtTyped
  <2>3. SegmentCount \in Int /\ DOMAIN Ladder = 1..Len(Ladder) /\ Len(Ladder) \in Nat
    BY <1>0, SegmentCountIs, LadderTyped
  <2>4. at'[w] = IF f < SegmentCount THEN <<r, f + 1>> ELSE <<r + 1, 0>>
    BY <2>1 DEF TypeOK
  <2>5. Uploaded(w) /\ Accepted
    BY <2>1 DEF AttemptAt
  <2>6. Ladder' = Ladder /\ SegmentCount' = SegmentCount
    BY SourceStays
  <2> HIDE DEF r, f
  <2>7. ASSUME NEW i \in DOMAIN Ladder, NEW k \in 0..SegmentCount,
               i < at'[w][1] \/ (i = at'[w][1] /\ k < at'[w][2])
        PROVE  <<Ladder[i].name, k>> \in objects'
    <3>1. (i < r \/ (i = r /\ k < f)) \/ (i = r /\ k = f)
      <4>1. CASE f < SegmentCount
        BY <2>2, <2>3, <2>4, <2>7, <4>1
      <4>2. CASE ~(f < SegmentCount)
        <5>1. at'[w] = <<r + 1, 0>>
          BY <2>4, <4>2
        <5>2. i \in Nat /\ k \in Nat /\ k <= SegmentCount
          BY <2>3
        <5>3. i < r + 1
          BY <2>2, <2>7, <5>1, <5>2
        <5> QED
          BY <2>2, <2>3, <4>2, <5>2, <5>3
      <4> QED
        BY <4>1, <4>2
    <3>2. CASE i < r \/ (i = r /\ k < f)
      BY <2>1, <2>5, <3>2 DEF Uploaded, r, f
    <3>3. CASE i = r /\ k = f
      BY <2>1, <3>3
    <3> QED
      BY <3>1, <3>2, <3>3
  <2>8. Uploaded(w)'
    BY <2>6, <2>7 DEF Uploaded
  <2> QED
    BY <1>1, <2>1, <2>5, <2>8 DEF AttemptAt
<1>6. CASE UploadMaster(w)
  <2>1. /\ step[w] = "uploading" /\ at[w][1] > Len(Ladder)
        /\ step'[w] = "succeeding" /\ MasterKey \in objects'
    BY <1>6 DEF UploadMaster, TypeOK
  <2>2. Names \X (0..SegmentCount) \subseteq objects
    BY <2>1, PastTheEnd DEF AttemptAt
  <2>3. AllStored'
    BY <2>1, <2>2, SourceStays, StoredStays DEF AllStored, MasterKey
  <2> QED
    BY <1>1, <2>1, <2>3 DEF AttemptAt
<1>7. CASE step'[w] \notin {"encoding", "uploading", "succeeding"}
  BY <1>7 DEF AttemptAt
<1> QED
  <2>1. ASSUME NEW u \in Attempt, AttemptStep(u)
        PROVE  AttemptAt(w)'
    <3>1. CASE u = w
      <4>1. Claim(w) \/ Succeed(w) \/ Abort(w)
              => step'[w] \notin {"encoding", "uploading", "succeeding"}
        BY DEF Claim, Succeed, Abort, TypeOK
      <4> QED
        BY <2>1, <3>1, <4>1, <1>3, <1>4, <1>5, <1>6, <1>7 DEF AttemptStep
    <3>2. CASE u # w
      <4>1. step'[w] = step[w] /\ at'[w] = at[w]
        BY <2>1, <3>2 DEF AttemptStep, Claim, Judge, Encode, Upload,
                          UploadMaster, Succeed, Abort, TypeOK
      <4> QED
        BY <1>2, <4>1
    <3> QED
      BY <3>1, <3>2
  <2>2. CASE ~\E u \in Attempt : AttemptStep(u)
    <3>1. step' = step /\ at' = at
      BY <2>2 DEF AttemptStep, Next, vars, AskMaster, ServeMaster,
                  ServeVariant, AskVariant
    <3> QED
      BY <1>2, <3>1
  <2> QED
    BY <2>1, <2>2

(* Only the owner's verdict changes the row, and READY is final.           *)
LEMMA RowInductive ==
  ASSUME TypeOK, \A w \in Attempt : AttemptAt(w), RowHolds, [Next]_vars
  PROVE  /\ RowHolds'
         /\ row.status = "READY" => row'.status = "READY"
<1>1. Accepted' = Accepted /\ Names' = Names
  BY SourceStays
<1>2. CASE row' = row
  BY <1>1, <1>2, StoredStays DEF RowHolds
<1>3. ASSUME NEW w \in Attempt, Judge(w), row' # row
      PROVE  row.status # "READY" /\ row'.status # "READY"
  <2>1. row' = [row EXCEPT !.status = "REJECTED"] /\ ~Accepted
    BY <1>3 DEF Judge
  <2> QED
    BY <2>1 DEF RowHolds, TypeOK
<1>4. ASSUME NEW w \in Attempt, Succeed(w), row' # row
      PROVE  RowHolds' /\ row'.status = "READY"
  <2>1. step[w] = "succeeding" /\ row' = [status |-> "READY", rungs |-> Names]
    BY <1>4 DEF Succeed, Names
  <2>2. Accepted /\ AllStored
    BY <2>1 DEF AttemptAt
  <2> QED
    BY <1>1, <2>1, <2>2, StoredStays DEF RowHolds
<1>5. CASE row' # row
  <2>1. PICK w \in Attempt : Judge(w) \/ Succeed(w)
    BY <1>5 DEF Next, vars, Claim, Encode, Upload, UploadMaster, Abort,
                AskMaster, ServeMaster, ServeVariant, AskVariant
  <2> QED
    BY <1>3, <1>4, <1>5, <2>1 DEF RowHolds
<1> QED
  BY <1>2, <1>5

(* The player: what it is told at a time when all is stored.               *)
LEMMA PlayerInductive ==
  ASSUME TypeOK, \A w \in Attempt : AttemptAt(w), RowHolds, PlayerAt,
         signed \subseteq objects, ~broken, [Next]_vars
  PROVE  PlayerAt' /\ signed' \subseteq objects' /\ ~broken'
<1>1. /\ Names' = Names /\ objects \subseteq objects'
      /\ row.status = "READY" => row'.status = "READY"
  BY SourceStays, StoredStays, RowInductive
<1>2. player # "idle" => Accepted /\ AllStored /\ known = Names
  BY DEF PlayerAt, RowHolds
<1>3. CASE UNCHANGED playing
  BY <1>1, <1>3 DEF playing, PlayerAt
<1>4. CASE AskMaster
  BY <1>1, <1>4 DEF AskMaster, PlayerAt, RowHolds
<1>5. CASE ServeMaster
  <2>1. MasterKey \in objects /\ { v.rung : v \in ToSet(Master) } = known
        /\ known = Names
    BY <1>2, <1>5, MasterNames DEF ServeMaster, AllStored, TypeOK
  <2>2. /\ player' = "idle" /\ offered' = Names
        /\ UNCHANGED <<asked, signed, broken>>
    BY <1>5, <2>1 DEF ServeMaster
  <2> QED
    BY <1>1, <2>2 DEF PlayerAt
<1>6. CASE ServeVariant
  <2>1. /\ player = "variant" /\ player' = "idle" /\ offered' = offered
        /\ asked \in Names /\ known = Names /\ AllStored /\ Accepted
    BY <1>2, <1>6 DEF ServeVariant, PlayerAt
  <2>2. SegmentCount \in Int /\ SegmentCount >= 1
    BY <2>1, SegmentCountIs DEF TypeOK
  <2>3. Index \in 0..SegmentCount /\ 1..SegmentCount \subseteq 0..SegmentCount
    BY <2>2 DEF Index
  <2>4. <<asked, Index>> \in objects
    BY <2>1, <2>3 DEF AllStored
  <2>5. {asked} \X (1..SegmentCount) \subseteq objects
    BY <2>1, <2>3 DEF AllStored
  <2>6. /\ signed' = signed \cup ({asked} \X (1..SegmentCount))
        /\ UNCHANGED broken
    BY <1>6, <2>1, <2>4 DEF ServeVariant
  <2> QED
    BY <1>1, <2>1, <2>5, <2>6 DEF PlayerAt
<1>7. ASSUME NEW rung \in RungName, AskVariant(rung)
      PROVE  PlayerAt' /\ signed' \subseteq objects' /\ ~broken'
  BY <1>1, <1>7 DEF AskVariant, PlayerAt, RowHolds
<1> QED
  <2>1. \/ UNCHANGED playing \/ AskMaster \/ ServeMaster \/ ServeVariant
        \/ \E rung \in RungName : AskVariant(rung)
    BY DEF Next, vars, playing, Claim, Judge, Encode, Upload, UploadMaster,
           Succeed, Abort
  <2> QED
    BY <1>3, <1>4, <1>5, <1>6, <1>7, <2>1

----------------------------------------------------------------------------
(* The theorems.                                                           *)

LEMMA SupportStart ==
  ASSUME Init
  PROVE  Support
<1>1. <<1, Index>> \in (1..(Len(FullLadder) + 1)) \X (0..MaxSegments)
  BY StreamingAssumption, FullLadderIs DEF Index
<1>2. TypeOK
  BY <1>1 DEF Init, TypeOK
<1> QED
  BY <1>2 DEF Init, Support, AttemptAt, RowHolds, PlayerAt

LEMMA SupportInductive ==
  ASSUME Support, [Next]_vars
  PROVE  Support'
BY TypesInductive, AttemptInductive, RowInductive, PlayerInductive DEF Support

LEMMA Supported == Spec => []Support
BY SupportStart, SupportInductive, PTL DEF Spec

(* Every variable has its type, for any sources and any number of workers: *)
(* in particular no upload of worker.go leaves the ladder of the source.   *)
THEOREM StreamTypes == Spec => []TypeOK
<1>1. Support => TypeOK
  BY DEF Support
<1> QED
  BY <1>1, Supported, PTL

(* A READY asset plays, whatever the workers that have lost the job still  *)
(* do: READY is given after the last upload of worker.go, and nothing in   *)
(* playback.go asks for more than was uploaded.                            *)
THEOREM ReadyPlays == Spec => []NothingBroken
<1>1. Support => NothingBroken
  BY DEF Support, NothingBroken
<1> QED
  BY <1>1, Supported, PTL

(* The presigned URLs of RewriteVariantPlaylist lead to segments that are  *)
(* stored.                                                                 *)
THEOREM SignedStored == Spec => []SignedIsStored
<1>1. Support => SignedIsStored
  BY DEF Support, SignedIsStored
<1> QED
  BY <1>1, Supported, PTL

(* LadderFor and RenditionWidth never upscale what Validate accepts, for   *)
(* any picture and any rotation ffprobe can report.                        *)
THEOREM NeverUpscaled == Spec => []NothingUpscaled
<1>1. ASSUME TypeOK PROVE NothingUpscaled
  <2>0. source \in Source
    BY <1>1 DEF TypeOK
  <2> DEFINE w == DisplayDimensions(Probe)[1]
             h == DisplayDimensions(Probe)[2]
  <2> SUFFICES ASSUME Accepted, NEW v \in ToSet(Master)
               PROVE  /\ v.height <= h /\ v.width <= w
                      /\ v.width * h <= v.height * w
                      /\ v.height * w < (v.width + 2) * h
                      /\ v.width % 2 = 0
    BY DEF NothingUpscaled
  <2>1. w \in Int /\ h \in Int
    BY <2>0, LadderTyped
  <2>2. w \in Nat /\ h \in Nat /\ h >= 360
    BY <2>1, AcceptedIs DEF Accepted
  <2>3. PICK i \in DOMAIN Ladder : v = Master[i]
    <3>1. DOMAIN Master = DOMAIN Ladder
      BY <2>0, MasterIs
    <3> QED
      BY <3>1 DEF ToSet
  <2>4. v = [rung |-> Ladder[i].name, width |-> Width(Ladder[i], w, h),
             height |-> Ladder[i].height]
    BY <2>0, <2>3, MasterIs
  <2>5. Ladder[i].height \in Nat
    <3>1. Ladder[i] \in ToSet(FullLadder)
      BY <2>0, LadderTyped
    <3>2. \A r \in ToSet(FullLadder) : r.height \in Nat
      BY FullLadderIs, FullLadderValues DEF ToSet
    <3> QED
      BY <3>1, <3>2
  <2>6. Ladder[i].height <= h
    <3>1. h >= 240
      BY <2>2
    <3>2. \A k \in DOMAIN Ladder : h >= 240 => Ladder[k].height <= h
      BY <2>1, LadderShape, Zenon DEF Ladder
    <3> QED
      BY <3>1, <3>2
  <2> HIDE DEF w, h
  <2> QED
    BY <2>2, <2>4, <2>5, <2>6, WidthFits
<1> QED
  BY <1>1, StreamTypes, PTL

(* The rotation that is stored is the one the container gives, for any     *)
(* angle and any number of full turns, and the picture lies on its side    *)
(* exactly after an odd number of quarter turns.                           *)
LEMMA RemainderFits ==
  ASSUME NEW r \in Int
  PROVE  /\ Remainder(r) \in -359..359
         /\ (Remainder(r) - r) % 360 = 0
         /\ r >= 0 => Remainder(r) >= 0
<1>1. CASE r < 0
  <2>1. Remainder(r) = -((-r) % 360)
    BY <1>1 DEF Remainder
  <2> QED
    BY <1>1, <2>1
<1>2. CASE r >= 0
  <2>1. Remainder(r) = r % 360
    BY <1>2 DEF Remainder
  <2> QED
    BY <1>2, <2>1
<1> QED
  BY <1>1, <1>2

LEMMA NormalisedTurn ==
  ASSUME NEW r \in Int
  PROVE  /\ SameTurn(NormaliseRotation(r), r)
         /\ NormaliseRotation(r) \in {90, 270} <=> r % 180 = 90
<1> DEFINE m == Remainder(r)
           q == IF m < 0 THEN m + 360 ELSE m
<1>1. q \in 0..359 /\ (q - r) % 360 = 0
  <2>1. m \in -359..359 /\ (m - r) % 360 = 0
    BY RemainderFits
  <2> HIDE DEF m
  <2> QED
    BY <2>1
<1>2. NormaliseRotation(r) = QuarterTurn(q)
  BY DEF NormaliseRotation
<1> HIDE DEF q
<1>3. CASE q \in {90, 180, 270}
  <2>1. NormaliseRotation(r) = q
    BY <1>2, <1>3 DEF QuarterTurn
  <2>2. r % 90 = 0 /\ (q \in {90, 270} <=> r % 180 = 90)
    BY <1>1, <1>3
  <2> QED
    BY <1>1, <1>3, <2>1, <2>2 DEF SameTurn
<1>4. CASE q \notin {90, 180, 270}
  <2>1. NormaliseRotation(r) = 0
    BY <1>2, <1>4 DEF QuarterTurn
  <2>2. r % 90 = 0 => q = 0
    BY <1>1, <1>4
  <2>3. r % 180 # 90
    BY <1>1, <1>4
  <2> QED
    BY <1>1, <2>1, <2>2, <2>3 DEF SameTurn
<1> QED
  BY <1>3, <1>4

THEOREM TurnedRight == Spec => []RotationKept
<1>1. ASSUME TypeOK PROVE RotationKept
  <2> SUFFICES ASSUME NEW i \in DOMAIN source.out.streams, IsPicture(i)
               PROVE  LET s == source.out.streams[i] IN
                      /\ SameTurn(Probe.rotation, AngleOf(s))
                      /\ DisplayDimensions(Probe) =
                           IF AngleOf(s) % 180 = 90
                           THEN <<s.height, s.width>>
                           ELSE <<s.width, s.height>>
    BY DEF RotationKept
  <2> DEFINE out    == source.out
             videos == { k \in DOMAIN out.streams : out.streams[k].type = "video" }
             s      == out.streams[i]
  <2>1. out.streams \in Seq(Stream) /\ s \in Stream
    <3>1. out \in Output
      BY <1>1, StreamingAssumption DEF TypeOK
    <3>2. out.streams \in Seq(Stream)
      BY <3>1 DEF Output
    <3> QED
      BY <3>2
  <2>2. Min(videos) = i
    <3> DEFINE m == Min(videos)
    <3>1. i \in videos /\ videos \in SUBSET Nat /\ i \in Nat
      BY <2>1 DEF IsPicture
    <3>2. m \in videos /\ m <= i
      BY <3>1, FirstOne, Zenon
    <3> HIDE DEF m
    <3>3. m \in Nat /\ m >= 1 /\ out.streams[m].type = "video"
      BY <2>1, <3>2
    <3>4. ~ (m \in 1..(i - 1))
      BY <3>3 DEF IsPicture
    <3>5. m = i
      BY <3>1, <3>2, <3>3, <3>4
    <3> QED
      BY <3>5 DEF m
  <2>3. Probe = [video |-> TRUE, codec |-> s.codec, width |-> s.width,
                 height |-> s.height, rotation |-> ParseRotation(s),
                 duration |-> IF out.duration = 0 THEN s.duration
                              ELSE out.duration,
                 container |-> out.container]
    <3>1. i \in videos
      BY DEF IsPicture
    <3> QED
      BY <2>2, <3>1, Zenon DEF Probe, ParseProbe
  <2> HIDE DEF s
  <2>4. /\ AngleOf(s) \in Int
        /\ ParseRotation(s) = IF s.side = << >> /\ s.tag = << >> THEN 0
                              ELSE NormaliseRotation(AngleOf(s))
    <3>1. s.side \in Seq(Int) /\ s.tag \in Seq(Int)
      BY <2>1 DEF Stream
    <3>2. s.side # << >> => Head(s.side) \in Int
      BY <3>1
    <3>3. s.tag # << >> => Head(s.tag) \in Int
      BY <3>1
    <3>4. AngleOf(s) \in Int
      BY <3>2, <3>3 DEF AngleOf
    <3> QED
      BY <3>4, Zenon DEF AngleOf, ParseRotation
  <2>5. /\ SameTurn(ParseRotation(s), AngleOf(s))
        /\ ParseRotation(s) \in {90, 270} <=> AngleOf(s) % 180 = 90
    <3>1. CASE s.side = << >> /\ s.tag = << >>
      BY <2>4, <3>1 DEF AngleOf, SameTurn
    <3>2. CASE ~ (s.side = << >> /\ s.tag = << >>)
      BY <2>4, <3>2, NormalisedTurn
    <3> QED
      BY <3>1, <3>2
  <2>6. /\ Probe.rotation = ParseRotation(s)
        /\ Probe.width = s.width /\ Probe.height = s.height
    BY <2>3
  <2>7. DisplayDimensions(Probe) = IF AngleOf(s) % 180 = 90
                                   THEN <<s.height, s.width>>
                                   ELSE <<s.width, s.height>>
    BY <2>5, <2>6 DEF DisplayDimensions
  <2> QED
    BY <2>5, <2>6, <2>7 DEF s
<1> QED
  BY <1>1, StreamTypes, PTL
============================================================================
