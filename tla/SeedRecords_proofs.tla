------------------------- MODULE SeedRecords_proofs -------------------------
(***************************************************************************)
(* Proofs about SeedRecords, for any file, any steps and any cap: records  *)
(* join the two ends of one trajectory, and starting from the last points  *)
(* never fails.                                                            *)
(***************************************************************************)
EXTENDS SeedRecords, TLAPS

-----------------------------------------------------------------------------
(***************************************************************************)
(* Snapping keeps the order of times                                       *)
(***************************************************************************)

LEMMA ProductMono == \A x, y \in Int, n \in Nat : x <= y => x * n <= y * n
OBVIOUS

LEMMA QuotientMono ==
  \A x, y \in Int, n \in Nat \ {0} : x <= y => x \div n \in Int /\ x \div n <= y \div n
OBVIOUS

\* Times before and after the epoch are rounded by different branches, each of
\* which keeps the order; the first gives a negative time or zero.
LEMMA SnapMono ==
  ASSUME NEW t \in Int, NEW u \in Int, t <= u
  PROVE  Snap(t) \in Int /\ Snap(u) \in Int /\ Snap(t) <= Snap(u)
<1> DEFINE up(x)   == (2 * x + Dt) \div (2 * Dt)
           down(x) == (Dt - 2 * x) \div (2 * Dt)
<1>1. Dt \in Nat \ {0} /\ 2 * Dt \in Nat \ {0}
  BY RecordsAssumption
<1>2. \A x \in Int : up(x) \in Int /\ down(x) \in Int
  BY <1>1, QuotientMono
<1>3. t >= 0 /\ u >= 0 => up(t) <= up(u)
  BY <1>1, QuotientMono
<1>4. t < 0 /\ u < 0 => down(u) <= down(t)
  BY <1>1, QuotientMono
<1>5. \A x \in Int : (x >= 0 => up(x) >= 0) /\ (x < 0 => down(x) >= 0)
  BY <1>1
<1>6. \A x \in Int : Snap(x) = (IF x >= 0 THEN up(x) ELSE -down(x)) * Dt
  BY DEF Snap
<1>. HIDE DEF up, down
<1>7. \A x \in Int : Snap(x) \in Int
  BY <1>1, <1>2, <1>6
<1>8. CASE t >= 0
  BY <1>1, <1>2, <1>3, <1>6, <1>7, <1>8, ProductMono
<1>9. CASE t < 0 /\ u < 0
  BY <1>1, <1>2, <1>4, <1>6, <1>7, <1>9, ProductMono
<1>10. CASE t < 0 /\ u >= 0
  BY <1>1, <1>2, <1>5, <1>6, <1>7, <1>10, ProductMono
<1>. QED  BY <1>8, <1>9, <1>10

BlockT == [id : Nat, first : Int, n : Nat]

\* The first point of a trajectory is not later than its last one, and so it
\* remains.
LEMMA EndsInOrder ==
  ASSUME NEW b \in DOMAIN Blocks, fileDt \in Nat
  PROVE  /\ TimeOf(b, "first") \in Int /\ TimeOf(b, "last") \in Int
         /\ Snap(TimeOf(b, "first")) <= Snap(TimeOf(b, "last"))
<1>1. Blocks[b].first \in Int /\ Blocks[b].n \in Nat /\ Blocks[b].n > 0
  <2>1. Blocks \in Seq(BlockT)
    BY RecordsAssumption DEF BlockT
  <2>2. Blocks[b] \in BlockT
    BY <2>1
  <2>. QED  BY <2>2, RecordsAssumption DEF BlockT
<1>2. /\ TimeOf(b, "first") = (Blocks[b].first + 0) * fileDt
      /\ TimeOf(b, "last") = (Blocks[b].first + (Blocks[b].n - 1)) * fileDt
  BY DEF TimeOf
<1>3. /\ TimeOf(b, "first") \in Int /\ TimeOf(b, "last") \in Int
      /\ TimeOf(b, "first") <= TimeOf(b, "last")
  BY <1>1, <1>2, ProductMono
<1>. QED  BY <1>3, SnapMono

-----------------------------------------------------------------------------
(***************************************************************************)
(* The invariant                                                           *)
(***************************************************************************)

\* The record of a block, with the times of the file and with snapped ones.
Record(b) == [start |-> Point(b, point), stop |-> Point(b, Opposite(point))]
SnappedPoint(b, end) == [block |-> b, end |-> end, t |-> Snap(TimeOf(b, end))]
SnappedRecord(b) == [start |-> SnappedPoint(b, point), stop |-> SnappedPoint(b, Opposite(point))]

PointT == [block : Nat, end : {"first", "last", "row", "none"}, t : Int]
SeedT  == [start : PointT, stop : PointT]

Loading == {"starts", "stops", "pair"}
Raw     == {"normalize", "snap"}
Snapped == {"check", "thin", "bucket", "run"}

Types ==
  /\ pc \in Loading \cup Raw \cup Snapped \cup {"failed"}
  /\ fileDt \in Nat /\ point \in {"first", "last"}
  /\ epoch \in {"unix", "since2000"} /\ (IsPkd2 => epoch = "since2000")
  /\ read \in Nat /\ w \in Nat /\ w <= read
  /\ pc \in Loading \cup Raw => read = 0 /\ w = 0
  /\ pc \in Raw \cup Snapped => seeds \in Seq(SeedT)
  /\ pc \in {"check", "thin"} => read <= Len(seeds)

\* What the loads returned.
LoadInv ==
  /\ pc \in {"stops", "pair"} => starts = LoadSeeds(point)
  /\ pc = "stops" => IsPkd2
  /\ pc = "pair" /\ IsPkd2 => stops = LoadSeeds(Opposite(point))

\* Every record is that of one block; a row of a CSV file has no stop.
RecordsInv ==
  /\ IsPkd2 /\ pc \in Raw =>
       \A i \in DOMAIN seeds : \E b \in DOMAIN Blocks : seeds[i] = Record(b)
  /\ IsPkd2 /\ pc \in Snapped =>
       \A i \in DOMAIN seeds : \E b \in DOMAIN Blocks : seeds[i] = SnappedRecord(b)
  /\ ~IsPkd2 /\ pc \in Raw \cup Snapped =>
       \A i \in DOMAIN seeds : seeds[i].stop = NoStop

IInv == Types /\ LoadInv /\ RecordsInv /\ LastNeverFails

LEMMA InitInv == Init => IInv
<1>. SUFFICES ASSUME Init PROVE IInv
  OBVIOUS
<1>1. fileDt \in Nat /\ epoch \in {"unix", "since2000"} /\ (IsPkd2 => epoch = "since2000")
  BY RecordsAssumption DEF Init
<1>. QED
  BY <1>1 DEF Init, IInv, Types, LoadInv, RecordsInv, LastNeverFails, Loading, Raw, Snapped

\* What a load returns.
LEMMA Loads ==
  ASSUME fileDt \in Nat, NEW end \in {"first", "last"}
  PROVE  /\ LoadSeeds(end) \in Seq(PointT)
         /\ IsPkd2 => /\ DOMAIN LoadSeeds(end) = DOMAIN Blocks /\ Len(LoadSeeds(end)) = Len(Blocks)
                      /\ \A b \in DOMAIN Blocks : LoadSeeds(end)[b] = Point(b, end)
<1>1. /\ Blocks \in Seq([id : Nat, first : Int, n : Nat]) /\ CsvTimes \in Seq(Int)
      /\ Len(Blocks) \in Nat /\ DOMAIN Blocks = 1 .. Len(Blocks)
      /\ Len(CsvTimes) \in Nat /\ DOMAIN CsvTimes = 1 .. Len(CsvTimes)
  BY RecordsAssumption
<1>2. CASE IsPkd2
  <2>1. LoadSeeds(end) = [b \in 1 .. Len(Blocks) |-> Point(b, end)]
    BY <1>1, <1>2 DEF LoadSeeds
  <2>2. \A b \in 1 .. Len(Blocks) : Point(b, end) \in PointT
    <3>1. ASSUME NEW b \in 1 .. Len(Blocks)  PROVE Point(b, end) \in PointT
      <4>1. TimeOf(b, end) \in Int /\ b \in Nat
        BY <1>1, EndsInOrder
      <4>. QED  BY <4>1 DEF Point, PointT
    <3>. QED  BY <3>1
  <2>3. LoadSeeds(end) \in Seq(PointT) /\ Len(LoadSeeds(end)) = Len(Blocks)
    BY <1>1, <2>1, <2>2
  <2>. QED  BY <1>1, <2>1, <2>3
<1>3. CASE ~IsPkd2
  <2> DEFINE row(i) == [block |-> i, end |-> "row", t |-> CsvTimes[i]]
  <2>1. LoadSeeds(end) = [i \in 1 .. Len(CsvTimes) |-> row(i)]
    BY <1>1, <1>3 DEF LoadSeeds
  <2>2. \A i \in 1 .. Len(CsvTimes) : row(i) \in PointT
    BY <1>1 DEF PointT
  <2>. HIDE DEF row
  <2>3. LoadSeeds(end) \in Seq(PointT)
    BY <1>1, <2>1, <2>2
  <2>. QED  BY <1>3, <2>3
<1>. QED  BY <1>2, <1>3

\* A record with a stop and one without.
LEMMA RetimedIs ==
  ASSUME NEW r \in SeedT, NEW t \in Int, NEW u \in Int
  PROVE  /\ Retimed(r, t, u) \in SeedT
         /\ r.stop = NoStop => Retimed(r, t, u).stop = NoStop
         /\ r.stop # NoStop => Retimed(r, t, u) =
              [start |-> [block |-> r.start.block, end |-> r.start.end, t |-> t],
               stop  |-> [block |-> r.stop.block, end |-> r.stop.end, t |-> u]]
BY DEF Retimed, SeedT, PointT, NoStop

\* The record of a block.
LEMMA RecordIs ==
  ASSUME fileDt \in Nat, point \in {"first", "last"}, NEW b \in DOMAIN Blocks
  PROVE  /\ b \in Nat /\ Record(b) \in SeedT /\ SnappedRecord(b) \in SeedT
         /\ Record(b).stop # NoStop
         /\ Record(b).start.t \in Int /\ Record(b).stop.t \in Int
         /\ Retimed(Record(b), Snap(Record(b).start.t), Snap(Record(b).stop.t)) = SnappedRecord(b)
         /\ point = "last" => Backwards(SnappedRecord(b))
<1>1. b \in Nat
  <2>1. Blocks \in Seq([id : Nat, first : Int, n : Nat])
    BY RecordsAssumption
  <2>. QED  BY <2>1
<1>2. /\ Opposite(point) \in {"first", "last"}
      /\ point = "last" => Opposite(point) = "first"
  BY DEF Opposite
<1>3. /\ TimeOf(b, point) \in Int /\ TimeOf(b, Opposite(point)) \in Int
      /\ Snap(TimeOf(b, point)) \in Int /\ Snap(TimeOf(b, Opposite(point))) \in Int
  BY <1>2, EndsInOrder, SnapMono
<1>4. /\ Record(b) \in SeedT /\ Record(b).stop # NoStop
      /\ Record(b).start.t = TimeOf(b, point) /\ Record(b).stop.t = TimeOf(b, Opposite(point))
      /\ Record(b).start.block = b /\ Record(b).stop.block = b
      /\ Record(b).start.end = point /\ Record(b).stop.end = Opposite(point)
  BY <1>1, <1>2, <1>3 DEF Record, Point, SeedT, PointT, NoStop
<1>5. SnappedRecord(b) \in SeedT
  BY <1>1, <1>2, <1>3 DEF SnappedRecord, SnappedPoint, SeedT, PointT
<1>6. Retimed(Record(b), Snap(Record(b).start.t), Snap(Record(b).stop.t)) = SnappedRecord(b)
  <2> DEFINE t == Snap(TimeOf(b, point))
             u == Snap(TimeOf(b, Opposite(point)))
  <2>1. Retimed(Record(b), t, u) =
          [start |-> [block |-> Record(b).start.block, end |-> Record(b).start.end, t |-> t],
           stop  |-> [block |-> Record(b).stop.block, end |-> Record(b).stop.end, t |-> u]]
    BY <1>3, <1>4, RetimedIs
  <2>2. SnappedRecord(b) = [start |-> [block |-> b, end |-> point, t |-> t],
                            stop  |-> [block |-> b, end |-> Opposite(point), t |-> u]]
    BY DEF SnappedRecord, SnappedPoint
  <2>3. Snap(Record(b).start.t) = t /\ Snap(Record(b).stop.t) = u
    BY <1>4
  <2>. HIDE DEF t, u
  <2>. QED  BY <1>4, <2>1, <2>2, <2>3
<1>7. point = "last" => SnappedRecord(b).stop.t <= SnappedRecord(b).start.t
  BY <1>2, EndsInOrder DEF SnappedRecord, SnappedPoint
<1>. QED  BY <1>1, <1>3, <1>4, <1>5, <1>6, <1>7 DEF Backwards

LEMMA LoadStep == ASSUME IInv, LoadStarts \/ LoadStops  PROVE IInv'
<1>. USE DEF IInv, Loading, Raw, Snapped
<1>1. UNCHANGED <<fileDt, point, epoch, seeds, read, w>>
  BY DEF LoadStarts, LoadStops, options
<1>2. /\ LoadStarts => /\ pc = "starts" /\ starts' = LoadSeeds(point)
                       /\ IF LoadSeeds(point) = <<>> THEN pc' = "failed"
                          ELSE pc' = IF IsPkd2 THEN "stops" ELSE "pair"
      /\ LoadStops => /\ pc = "stops" /\ pc' = "pair" /\ starts' = starts
                      /\ stops' = LoadSeeds(Opposite(point))
  BY DEF LoadStarts, LoadStops, Fail, loaded
<1>3. (IsPkd2)' = IsPkd2 /\ LoadSeeds(point)' = LoadSeeds(point)
      /\ LoadSeeds(Opposite(point))' = LoadSeeds(Opposite(point))
  BY <1>1 DEF IsPkd2, LoadSeeds, Point, TimeOf, Opposite
<1>4. Types' /\ RecordsInv'
  BY <1>1, <1>2, <1>3 DEF Types, RecordsInv
<1>5. LoadInv' /\ LastNeverFails'
  BY <1>1, <1>2, <1>3 DEF LoadInv, LastNeverFails
<1>. QED  BY <1>4, <1>5

LEMMA PairStep == ASSUME IInv, Pair  PROVE IInv'
<1>. USE DEF Loading, Raw, Snapped
<1>1. /\ UNCHANGED <<fileDt, point, epoch, starts, stops, read, w>> /\ pc = "pair"
      /\ pc' \in {"failed", "normalize"}
  BY DEF Pair, Fail, options, loaded
<1>2. /\ fileDt \in Nat /\ point \in {"first", "last"} /\ Opposite(point) \in {"first", "last"}
      /\ read = 0 /\ w = 0
  BY <1>1 DEF IInv, Types, Opposite
<1>3. /\ starts = LoadSeeds(point)
      /\ IsPkd2 => stops = LoadSeeds(Opposite(point))
  BY <1>1 DEF IInv, LoadInv
<1>4. /\ starts \in Seq(PointT) /\ LoadSeeds(Opposite(point)) \in Seq(PointT)
      /\ IsPkd2 => /\ DOMAIN starts = DOMAIN Blocks /\ Len(starts) = Len(stops)
                   /\ DOMAIN stops = DOMAIN Blocks
                   /\ \A b \in DOMAIN Blocks :
                        starts[b] = Point(b, point) /\ stops[b] = Point(b, Opposite(point))
  BY <1>2, <1>3, Loads
<1>5. pc' = "normalize" /\ seeds' = [i \in DOMAIN starts |->
               [start |-> starts[i], stop |-> IF IsPkd2 THEN stops[i] ELSE NoStop]]
  <2>1. IsPkd2 => Len(starts) = Len(stops) /\ \A i \in DOMAIN starts : IdOf(starts[i]) = IdOf(stops[i])
    <3>1. ASSUME IsPkd2, NEW i \in DOMAIN starts  PROVE IdOf(starts[i]) = IdOf(stops[i])
      <4>1. starts[i].block = i /\ stops[i].block = i
        <5>1. starts[i] = Point(i, point) /\ stops[i] = Point(i, Opposite(point))
          BY <1>4, <3>1
        <5>. QED  BY <5>1 DEF Point
      <4>. QED  BY <4>1 DEF IdOf
    <3>. QED  BY <1>4, <3>1
  <2>. QED  BY <2>1 DEF Pair
<1>6. ASSUME NEW i \in DOMAIN starts
      PROVE  /\ seeds'[i] \in SeedT
             /\ IsPkd2 => i \in DOMAIN Blocks /\ seeds'[i] = Record(i)
             /\ ~IsPkd2 => seeds'[i].stop = NoStop
  <2>1. starts[i] \in PointT /\ NoStop \in PointT
    <3>1. starts[i] \in PointT
      BY <1>4
    <3>2. NoStop \in PointT
      BY DEF NoStop, PointT
    <3>. QED  BY <3>1, <3>2
  <2>2. IsPkd2 => seeds'[i] = Record(i) /\ i \in DOMAIN Blocks
    BY <1>4, <1>5 DEF Record
  <2>3. ~IsPkd2 => seeds'[i] = [start |-> starts[i], stop |-> NoStop]
    BY <1>5
  <2>. QED  BY <1>2, <2>1, <2>2, <2>3, RecordIs DEF SeedT
<1>7. seeds' \in Seq(SeedT) /\ DOMAIN seeds' = DOMAIN starts
  <2>1. DOMAIN starts = 1 .. Len(starts) /\ Len(starts) \in Nat
    BY <1>4
  <2>2. seeds' = [i \in 1 .. Len(starts) |-> seeds'[i]]
    BY <1>5, <2>1
  <2>. QED  BY <1>6, <2>1, <2>2
<1>8. (IsPkd2)' = IsPkd2 /\ \A b : Record(b)' = Record(b)
  BY <1>1 DEF IsPkd2, Record, Point, TimeOf, Opposite
<1>9. Types'
  BY <1>1, <1>2, <1>5, <1>7, <1>8 DEF IInv, Types
<1>10. RecordsInv'
  BY <1>5, <1>6, <1>7, <1>8 DEF RecordsInv
<1>11. LoadInv' /\ LastNeverFails'
  BY <1>5 DEF LoadInv, LastNeverFails
<1>. QED  BY <1>9, <1>10, <1>11 DEF IInv

\* Both retimings map the times of every record by a function into the whole
\* numbers.
LEMMA NormalizeStep == ASSUME IInv, Normalize  PROVE IInv'
<1>. USE DEF Loading, Raw, Snapped
<1>1. UNCHANGED <<fileDt, point, epoch, read, w>> /\ pc = "normalize" /\ pc' = "snap"
  BY DEF Normalize, options
<1>2. (IsPkd2)' = IsPkd2 /\ \A b : Record(b)' = Record(b)
  BY <1>1 DEF IsPkd2, Record, Point, TimeOf, Opposite
<1>3. seeds \in Seq(SeedT) /\ (IsPkd2 => epoch = "since2000")
  BY <1>1 DEF IInv, Types
<1>4. /\ seeds' \in Seq(SeedT) /\ DOMAIN seeds' = DOMAIN seeds
      /\ IsPkd2 => seeds' = seeds
      /\ ~IsPkd2 => \A i \in DOMAIN seeds : seeds'[i].stop = NoStop
  <2>1. CASE epoch = "since2000"
    BY <1>1, <1>3, <2>1 DEF Normalize, IInv, RecordsInv
  <2>2. CASE epoch # "since2000"
    <3>1. ~IsPkd2 /\ \A i \in DOMAIN seeds : seeds[i].stop = NoStop
      BY <1>1, <1>3, <2>2 DEF IInv, RecordsInv
    <3>2. DOMAIN seeds = 1 .. Len(seeds) /\ Len(seeds) \in Nat
      BY <1>3
    <3>3. ASSUME NEW i \in DOMAIN seeds
          PROVE  /\ Retimed(seeds[i], To2000(seeds[i].start.t), To2000(seeds[i].stop.t)) \in SeedT
                 /\ Retimed(seeds[i], To2000(seeds[i].start.t), To2000(seeds[i].stop.t)).stop = NoStop
      <4>1. seeds[i] \in SeedT
        BY <1>3
      <4>2. seeds[i].start.t \in Int /\ seeds[i].stop.t \in Int
        BY <4>1 DEF SeedT, PointT
      <4>3. To2000(seeds[i].start.t) \in Int /\ To2000(seeds[i].stop.t) \in Int
        BY <4>2, RecordsAssumption DEF To2000
      <4>. QED  BY <3>1, <4>1, <4>3, RetimedIs
    <3>4. seeds' = [i \in 1 .. Len(seeds) |->
                      Retimed(seeds[i], To2000(seeds[i].start.t), To2000(seeds[i].stop.t))]
      BY <2>2, <3>2 DEF Normalize
    <3>5. seeds' \in Seq(SeedT) /\ DOMAIN seeds' = DOMAIN seeds
      BY <3>2, <3>3, <3>4
    <3>. QED  BY <3>1, <3>2, <3>3, <3>4, <3>5
  <2>. QED  BY <2>1, <2>2
<1>5. Types'
  BY <1>1, <1>2, <1>4 DEF IInv, Types
<1>6. RecordsInv'
  BY <1>1, <1>2, <1>4 DEF IInv, RecordsInv
<1>7. LoadInv' /\ LastNeverFails'
  BY <1>1 DEF LoadInv, LastNeverFails
<1>. QED  BY <1>5, <1>6, <1>7 DEF IInv

LEMMA SnapStep == ASSUME IInv, SnapTimes  PROVE IInv'
<1>. USE DEF Loading, Raw, Snapped
<1>1. UNCHANGED <<fileDt, point, epoch, read, w>> /\ pc = "snap" /\ pc' = "check"
  BY DEF SnapTimes, options
<1>2. (IsPkd2)' = IsPkd2 /\ \A b : SnappedRecord(b)' = SnappedRecord(b)
  BY <1>1 DEF IsPkd2, SnappedRecord, SnappedPoint, TimeOf, Opposite
<1>3. /\ seeds \in Seq(SeedT) /\ fileDt \in Nat /\ point \in {"first", "last"}
      /\ DOMAIN seeds = 1 .. Len(seeds) /\ Len(seeds) \in Nat /\ read = 0 /\ w = 0
  BY <1>1 DEF IInv, Types
<1> DEFINE new(i) == Retimed(seeds[i], Snap(seeds[i].start.t), Snap(seeds[i].stop.t))
<1>4. ASSUME NEW i \in DOMAIN seeds
      PROVE  /\ new(i) \in SeedT
             /\ IsPkd2 => \E b \in DOMAIN Blocks : new(i) = SnappedRecord(b)
             /\ ~IsPkd2 => new(i).stop = NoStop
  <2>1. seeds[i] \in SeedT
    BY <1>3
  <2>2. seeds[i].start.t \in Int /\ seeds[i].stop.t \in Int
    BY <2>1 DEF SeedT, PointT
  <2>3. Snap(seeds[i].start.t) \in Int /\ Snap(seeds[i].stop.t) \in Int
    BY <2>2, SnapMono
  <2>4. CASE IsPkd2
    <3>1. PICK b \in DOMAIN Blocks : seeds[i] = Record(b)
      BY <1>1, <2>4 DEF IInv, RecordsInv
    <3>2. new(i) = SnappedRecord(b)
      BY <1>3, <3>1, RecordIs
    <3>. QED  BY <2>1, <2>3, <2>4, <3>2, RetimedIs
  <2>5. CASE ~IsPkd2
    <3>1. seeds[i].stop = NoStop
      BY <1>1, <2>5 DEF IInv, RecordsInv
    <3>. QED  BY <2>1, <2>3, <2>5, <3>1, RetimedIs
  <2>. QED  BY <2>4, <2>5
<1>5. seeds' = [i \in 1 .. Len(seeds) |-> new(i)]
  BY <1>3 DEF SnapTimes
<1>. HIDE DEF new
<1>6. seeds' \in Seq(SeedT) /\ DOMAIN seeds' = DOMAIN seeds /\ Len(seeds') = Len(seeds)
  BY <1>3, <1>4, <1>5
<1>7. \A i \in DOMAIN seeds : seeds'[i] = new(i)
  BY <1>3, <1>5
<1>8. Types'
  BY <1>1, <1>2, <1>3, <1>6 DEF IInv, Types
<1>9. RecordsInv'
  BY <1>1, <1>2, <1>4, <1>6, <1>7 DEF RecordsInv
<1>10. LoadInv' /\ LastNeverFails'
  BY <1>1 DEF LoadInv, LastNeverFails
<1>. QED  BY <1>8, <1>9, <1>10 DEF IInv

\* The records pass the check if the last points are the starts.
LEMMA CheckStep == ASSUME IInv, Check  PROVE IInv'
<1>. USE DEF Loading, Raw, Snapped
<1>1. /\ UNCHANGED <<fileDt, point, epoch, seeds>> /\ pc = "check"
      /\ \/ pc' = "thin" /\ UNCHANGED <<read, w>>
         \/ pc' = "bucket" /\ read' = Len(seeds) /\ w' = Len(seeds)
         \/ pc' = "failed" /\ UNCHANGED <<read, w>>
            /\ ~\A i \in DOMAIN seeds : Backwards(seeds[i])
  BY DEF Check, Fail, options
<1>2. (IsPkd2)' = IsPkd2 /\ LoadSeeds(point)' = LoadSeeds(point)
      /\ \A b : SnappedRecord(b)' = SnappedRecord(b)
  BY <1>1 DEF IsPkd2, LoadSeeds, Point, SnappedRecord, SnappedPoint, TimeOf, Opposite
<1>3. /\ seeds \in Seq(SeedT) /\ fileDt \in Nat /\ point \in {"first", "last"}
      /\ Len(seeds) \in Nat
  BY <1>1 DEF IInv, Types
<1>4. ASSUME point = "last", NEW i \in DOMAIN seeds  PROVE Backwards(seeds[i])
  <2>1. CASE IsPkd2
    <3>1. PICK b \in DOMAIN Blocks : seeds[i] = SnappedRecord(b)
      BY <1>1, <2>1 DEF IInv, RecordsInv
    <3>. QED  BY <1>3, <1>4, <3>1, RecordIs
  <2>2. CASE ~IsPkd2
    BY <1>1, <2>2 DEF IInv, RecordsInv, Backwards
  <2>. QED  BY <2>1, <2>2
<1>5. Types'
  BY <1>1, <1>2, <1>3 DEF IInv, Types
<1>6. RecordsInv' /\ LoadInv' /\ LastNeverFails'
  BY <1>1, <1>2, <1>4 DEF IInv, RecordsInv, LoadInv, LastNeverFails
<1>. QED  BY <1>5, <1>6 DEF IInv

\* Thinning moves whole records.
LEMMA ThinStep == ASSUME IInv, Thin  PROVE IInv'
<1>. USE DEF Loading, Raw, Snapped
<1>1. /\ UNCHANGED <<fileDt, point, epoch>> /\ pc = "thin" /\ pc' = "thin"
      /\ read < Len(seeds) /\ read' = read + 1
      /\ \/ seeds' = [seeds EXCEPT ![w + 1] = seeds[read + 1]] /\ w' = w + 1
         \/ seeds' = seeds /\ w' = w
  BY DEF Thin, Placed, options
<1>2. (IsPkd2)' = IsPkd2 /\ \A b : SnappedRecord(b)' = SnappedRecord(b)
  BY <1>1 DEF IsPkd2, SnappedRecord, SnappedPoint, TimeOf, Opposite
<1>3. /\ seeds \in Seq(SeedT) /\ Len(seeds) \in Nat /\ DOMAIN seeds = 1 .. Len(seeds)
      /\ read \in Nat /\ w \in Nat /\ w <= read
  BY <1>1 DEF IInv, Types
<1>4. read + 1 \in DOMAIN seeds /\ w + 1 \in DOMAIN seeds
  BY <1>1, <1>3
<1>5. /\ seeds' \in Seq(SeedT) /\ Len(seeds') = Len(seeds) /\ DOMAIN seeds' = DOMAIN seeds
      /\ \A i \in DOMAIN seeds : \E j \in DOMAIN seeds : seeds'[i] = seeds[j]
  <2>1. CASE seeds' = [seeds EXCEPT ![w + 1] = seeds[read + 1]]
    <3>1. seeds[read + 1] \in SeedT
      BY <1>3, <1>4
    <3>. QED  BY <1>3, <1>4, <2>1, <3>1
  <2>2. CASE seeds' = seeds
    BY <1>3, <2>2
  <2>. QED  BY <1>1, <2>1, <2>2
<1>6. Types'
  BY <1>1, <1>2, <1>3, <1>5 DEF IInv, Types
<1>7. RecordsInv'
  BY <1>1, <1>2, <1>5 DEF IInv, RecordsInv
<1>8. LoadInv' /\ LastNeverFails'
  BY <1>1 DEF LoadInv, LastNeverFails
<1>. QED  BY <1>6, <1>7, <1>8 DEF IInv

LEMMA EndThinStep == ASSUME IInv, EndThin  PROVE IInv'
<1>. USE DEF Loading, Raw, Snapped
<1>1. /\ UNCHANGED <<fileDt, point, epoch, read, w>> /\ pc = "thin" /\ pc' = "bucket"
      /\ seeds' = SubSeq(seeds, 1, w)
  BY DEF EndThin, Kept, options
<1>2. (IsPkd2)' = IsPkd2 /\ \A b : SnappedRecord(b)' = SnappedRecord(b)
  BY <1>1 DEF IsPkd2, SnappedRecord, SnappedPoint, TimeOf, Opposite
<1>3. /\ seeds \in Seq(SeedT) /\ Len(seeds) \in Nat /\ DOMAIN seeds = 1 .. Len(seeds)
      /\ read \in Nat /\ w \in Nat /\ w <= Len(seeds)
  BY <1>1 DEF IInv, Types
<1>4. /\ seeds' \in Seq(SeedT) /\ DOMAIN seeds' = 1 .. w
      /\ \A i \in 1 .. w : i \in DOMAIN seeds /\ seeds'[i] = seeds[i]
  BY <1>1, <1>3
<1>5. Types'
  BY <1>1, <1>2, <1>3, <1>4 DEF IInv, Types
<1>6. RecordsInv'
  BY <1>1, <1>2, <1>4 DEF IInv, RecordsInv
<1>7. LoadInv' /\ LastNeverFails'
  BY <1>1 DEF LoadInv, LastNeverFails
<1>. QED  BY <1>5, <1>6, <1>7 DEF IInv

LEMMA RestStep == ASSUME IInv, Bucketize \/ UNCHANGED vars  PROVE IInv'
<1>. USE DEF Loading, Raw, Snapped
<1>1. /\ UNCHANGED <<fileDt, point, epoch, starts, stops, seeds, read, w>>
      /\ pc' = pc \/ (pc = "bucket" /\ pc' = "run")
  BY DEF Bucketize, vars, options, loaded
<1>2. /\ (IsPkd2)' = IsPkd2 /\ LoadSeeds(point)' = LoadSeeds(point)
      /\ LoadSeeds(Opposite(point))' = LoadSeeds(Opposite(point))
      /\ \A b : Record(b)' = Record(b) /\ SnappedRecord(b)' = SnappedRecord(b)
  BY <1>1 DEF IsPkd2, LoadSeeds, Record, Point, SnappedRecord, SnappedPoint, TimeOf, Opposite
<1>3. Types'
  BY <1>1, <1>2 DEF IInv, Types
<1>4. RecordsInv'
  BY <1>1, <1>2 DEF IInv, RecordsInv
<1>5. LoadInv' /\ LastNeverFails'
  BY <1>1, <1>2 DEF IInv, LoadInv, LastNeverFails
<1>. QED  BY <1>3, <1>4, <1>5 DEF IInv

\* In every stage records come from the two ends of one block.
THEOREM Invariance == Spec => []IInv
<1>1. IInv /\ [Next]_vars => IInv'
  BY LoadStep, PairStep, NormalizeStep, SnapStep, CheckStep, ThinStep, EndThinStep, RestStep
     DEF Next
<1>. QED  BY <1>1, InitInv, PTL DEF Spec

\* Starting from the last points, as is the default, never fails, whatever the
\* steps of file and driver: snapping keeps the order of two times.
THEOREM LastPointsNeverFail == Spec => []LastNeverFails
<1>1. IInv => LastNeverFails
  BY DEF IInv
<1>. QED  BY <1>1, Invariance, PTL

\* Whatever is thinned out, a record of a PKD2 file joins the two ends of one
\* trajectory, the chosen one as its start.
THEOREM RecordsJoinEnds == Spec => []EndsTogether
<1>1. IInv => EndsTogether
  <2>. SUFFICES ASSUME IInv, Ready, IsPkd2, NEW i \in DOMAIN seeds
                PROVE  /\ seeds[i].start.block = seeds[i].stop.block
                       /\ seeds[i].start.end = point /\ seeds[i].stop.end = Opposite(point)
    BY DEF EndsTogether
  <2>1. PICK b \in DOMAIN Blocks : seeds[i] = SnappedRecord(b)
    BY DEF IInv, RecordsInv, Ready, Snapped
  <2>. QED  BY <2>1 DEF SnappedRecord, SnappedPoint
<1>. QED  BY <1>1, Invariance, PTL

-----------------------------------------------------------------------------
(***************************************************************************)
(* What the month loop relies on                                           *)
(***************************************************************************)

\* The times at which a seed may start, as the driver counts them, and that the
\* numbered months cover them after snapping.  The months of the code have no
\* end.
StartTimes ==
  {Blocks[b].first * dt : b \in DOMAIN Blocks, dt \in FileDts}
  \cup {(Blocks[b].first + Blocks[b].n - 1) * dt : b \in DOMAIN Blocks, dt \in FileDts}
  \cup {CsvTimes[i] : i \in DOMAIN CsvTimes} \cup {CsvTimes[i] - UnixTo2000 : i \in DOMAIN CsvTimes}
InSomeMonth(t) == \E m \in 0 .. LastMonth : MonthBegin[m] <= t /\ t < MonthBegin[m + 1]
MonthsCover    == \A t \in StartTimes : InSomeMonth(Snap(t))

\* The time of a row of a CSV file in every stage.
TimeInStage(p) ==
  IF pc = "normalize" THEN CsvTimes[p.block]
  ELSE IF pc = "snap" THEN Original(p) ELSE Snap(Original(p))
RowInv ==
  ~IsPkd2 /\ pc \in Raw \cup Snapped => \A i \in DOMAIN seeds :
    seeds[i].start.block \in DOMAIN CsvTimes /\ seeds[i].start.t = TimeInStage(seeds[i].start)

\* What has not been read is in its place, what has been kept is in order.
OrderInv ==
  pc \in Raw \cup Snapped =>
    /\ pc = "check" => read = 0
    /\ pc \notin {"bucket", "run"} => \A i \in DOMAIN seeds : i > read => seeds[i].start.block = i
    /\ \A i \in 1 .. w : seeds[i].start.block <= read
    /\ \A i, j \in 1 .. w : i < j => seeds[i].start.block < seeds[j].start.block

CheckedInv ==
  /\ pc \in {"thin", "bucket", "run"} => \A i \in DOMAIN seeds : Backwards(seeds[i])
  /\ pc \in {"bucket", "run"} => w = Len(seeds)
  /\ pc = "run" => bym = [i \in DOMAIN seeds |-> MonthOf(seeds[i].start.t)]

SoundInv == RowInv /\ OrderInv /\ CheckedInv

\* Snapping gives a whole number of steps, half a step away at most.
LEMMA SnapClose ==
  ASSUME NEW t \in Int
  PROVE  Snap(t) \in Int /\ Snap(t) % Dt = 0 /\ 2 * (Snap(t) - t) \in -Dt .. Dt
<1>1. Dt \in Nat \ {0} /\ 2 * Dt \in Nat \ {0}
  BY RecordsAssumption
<1>2. ASSUME NEW y \in Int
      PROVE  \E q \in Int : y \div (2 * Dt) = q /\ 2 * (q * Dt) <= y /\ y < 2 * (q * Dt) + 2 * Dt
  <2> DEFINE m == 2 * Dt
             q == y \div m
  <2>1. q \in Int /\ y % m \in Int /\ y = m * q + (y % m) /\ 0 <= y % m /\ y % m < m
    BY <1>1
  <2>. HIDE DEF q
  <2>2. m * q = 2 * (q * Dt) /\ q * Dt \in Int
    BY <1>1, <2>1
  <2>3. 2 * (q * Dt) <= y /\ y < 2 * (q * Dt) + 2 * Dt
    BY <1>1, <2>1, <2>2
  <2>. QED  BY <2>1, <2>3 DEF q
<1>3. \E k \in Int : Snap(t) = k * Dt /\ 2 * (k * Dt - t) \in -Dt .. Dt
  <2>1. CASE t >= 0
    <3>1. 2 * t + Dt \in Int
      BY <1>1
    <3>2. PICK q \in Int : /\ (2 * t + Dt) \div (2 * Dt) = q
                           /\ 2 * (q * Dt) <= 2 * t + Dt /\ 2 * t + Dt < 2 * (q * Dt) + 2 * Dt
      BY <1>2, <3>1
    <3>3. Snap(t) = q * Dt /\ q * Dt \in Int
      BY <1>1, <2>1, <3>2 DEF Snap
    <3>4. 2 * (q * Dt - t) \in -Dt .. Dt
      BY <1>1, <3>2, <3>3
    <3>. QED  BY <3>3, <3>4
  <2>2. CASE t < 0
    <3>1. Dt - 2 * t \in Int
      BY <1>1
    <3>2. PICK q \in Int : /\ (Dt - 2 * t) \div (2 * Dt) = q
                           /\ 2 * (q * Dt) <= Dt - 2 * t /\ Dt - 2 * t < 2 * (q * Dt) + 2 * Dt
      BY <1>2, <3>1
    <3>3. Snap(t) = (-q) * Dt /\ q * Dt \in Int /\ (-q) * Dt = -(q * Dt) /\ -q \in Int
      BY <1>1, <2>2, <3>2 DEF Snap
    <3>4. 2 * ((-q) * Dt - t) \in -Dt .. Dt
      BY <1>1, <3>2, <3>3
    <3>. QED  BY <3>3, <3>4
  <2>. QED  BY <2>1, <2>2
<1>4. PICK k \in Int : Snap(t) = k * Dt /\ 2 * (k * Dt - t) \in -Dt .. Dt
  BY <1>3
<1>5. k * Dt \in Int /\ (k * Dt) % Dt = 0
  <2> DEFINE x == k * Dt
  <2>1. x \in Int
    BY <1>1
  <2>2. /\ x \div Dt \in Int /\ x % Dt \in Int
        /\ x = Dt * (x \div Dt) + (x % Dt) /\ 0 <= x % Dt /\ x % Dt < Dt
    BY <1>1, <2>1
  <2> DEFINE q == x \div Dt
             e == x % Dt
  <2>3. Dt * (k - q) = k * Dt - Dt * q /\ k - q \in Int
    BY <1>1, <2>2
  <2>. HIDE DEF q, e
  <2>4. Dt * (k - q) = e /\ 0 <= e /\ e < Dt /\ e \in Int /\ Dt * (k - q) \in Int
    BY <1>1, <2>1, <2>2, <2>3 DEF q, e
  <2>5. ~(k - q >= 1) /\ ~(k - q <= -1)
    <3>1. k - q >= 1 => Dt * (k - q) >= Dt
      BY <1>1, <2>3
    <3>2. k - q <= -1 => Dt * (k - q) <= -Dt
      BY <1>1, <2>3
    <3>. QED  BY <1>1, <2>3, <2>4, <3>1, <3>2
  <2>6. k - q = 0 /\ Dt * 0 = 0
    BY <1>1, <2>3, <2>5
  <2>. QED  BY <2>1, <2>4, <2>6 DEF e
<1>. QED  BY <1>4, <1>5

LEMMA SoundInit == Init => SoundInv
BY DEF Init, SoundInv, RowInv, OrderInv, CheckedInv, Raw, Snapped

\* The start of a record that is given other times.
LEMMA RetimedStart ==
  ASSUME NEW r \in SeedT, NEW t, NEW u
  PROVE  /\ Retimed(r, t, u).start.block = r.start.block /\ Retimed(r, t, u).start.end = r.start.end
         /\ Retimed(r, t, u).start.t = t
BY DEF Retimed, SeedT, PointT

LEMMA SoundQuiet ==
  ASSUME IInv, SoundInv, LoadStarts \/ LoadStops \/ UNCHANGED vars
  PROVE  SoundInv'
<1>1. CASE LoadStarts \/ LoadStops
  <2>1. pc' \in {"stops", "pair", "failed"}
    BY <1>1 DEF LoadStarts, LoadStops, Fail
  <2>. QED  BY <2>1 DEF SoundInv, RowInv, OrderInv, CheckedInv, Raw, Snapped
<1>2. CASE UNCHANGED vars
  <2>1. UNCHANGED <<pc, fileDt, point, epoch, seeds, read, w, bym>>
    BY <1>2 DEF vars, options
  <2>2. RowInv'
    BY <2>1 DEF SoundInv, RowInv, IsPkd2, TimeInStage, Original, TimeOf
  <2>3. OrderInv' /\ CheckedInv'
    BY <2>1 DEF SoundInv, OrderInv, CheckedInv
  <2>. QED  BY <2>2, <2>3 DEF SoundInv
<1>. QED  BY <1>1, <1>2

LEMMA SoundPair == ASSUME IInv, IInv', SoundInv, Pair  PROVE SoundInv'
<1>. USE DEF Loading, Raw, Snapped
<1>1. CASE pc' = "failed"
  BY <1>1 DEF SoundInv, RowInv, OrderInv, CheckedInv
<1>2. CASE pc' # "failed"
  <2>1. /\ UNCHANGED <<fileDt, point, epoch, read, w>> /\ pc = "pair" /\ pc' = "normalize"
        /\ seeds' = [i \in DOMAIN starts |->
                       [start |-> starts[i], stop |-> IF IsPkd2 THEN stops[i] ELSE NoStop]]
    BY <1>2 DEF Pair, Fail, options
  <2>2. fileDt \in Nat /\ point \in {"first", "last"} /\ read = 0 /\ w = 0 /\ starts = LoadSeeds(point)
    BY <2>1 DEF IInv, Types, LoadInv
  <2>3. ASSUME NEW i \in DOMAIN starts
        PROVE  /\ starts[i].block = i
               /\ ~IsPkd2 => i \in DOMAIN CsvTimes /\ starts[i].t = CsvTimes[i]
    <3>1. CASE IsPkd2
      <4>1. starts[i] = Point(i, point)
        BY <2>2, <2>3, <3>1, Loads
      <4>. QED  BY <3>1, <4>1 DEF Point
    <3>2. CASE ~IsPkd2
      BY <2>2, <2>3, <3>2 DEF LoadSeeds
    <3>. QED  BY <3>1, <3>2
  <2>4. DOMAIN seeds' = DOMAIN starts /\ \A i \in DOMAIN starts : seeds'[i].start = starts[i]
    BY <2>1
  <2>5. RowInv'
    BY <2>1, <2>3, <2>4 DEF RowInv, IsPkd2, TimeInStage
  <2>6. OrderInv'
    BY <2>1, <2>2, <2>3, <2>4 DEF OrderInv
  <2>7. CheckedInv'
    BY <2>1 DEF CheckedInv
  <2>. QED  BY <2>5, <2>6, <2>7 DEF SoundInv
<1>. QED  BY <1>1, <1>2

\* Both retimings keep where records come from; the times of rows follow the
\* stages.
LEMMA SoundRetimed == ASSUME IInv, IInv', SoundInv, Normalize \/ SnapTimes  PROVE SoundInv'
<1>. USE DEF Loading, Raw, Snapped
<1>1. /\ UNCHANGED <<fileDt, point, epoch, read, w>>
      /\ \/ pc = "normalize" /\ pc' = "snap"
         \/ pc = "snap" /\ pc' = "check"
  BY DEF Normalize, SnapTimes, options
<1>2. seeds \in Seq(SeedT) /\ read = 0 /\ w = 0
  BY <1>1 DEF IInv, Types
<1>3. /\ DOMAIN seeds' = DOMAIN seeds
      /\ \A i \in DOMAIN seeds :
           /\ seeds'[i].start.block = seeds[i].start.block
           /\ seeds'[i].start.end = seeds[i].start.end
           /\ pc = "normalize" => seeds'[i].start.t = IF epoch = "since2000" THEN seeds[i].start.t
                                                       ELSE To2000(seeds[i].start.t)
           /\ pc = "snap" => seeds'[i].start.t = Snap(seeds[i].start.t)
  <2>1. \A i \in DOMAIN seeds : seeds[i] \in SeedT
    BY <1>2
  <2>2. CASE pc = "normalize"
    BY <1>1, <2>1, <2>2, RetimedStart DEF Normalize, SnapTimes
  <2>3. CASE pc = "snap"
    BY <1>1, <2>1, <2>3, RetimedStart DEF Normalize, SnapTimes
  <2>. QED  BY <1>1, <2>2, <2>3
<1>4. RowInv'
  <2>. SUFFICES ASSUME ~IsPkd2, NEW i \in DOMAIN seeds
                PROVE  /\ seeds'[i].start.block \in DOMAIN CsvTimes
                       /\ seeds'[i].start.t = TimeInStage(seeds[i].start)'
    BY <1>1, <1>3 DEF RowInv, IsPkd2
  <2>1. seeds[i].start.block \in DOMAIN CsvTimes /\ seeds[i].start.t = TimeInStage(seeds[i].start)
    BY <1>1 DEF SoundInv, RowInv
  <2> DEFINE c == CsvTimes[seeds[i].start.block]
  <2>2. c \in Int /\ UnixTo2000 \in Int
    BY <2>1, RecordsAssumption
  <2>3. Original(seeds[i].start) = c - (IF epoch = "unix" THEN UnixTo2000 ELSE 0)
    BY DEF Original
  <2>4. Original(seeds[i].start)' = Original(seeds[i].start)
    BY <1>1, <1>3 DEF Original, IsPkd2, TimeOf
  <2>5. epoch \in {"unix", "since2000"}
    BY DEF IInv, Types
  <2>6. pc = "normalize" => seeds'[i].start.t = Original(seeds[i].start)
    BY <1>1, <1>3, <2>1, <2>2, <2>3, <2>5 DEF TimeInStage, To2000
  <2>7. pc = "snap" => seeds'[i].start.t = Snap(Original(seeds[i].start))
    BY <1>1, <1>3, <2>1 DEF TimeInStage
  <2>8. Snap(Original(seeds[i].start))' = Snap(Original(seeds[i].start))
    BY <2>4 DEF Snap
  <2>. QED  BY <1>1, <1>3, <2>1, <2>4, <2>6, <2>7, <2>8 DEF TimeInStage
<1>5. OrderInv'
  BY <1>1, <1>2, <1>3 DEF SoundInv, OrderInv
<1>6. CheckedInv'
  BY <1>1 DEF CheckedInv
<1>. QED  BY <1>4, <1>5, <1>6 DEF SoundInv

LEMMA SoundCheck == ASSUME IInv, IInv', SoundInv, Check  PROVE SoundInv'
<1>. USE DEF Loading, Raw, Snapped
<1>1. /\ UNCHANGED <<fileDt, point, epoch, seeds>> /\ pc = "check"
      /\ \/ pc' = "thin" /\ UNCHANGED <<read, w>> /\ \A i \in DOMAIN seeds : Backwards(seeds[i])
         \/ /\ pc' = "bucket" /\ read' = Len(seeds) /\ w' = Len(seeds)
            /\ \A i \in DOMAIN seeds : Backwards(seeds[i])
         \/ pc' = "failed"
  BY DEF Check, Fail, options
<1>2. /\ seeds \in Seq(SeedT) /\ Len(seeds) \in Nat /\ DOMAIN seeds = 1 .. Len(seeds)
      /\ read \in Nat /\ w \in Nat /\ w <= read
  BY <1>1 DEF IInv, Types
<1>3. RowInv'
  BY <1>1 DEF SoundInv, RowInv, IsPkd2, TimeInStage, Original, TimeOf
<1>4. CheckedInv'
  BY <1>1 DEF CheckedInv, Backwards
<1>5. /\ \A i \in DOMAIN seeds : i > read => seeds[i].start.block = i
      /\ \A i \in 1 .. w : seeds[i].start.block <= read
      /\ \A i, j \in 1 .. w : i < j => seeds[i].start.block < seeds[j].start.block
  BY <1>1 DEF SoundInv, OrderInv
<1>6. OrderInv'
  <2>1. CASE pc' = "thin"
    BY <1>1, <1>5, <2>1 DEF OrderInv
  <2>2. CASE pc' = "bucket"
    <3>1. read = 0
      BY <1>1 DEF SoundInv, OrderInv
    <3>2. \A i \in 1 .. Len(seeds) : seeds[i].start.block = i
      BY <1>2, <1>5, <3>1
    <3>. QED  BY <1>1, <1>2, <2>2, <3>2 DEF OrderInv
  <2>3. CASE pc' = "failed"
    BY <2>3 DEF OrderInv
  <2>. QED  BY <1>1, <2>1, <2>2, <2>3
<1>. QED  BY <1>3, <1>4, <1>6 DEF SoundInv


\* Thinning moves a record towards the front, behind the kept ones.
LEMMA SoundThin == ASSUME IInv, IInv', SoundInv, Thin  PROVE SoundInv'
<1>. USE DEF Loading, Raw, Snapped
<1>1. /\ UNCHANGED <<fileDt, point, epoch>> /\ pc = "thin" /\ pc' = "thin"
      /\ read < Len(seeds) /\ read' = read + 1
      /\ \/ seeds' = [seeds EXCEPT ![w + 1] = seeds[read + 1]] /\ w' = w + 1
         \/ seeds' = seeds /\ w' = w
  BY DEF Thin, Placed, options
<1>2. /\ seeds \in Seq(SeedT) /\ Len(seeds) \in Nat /\ DOMAIN seeds = 1 .. Len(seeds)
      /\ read \in Nat /\ w \in Nat /\ w <= read
      /\ \A i \in DOMAIN seeds : seeds[i].start.block \in Nat
  <2>1. /\ seeds \in Seq(SeedT) /\ Len(seeds) \in Nat /\ DOMAIN seeds = 1 .. Len(seeds)
        /\ read \in Nat /\ w \in Nat /\ w <= read
    BY <1>1 DEF IInv, Types
  <2>2. \A i \in DOMAIN seeds : seeds[i] \in SeedT
    BY <2>1
  <2>. QED  BY <2>1, <2>2 DEF SeedT, PointT
<1>3. /\ \A i \in DOMAIN seeds : i > read => seeds[i].start.block = i
      /\ \A i \in 1 .. w : seeds[i].start.block <= read
      /\ \A i, j \in 1 .. w : i < j => seeds[i].start.block < seeds[j].start.block
  BY <1>1 DEF SoundInv, OrderInv
<1>4. read + 1 \in DOMAIN seeds /\ w + 1 \in DOMAIN seeds
  BY <1>1, <1>2
<1>5. DOMAIN seeds' = DOMAIN seeds /\ \A i \in DOMAIN seeds : \E j \in DOMAIN seeds : seeds'[i] = seeds[j]
  BY <1>1, <1>4
<1>6. RowInv'
  <2>. SUFFICES ASSUME ~IsPkd2, NEW i \in DOMAIN seeds
                PROVE  /\ seeds'[i].start.block \in DOMAIN CsvTimes
                       /\ seeds'[i].start.t = TimeInStage(seeds[i].start)'
    BY <1>1, <1>5 DEF RowInv, IsPkd2
  <2>1. PICK j \in DOMAIN seeds : seeds'[i] = seeds[j]
    BY <1>5
  <2>2. /\ seeds[j].start.block \in DOMAIN CsvTimes /\ seeds[j].start.t = TimeInStage(seeds[j].start)
    BY <1>1 DEF SoundInv, RowInv
  <2>3. TimeInStage(seeds[i].start)' = TimeInStage(seeds[j].start)
    BY <1>1, <2>1 DEF TimeInStage, Original, IsPkd2, TimeOf, Snap
  <2>. QED  BY <2>1, <2>2, <2>3
<1>7. OrderInv'
  <2>1. \A i \in DOMAIN seeds' : i > read' => seeds'[i].start.block = i
    <3>. SUFFICES ASSUME NEW i \in DOMAIN seeds, i > read + 1  PROVE seeds'[i].start.block = i
      BY <1>1, <1>5
    <3>1. i # w + 1 /\ i > read
      BY <1>2
    <3>2. seeds'[i] = seeds[i]
      BY <1>1, <3>1
    <3>. QED  BY <1>3, <3>1, <3>2
  <2>2. CASE seeds' = seeds /\ w' = w
    BY <1>1, <1>2, <1>3, <1>4, <2>1, <2>2 DEF OrderInv
  <2>3. CASE seeds' = [seeds EXCEPT ![w + 1] = seeds[read + 1]] /\ w' = w + 1
    <3>1. seeds'[w + 1].start.block = read + 1
      BY <1>2, <1>3, <1>4, <2>3
    <3>2. \A i \in 1 .. w : seeds'[i] = seeds[i] /\ i \in DOMAIN seeds
      BY <1>2, <1>4, <2>3
    <3>3. \A i \in 1 .. w + 1 : i \in 1 .. w \/ i = w + 1
      BY <1>2
    <3>4. \A i \in 1 .. w' : seeds'[i].start.block <= read'
      BY <1>1, <1>2, <1>3, <2>3, <3>1, <3>2, <3>3
    <3>5. \A i, j \in 1 .. w' : i < j => seeds'[i].start.block < seeds'[j].start.block
      BY <1>2, <1>3, <2>3, <3>1, <3>2, <3>3
    <3>. QED  BY <1>1, <2>1, <3>4, <3>5 DEF OrderInv
  <2>. QED  BY <1>1, <2>2, <2>3
<1>8. CheckedInv'
  BY <1>1, <1>5 DEF SoundInv, CheckedInv, Backwards
<1>. QED  BY <1>6, <1>7, <1>8 DEF SoundInv

LEMMA SoundEndThin == ASSUME IInv, IInv', SoundInv, EndThin  PROVE SoundInv'
<1>. USE DEF Loading, Raw, Snapped
<1>1. /\ UNCHANGED <<fileDt, point, epoch, read, w>> /\ pc = "thin" /\ pc' = "bucket"
      /\ seeds' = SubSeq(seeds, 1, w)
  BY DEF EndThin, Kept, options
<1>2. /\ seeds \in Seq(SeedT) /\ Len(seeds) \in Nat /\ DOMAIN seeds = 1 .. Len(seeds)
      /\ read \in Nat /\ w \in Nat /\ w <= Len(seeds)
  BY <1>1 DEF IInv, Types
<1>3. /\ DOMAIN seeds' = 1 .. w /\ Len(seeds') = w
      /\ \A i \in 1 .. w : i \in DOMAIN seeds /\ seeds'[i] = seeds[i]
  BY <1>1, <1>2
<1>4. RowInv'
  BY <1>1, <1>3 DEF SoundInv, RowInv, TimeInStage, Original, IsPkd2, TimeOf
<1>5. OrderInv'
  BY <1>1, <1>2, <1>3 DEF SoundInv, OrderInv
<1>6. CheckedInv'
  BY <1>1, <1>3 DEF SoundInv, CheckedInv, Backwards
<1>. QED  BY <1>4, <1>5, <1>6 DEF SoundInv

LEMMA SoundBucketize == ASSUME IInv, IInv', SoundInv, Bucketize  PROVE SoundInv'
<1>. USE DEF Loading, Raw, Snapped
<1>1. /\ UNCHANGED <<fileDt, point, epoch, seeds, read, w>> /\ pc = "bucket" /\ pc' = "run"
      /\ bym' = [i \in DOMAIN seeds |-> MonthOf(seeds[i].start.t)]
  BY DEF Bucketize, options
<1>2. RowInv'
  BY <1>1 DEF SoundInv, RowInv, TimeInStage, Original, IsPkd2, TimeOf
<1>3. OrderInv' /\ CheckedInv'
  BY <1>1 DEF SoundInv, OrderInv, CheckedInv, Backwards
<1>. QED  BY <1>2, <1>3 DEF SoundInv

\* Records stay in the order of the file, and their times are those of the file,
\* in every stage.
THEOREM Soundness == Spec => []SoundInv
<1>1. IInv /\ IInv' /\ SoundInv /\ [Next]_vars => SoundInv'
  BY SoundQuiet, SoundPair, SoundRetimed, SoundCheck, SoundThin, SoundEndThin, SoundBucketize DEF Next
<1>. QED  BY <1>1, SoundInit, Invariance, PTL DEF Spec

\* What the month loop relies on, for any file, steps and cap: times are whole
\* steps, half a step from those of the file at most; no stop is later than its
\* start; records wait for the month of their start; and those left are
\* records of the file in its order.
THEOREM MonthLoopIsFed == MonthsCover => (Spec => []SeedsAreSound)
<1>. SUFFICES ASSUME MonthsCover  PROVE Spec => []SeedsAreSound
  OBVIOUS
<1>. USE DEF Raw, Snapped
<1>1. ASSUME IInv, SoundInv, fileDt \in FileDts, pc = "run", NEW i \in DOMAIN seeds
      PROVE  /\ OnGrid(seeds[i].start)
             /\ IsPkd2 => OnGrid(seeds[i].stop) /\ seeds[i].stop.t <= seeds[i].start.t
             /\ InSomeMonth(seeds[i].start.t)
  <2>1. /\ fileDt \in Nat /\ fileDt \in FileDts
             /\ point \in {"first", "last"} /\ Opposite(point) \in {"first", "last"}
    BY <1>1, RecordsAssumption DEF IInv, Types, Opposite
  <2>2. CASE IsPkd2
    <3>1. PICK b \in DOMAIN Blocks : seeds[i] = SnappedRecord(b)
      BY <1>1, <2>2 DEF IInv, RecordsInv
    <3>2. /\ TimeOf(b, point) \in Int /\ TimeOf(b, Opposite(point)) \in Int
      BY <2>1, EndsInOrder
    <3>3. /\ Original(seeds[i].start) = TimeOf(b, point)
          /\ Original(seeds[i].stop) = TimeOf(b, Opposite(point))
          /\ seeds[i].start.t = Snap(TimeOf(b, point))
          /\ seeds[i].stop.t = Snap(TimeOf(b, Opposite(point)))
      BY <2>2, <3>1 DEF Original, SnappedRecord, SnappedPoint
    <3>4. OnGrid(seeds[i].start) /\ OnGrid(seeds[i].stop)
      BY <3>2, <3>3, SnapClose DEF OnGrid
    <3>5. seeds[i].stop # NoStop
      BY <2>1, <3>1, RecordIs DEF SnappedRecord, SnappedPoint, NoStop
    <3>6. seeds[i].stop.t <= seeds[i].start.t
      BY <1>1, <3>5 DEF SoundInv, CheckedInv, Backwards
    <3>7. TimeOf(b, point) \in StartTimes
      <4>1. Blocks[b].first \in Int /\ Blocks[b].n \in Int
        <5>1. Blocks \in Seq(BlockT)
          BY RecordsAssumption DEF BlockT
        <5>2. Blocks[b] \in BlockT
          BY <3>1, <5>1
        <5>. QED  BY <5>2 DEF BlockT
      <4>2. /\ TimeOf(b, "first") = Blocks[b].first * fileDt
            /\ TimeOf(b, "last") = (Blocks[b].first + Blocks[b].n - 1) * fileDt
        <5>1. Blocks[b].first + 0 = Blocks[b].first
              /\ Blocks[b].first + (Blocks[b].n - 1) = Blocks[b].first + Blocks[b].n - 1
          BY <4>1
        <5>. QED  BY <5>1 DEF TimeOf
      <4>. QED  BY <2>1, <4>2 DEF StartTimes
    <3>8. InSomeMonth(seeds[i].start.t)
      BY <3>3, <3>7 DEF MonthsCover
    <3>. QED  BY <3>4, <3>6, <3>8
  <2>3. CASE ~IsPkd2
    <3> DEFINE p == seeds[i].start
    <3>1. p.block \in DOMAIN CsvTimes /\ p.t = Snap(Original(p))
      BY <1>1, <2>3 DEF SoundInv, RowInv, TimeInStage
    <3>2. Original(p) = CsvTimes[p.block] - (IF epoch = "unix" THEN UnixTo2000 ELSE 0)
      BY <2>3 DEF Original
    <3>3. CsvTimes[p.block] \in Int /\ UnixTo2000 \in Int
      BY <3>1, RecordsAssumption
    <3>. HIDE DEF p
    <3>4. Original(p) \in Int /\ Original(p) \in StartTimes
      BY <3>1, <3>2, <3>3 DEF StartTimes
    <3>5. OnGrid(p) /\ InSomeMonth(p.t)
      BY <3>1, <3>4, SnapClose DEF OnGrid, MonthsCover
    <3>. QED  BY <2>3, <3>5 DEF p
  <2>. QED  BY <2>2, <2>3
<1>2. ASSUME IInv, SoundInv, fileDt \in FileDts, Ready  PROVE SeedsAreSound
  <2>1. pc = "run"
    BY <1>2 DEF Ready
  <2>2. Len(seeds) = w /\ bym = [i \in DOMAIN seeds |-> MonthOf(seeds[i].start.t)]
    BY <1>2, <2>1 DEF SoundInv, CheckedInv
  <2>3. \A i, j \in 1 .. w : i < j => seeds[i].start.block < seeds[j].start.block
    BY <1>2, <2>1 DEF SoundInv, OrderInv
  <2>4. ASSUME NEW i \in DOMAIN seeds
        PROVE  MonthBegin[bym[i]] <= seeds[i].start.t /\ seeds[i].start.t < MonthBegin[bym[i] + 1]
    <3>1. InSomeMonth(seeds[i].start.t)
      BY <1>1, <1>2, <2>1
    <3>. QED  BY <2>2, <3>1 DEF InSomeMonth, MonthOf
  <2>. QED  BY <1>1, <1>2, <2>1, <2>2, <2>3, <2>4 DEF SeedsAreSound
<1>3. IInv /\ SoundInv /\ fileDt \in FileDts => SeedsAreSound
  BY <1>2 DEF SeedsAreSound
<1>4. Init => fileDt \in FileDts
  BY DEF Init
<1>5. fileDt \in FileDts /\ [Next]_vars => (fileDt \in FileDts)'
  <2>1. [Next]_vars => UNCHANGED fileDt
    BY DEF Next, vars, options, LoadStarts, LoadStops, Pair, Normalize, SnapTimes, Check, Thin, EndThin, Bucketize
  <2>. QED  BY <2>1
<1>. QED  BY <1>3, <1>4, <1>5, Invariance, Soundness, PTL DEF Spec

=============================================================================
