----------------------------- MODULE MCMonthData -----------------------------
(***************************************************************************)
(* A month of one day with steps of 12 hours, in four archives: one whose  *)
(* files may fail at each opening, with the fewest points; one with clouds *)
(* that need a tree, whose longitudes cross the date line; one whose files *)
(* have no data variables and may all be unreadable; and one without sea.  *)
(***************************************************************************)
EXTENDS MonthData

\* Eight times the squared cosine, for sums of latitudes that are multiples of 8.
MCCosSq == [s \in -64 .. 64 |->
  <<8, 8, 7, 5, 4, 2, 1, 0, 0>>[((IF s < 0 THEN -s ELSE s) \div 8) + 1]]

\* A time is repeated in a later file, two are missing, one is off the axis; no file
\* of the days of the month has their beginning.  The files use three units.
MCTimes(n) ==
  CASE n = -1 -> [unit |-> "hours", times |-> <<-24, -12>>]
    [] n = 0  -> [unit |-> "seconds", times |-> <<43200>>]
    [] n = 1  -> [unit |-> "hours", times |-> <<12, 36, 42>>]
    [] n = 2  -> [unit |-> "days", times |-> <<2>>]

\* Raw values, different at all points; unpacked they are multiples of 60, for
\* gaps of up to six steps.
MCRaw(d, n, i, k, shift) == 16 * d + 4 * k + (((n + 2) * 5 + i * i + shift) % 7)
MCVariable(bits, fill, missing, offset, value(_, _), times, points) ==
  [bits |-> bits, fill |-> fill, missing |-> missing, scale |-> 60, offset |-> offset,
   data |-> [i \in DOMAIN times |-> [k \in points |-> value(i, k)]]]

\* A file: u is a byte variable without attributes, v has only missing_value,
\* either lacks a value at sea; salt, which has both attributes, only on land.
MCFile(d, n, wet, points) ==
  LET t == MCTimes(n) IN
  [unit |-> t.unit, times |-> t.times, vars |->
    [u    |-> MCVariable(8, <<>>, <<>>, 120, LAMBDA i, k : IF k \in wet /\ <<n, i>> # <<1, 2>>
                         THEN MCRaw(d, n, i, k, 0) ELSE -48, t.times, points),
     v    |-> MCVariable(16, <<>>, <<-1>>, 0, LAMBDA i, k : IF k \in wet /\ <<n, i>> # <<1, 1>>
                         THEN MCRaw(d, n, i, k, 3) ELSE -1, t.times, points),
     salt |-> MCVariable(16, <<-30000>>, <<1>>, 0, LAMBDA i, k : IF k \in wet THEN i ELSE -30000,
                         t.times, points)]]

MCArchive(lon, lat, wet, most) ==
  [lon |-> lon, lat |-> lat, errors |-> most, files |-> [d \in Domains |-> [n \in -1 .. 2 |->
     MCFile(d, n, wet[d], 1 .. Len(lon[d]) * Len(lat[d]))]]]

\* Files that have lost their data variables.
WithoutData(a) ==
  [a EXCEPT !.files = [d \in Domains |-> [n \in DOMAIN a.files[d] |->
    [a.files[d][n] EXCEPT !.vars = [v \in {MaskVar} |-> @[v]]]]]]

MCArchives ==
  [faulty |-> MCArchive(<<<<0>>, <<16>>>>, <<<<0, 16>>, <<0, 16>>>>, <<{1}, {2}>>, 2),
   lost   |-> WithoutData(MCArchive(<<<<0>>, <<16>>>>, <<<<0, 16>>, <<0, 16>>>>, <<{1}, {2}>>, 4)),
   dry    |-> MCArchive(<<<<0>>, <<16>>>>, <<<<0, 16>>, <<0, 16>>>>, <<{}, {}>>, 0),
   whole  |-> MCArchive(<<<<-8, 0, 16>>, <<48, 64, 80>>>>, <<<<0, 16>>, <<0, 24>>>>,
                        <<{1, 2, 3, 4, 6}, {2, 3, 4, 6}>>, 0)]

MCQueries == {-68, -12, 4, 20, 36, 60} \X {0, 8, 20}

ASSUME MCArchivesAssumption == AreArchives /\ ExactSlopes /\ EndsAreDaily

=============================================================================
