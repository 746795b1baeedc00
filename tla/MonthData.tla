------------------------------ MODULE MonthData ------------------------------
(***************************************************************************)
(* loadOneMonth of data_prep_utils.hpp and what the drivers do with its    *)
(* result: grids and sea masks of two sub-domains, the two point clouds,   *)
(* gapless series on a regular time axis for every sea point, splines in   *)
(* the order of the sea cloud, kd-trees over the clouds and their search.  *)
(* Opening and reading a file may fail each time it is done.               *)
(*                                                                         *)
(* Times are seconds, the month begins at 0.  An archive is the contents   *)
(* of the files for all days, with a bound on the errors of reading them.  *)
(* Values are integers for which every interpolation below is exact.       *)
(***************************************************************************)
EXTENDS KdTree, NetcdfFile, SequencesExt

CONSTANTS
  Archives,   \* archives to load a month from, by name
  MonthDays,  \* days of the month
  Day,        \* seconds of a day
  Dt,         \* dt_seconds
  Vars,       \* data_vars
  MaskVar,    \* the grid variable whose missing values are land
  Queries     \* positions of particles

Domains == {1, 2}

\* The days of the month are 0 .. MonthDays - 1; files are read from the day
\* before to the second one after.
DaysOfMonth == 0 .. MonthDays
Days        == -1 .. MonthDays + 1

ASSUME MonthAssumption ==
  /\ MonthDays \in Nat \ {0} /\ Day \in Nat \ {0} /\ Dt \in Nat \ {0}
  /\ NaN \notin Int

VARIABLES
  archive,     \* the name of the archive
  errors,      \* how many more reads of its files may fail
  pc,          \* where loadOneMonth is
  sub,         \* the sub-domain it works on
  sea,         \* in_the_sea: the sea points of the grids
  land_cloud,  \* sea_cloud is below, the cloud of the trees is KdTree's
  sea_cloud,
  day,         \* the day whose file the first pass reads next
  source,      \* time_to_file_map: the day for every time, or NoDay
  unread,      \* the times the second pass has still to read
  series,      \* raw_time_series, a sequence over the axis for each sea point
  gaps,        \* series that interpolateMissingData has still to patch
  start,       \* start_idx, in the one at hand
  spl,         \* the splines: the time of the first sample and the samples
  \* History:
  seen,        \* the days the first pass could open
  got,         \* the times the second pass could read
  raw          \* the series before gaps were filled

grids   == <<sea, sea_cloud, land_cloud>>
axes    == <<day, source, unread>>
filling == <<gaps, start>>
history == <<seen, got, raw>>
month   == <<pc, sub, grids, axes, series, filling, spl, history>>
files   == <<archive, errors>>
vars    == <<files, month, kdVars>>

NoDay      == MonthDays + 2
FirstDay   == Min(Days)
Archive    == Archives[archive]
File(d, n) == Archive.files[d][n]
AllTimes   == UNION {ToSet(TimesOf(File(d, n))) : d \in Domains, n \in Days}

-----------------------------------------------------------------------------
(***************************************************************************)
(* Grids and clouds                                                        *)
(***************************************************************************)

NumPoints(d) == Len(Archive.lon[d]) * Len(Archive.lat[d])
GridPoints   == UNION {{d} \X (1 .. NumPoints(d)) : d \in Domains}

\* Rows of equal latitude, longitudes brought into range.
Position(d, k) ==
  LET n == Len(Archive.lon[d])
  IN  <<WrapLon(Archive.lon[d][((k - 1) % n) + 1]), Archive.lat[d][((k - 1) \div n) + 1]>>

\* The elements of a set of numbers, from the least to the greatest.
Rank(k, S)    == Cardinality({i \in S : i <= k})
InOrder(S)    == [j \in 1 .. Cardinality(S) |-> CHOOSE k \in S : Rank(k, S) = j]
SeaIndices(d) == InOrder(sea[d])
SeaPoints(d)  == [j \in DOMAIN SeaIndices(d) |-> Position(d, SeaIndices(d)[j])]

\* The points of both grids in one count; what is not marked as sea is land.
Total      == NumPoints(1) + NumPoints(2)
GridOf(i)  == IF i <= NumPoints(1) THEN <<1, i>> ELSE <<2, i - NumPoints(1)>>
Marked     == sea[1] \cup {k + NumPoints(1) : k \in sea[2]}
LandPoints ==
  LET land == InOrder(1 .. Total \ Marked)
  IN  [j \in DOMAIN land |-> Position(GridOf(land[j])[1], GridOf(land[j])[2])]

-----------------------------------------------------------------------------
(***************************************************************************)
(* The time axis and the series of a sub-domain                            *)
(***************************************************************************)

Known(d)     == {t \in AllTimes : source[d][t] # NoDay}
N(d)         == (Max(Known(d)) - Min(Known(d))) \div Dt + 1
Indices(d)   == 0 .. N(d) - 1
AxisAt(d, i) == Min(Known(d)) + i * Dt
OnAxis(d, t) == \E i \in Indices(d) : AxisAt(d, i) = t

\* A later file replaces an earlier one that has the same time.
SourceOf(t) == IF t \in ToSet(TimesOf(File(sub, day))) THEN day ELSE source[sub][t]

\* A time that is not on the axis is dropped.  All variables are read before
\* any of them is stored.
StoredAt(f, r, t, n) ==
  [j \in DOMAIN series[sub][n] |-> [i \in Indices(sub) |->
     IF AxisAt(sub, i) = t THEN SliceAt(f, r, n, t)[SeaIndices(sub)[j]] ELSE series[sub][n][j][i]]]
StoredRead(f, r, t) ==
  [n \in Vars |-> IF HasSlice(f, r, n, t) THEN StoredAt(f, r, t, n) ELSE series[sub][n]]
Stored(f, r, t) ==
  IF \A n \in Vars : HasSlice(f, r, n, t) THEN [n \in Vars |-> StoredAt(f, r, t, n)]
  ELSE series[sub]

\* The next gap of the series at hand: its first index and the first behind it.
Gap      == CHOOSE g \in gaps : TRUE
Series   == series[Gap[1]][Gap[2]][Gap[3]]
Missing  == {i \in DOMAIN Series : i >= start /\ Series[i] = NaN}
GapBegin == Min(Missing)
GapEnd   == Min({i \in DOMAIN Series : i > GapBegin /\ Series[i] # NaN} \cup {Cardinality(DOMAIN Series)})

\* What is put at index i of a gap from s to e - 1 of a series of n samples.
BetweenFrom(y, s, e, i) == y[s] + ((y[e] - y[s]) * (i - s)) \div (e - s)
FilledFlat(y, n, s, e, i) ==
  IF s > 0 THEN y[s - 1] ELSE IF e < n THEN y[e] ELSE 0
Filled(y, n, s, e, i) ==
  IF s > 0 /\ e < n THEN BetweenFrom(y, s - 1, e, i)
  ELSE IF s > 0 THEN y[s - 1] ELSE IF e < n THEN y[e] ELSE 0

\* One spline for each sea point, starting at the first time of its axis.
Splines(d, n) == [j \in DOMAIN series[d][n] |-> [start |-> AxisAt(d, 0), values |-> series[d][n][j]]]
JoinedWithOneAxis(n) ==
  LET both == Splines(1, n) \o Splines(2, n)
  IN  [j \in DOMAIN both |-> [both[j] EXCEPT !.start = AxisAt(1, 0)]]
Joined(n) == Splines(1, n) \o Splines(2, n)

-----------------------------------------------------------------------------
(***************************************************************************)
(* The steps of loadOneMonth                                               *)
(***************************************************************************)

Init ==
  /\ archive \in DOMAIN Archives /\ errors = Archive.errors
  /\ pc = "grid" /\ sub = 1
  /\ sea = <<{}, {}>> /\ sea_cloud = <<>> /\ land_cloud = <<>>
  /\ day = FirstDay /\ source = [d \in Domains |-> [t \in AllTimes |-> NoDay]] /\ unread = {}
  /\ series = [d \in Domains |-> [n \in Vars |-> <<>>]] /\ gaps = {} /\ start = 0
  /\ spl = [n \in Vars |-> <<>>]
  /\ seen = <<{}, {}>> /\ got = <<{}, {}>> /\ raw = <<>>
  /\ NoTree

\* Every time it is opened a file may be read only in part, up to the bound.
Try(whole) ==
  /\ whole \/ errors > 0
  /\ errors' = IF whole THEN errors ELSE errors - 1
  /\ UNCHANGED archive

\* initializeGrid takes the grid of a sub-domain from its first file, its mask
\* from the first slice that could be read, and passes an error on.
ReadGrid ==
  /\ pc = "grid"
  /\ \E r \in Readings(File(sub, FirstDay), {MaskVar}), axesRead \in BOOLEAN :
       LET f     == File(sub, FirstDay)
           times == ReadTimes(f, r, MaskVar)
           mask  == SliceAt(f, r, MaskVar, Min(times))
       IN  /\ Try(IsWhole(r, f) /\ axesRead)
           /\ IF axesRead /\ times # {} /\ Len(mask) = NumPoints(sub)
              THEN /\ sea' = [sea EXCEPT ![sub] = {k \in DOMAIN mask : mask[k] # NaN}]
                   /\ pc' = IF sub = 1 THEN "grid" ELSE "clouds"
              ELSE pc' = "failed" /\ UNCHANGED sea
  /\ sub' = 3 - sub
  /\ UNCHANGED <<sea_cloud, land_cloud, axes, series, filling, spl, history, kdVars>>

\* The sea points of the first sub-domain precede those of the second.
BuildClouds ==
  /\ pc = "clouds"
  /\ sea_cloud' = SeaPoints(1) \o SeaPoints(2)
  /\ land_cloud' = LandPoints
  /\ pc' = IF sea_cloud' = <<>> \/ land_cloud' = <<>> THEN "failed" ELSE "scan"
  /\ UNCHANGED <<files, sub, sea, axes, series, filling, spl, history, kdVars>>

\* First pass over the files; one whose times cannot be read is skipped.
ScanFile ==
  /\ pc = "scan" /\ day \in Days
  /\ \E times \in BOOLEAN :
       /\ Try(times)
       /\ IF times
          THEN /\ source' = [source EXCEPT ![sub] = [t \in AllTimes |-> SourceOf(t)]]
               /\ seen' = [seen EXCEPT ![sub] = @ \cup {day}]
          ELSE UNCHANGED <<source, seen>>
  /\ day' = day + 1
  /\ UNCHANGED <<pc, sub, grids, unread, series, filling, spl, got, raw, kdVars>>

\* Without any time there is an error; else all series start out missing.
EndScan ==
  /\ pc = "scan" /\ day \notin Days
  /\ IF Known(sub) = {} THEN pc' = "failed" /\ UNCHANGED <<unread, series>>
     ELSE /\ pc' = "load"
          /\ unread' = Known(sub)
          /\ series' = [series EXCEPT ![sub] = [n \in Vars |->
               [j \in DOMAIN SeaIndices(sub) |-> [i \in Indices(sub) |-> NaN]]]]
  /\ day' = FirstDay
  /\ UNCHANGED <<files, sub, grids, source, filling, spl, history, kdVars>>

\* Second pass, in the order of time; a file in which any variable lacks this
\* time costs the time in all of them.
LoadTime ==
  /\ pc = "load" /\ unread # {}
  /\ LET t == Min(unread)
         f == File(sub, source[sub][t])
     IN  /\ \E r \in Readings(f, Vars) :
              /\ Try(IsWhole(r, f))
              /\ series' = [series EXCEPT ![sub] = Stored(f, r, t)]
              /\ got' = IF \A n \in Vars : HasSlice(f, r, n, t)
                        THEN [got EXCEPT ![sub] = @ \cup {t}] ELSE got
         /\ unread' = unread \ {t}
  /\ UNCHANGED <<pc, sub, grids, day, source, filling, spl, seen, raw, kdVars>>

\* After the second sub-domain all series are patched, one by one.
EndLoad ==
  /\ pc = "load" /\ unread = {}
  /\ sub' = 3 - sub
  /\ IF sub = 1 THEN pc' = "scan" /\ UNCHANGED <<gaps, raw>>
     ELSE /\ pc' = "fill"
          /\ raw' = series
          /\ gaps' = UNION {{d} \X {n} \X DOMAIN series[d][n] : d \in Domains, n \in Vars}
  /\ UNCHANGED <<files, grids, axes, series, start, spl, seen, got, kdVars>>

\* interpolateMissingData, in place, gap after gap.
FillGap ==
  /\ pc = "fill" /\ gaps # {} /\ Missing # {}
  /\ series' = [series EXCEPT ![Gap[1]][Gap[2]][Gap[3]] = [i \in DOMAIN Series |->
       IF GapBegin <= i /\ i < GapEnd
       THEN Filled(Series, Cardinality(DOMAIN Series), GapBegin, GapEnd, i) ELSE Series[i]]]
  /\ start' = GapEnd
  /\ UNCHANGED <<files, pc, sub, grids, axes, gaps, spl, history, kdVars>>

EndFill ==
  /\ pc = "fill" /\ gaps # {} /\ Missing = {}
  /\ gaps' = gaps \ {Gap} /\ start' = 0
  /\ UNCHANGED <<files, pc, sub, grids, axes, series, spl, history, kdVars>>

\* createSplinesForSeaPoints and joinSplines; the spline library may refuse a
\* series.
JoinSplines ==
  /\ pc = "fill" /\ gaps = {}
  /\ \/ pc' = "done" /\ spl' = [n \in Vars |-> Joined(n)]
     \/ pc' = "failed" /\ UNCHANGED spl
  /\ UNCHANGED <<files, sub, grids, axes, series, filling, history, kdVars>>

\* buildKdTrees; either of the two trees.
BuildKdTree ==
  /\ pc = "done"
  /\ \E c \in {sea_cloud, land_cloud} : BuildIndex(c)
  /\ pc' = "built"
  /\ UNCHANGED <<files, sub, grids, axes, series, filling, spl, history>>

\* The neighbours of a particle at sea, or its distance from a cloud.
FindPoints ==
  /\ pc = "built"
  /\ \E q \in Queries : \/ cloud = sea_cloud /\ ComputeNeighbors(q)
                        \/ NearestPoint(q)
  /\ UNCHANGED <<files, month>>

Next ==
  \/ ReadGrid \/ BuildClouds \/ ScanFile \/ EndScan \/ LoadTime \/ EndLoad
  \/ FillGap \/ EndFill \/ JoinSplines \/ BuildKdTree \/ FindPoints
  \/ KdStep /\ UNCHANGED <<files, month>>

Spec == Init /\ [][Next]_vars

-----------------------------------------------------------------------------
(***************************************************************************)
(* Properties                                                              *)
(***************************************************************************)

\* A value as a file has it: missing where the file marks it so, in a byte
\* where it is -30000 up to multiples of 256, and otherwise scaled.
MarkedMissing(w, x) ==
  CASE w.fill # <<>>                      -> x = w.fill[1]
    [] w.fill = <<>> /\ w.missing # <<>>  -> x = w.missing[1]
    [] OTHER -> IF w.bits = 8 THEN (x + 30000) % 256 = 0 ELSE x + 30000 = 0
Value(w, x) == IF MarkedMissing(w, x) THEN NaN ELSE x * w.scale + w.offset
ValueOf(f, v, t, k) ==
  Value(f.vars[v], f.vars[v].data[Max({j \in DOMAIN f.times : TimesOf(f)[j] = t})][k])
ValueIn(d, n, v, t, k) == ValueOf(File(d, n), v, t, k)

LastSeen(d, t) == Max({n \in seen[d] : t \in ToSet(TimesOf(File(d, n)))})

\* Whichever reads fail, a time has the values of one file in all variables at
\* all points of a sub-domain, those of the last file that had it in the first
\* pass, or it is missing in all.
OneSourcePerTime ==
  pc = "fill" => \A d \in Domains : \A i \in Indices(d) :
    LET t == AxisAt(d, i)
        points(v) == DOMAIN raw[d][v]
    IN  \/ \A v \in Vars : \A j \in points(v) : raw[d][v][j][i] = NaN
        \/ \A v \in Vars : \A j \in points(v) :
             raw[d][v][j][i] = ValueIn(d, LastSeen(d, t), v, t, SeaIndices(d)[j])

\* The indices of the values known up to and from an index on, and whether z
\* at that index lies on the line between the nearest two.
Behind(y, i) == {j \in DOMAIN y : j <= i /\ y[j] # NaN}
Ahead(y, i)  == {j \in DOMAIN y : j >= i /\ y[j] # NaN}
OnLine(y, z, i) ==
  LET l == Max(Behind(y, i)) r == Min(Ahead(y, i)) IN
  (z - y[l]) * (r - l) = (y[r] - y[l]) * (i - l) /\ (l = r => z = y[l])

\* When a series is complete every value that was read is still there, and
\* every other is on the line between the nearest ones read before and after
\* it, or equal to the nearest on the one side that has any.
Complete(y, x) ==
  \A i \in DOMAIN y :
    CASE Behind(y, i) = {} /\ Ahead(y, i) = {} -> x[i] = 0
      [] Behind(y, i) = {} /\ Ahead(y, i) # {} -> x[i] = y[Min(Ahead(y, i))]
      [] Behind(y, i) # {} /\ Ahead(y, i) = {} -> x[i] = y[Max(Behind(y, i))]
      [] OTHER -> OnLine(y, x[i], i)
GapsOnLines ==
  pc = "fill" /\ gaps = {} => \A d \in Domains, v \in Vars :
    \A j \in DOMAIN raw[d][v] : Complete(raw[d][v][j], series[d][v][j])

\* A spline gives at time t the value x.
Gives(s, t, x) ==
  LET i == (t - s.start) \div Dt
  IN  (t - s.start) % Dt = 0 /\ i \in DOMAIN s.values /\ s.values[i] = x

\* From the index of a neighbour to a velocity: the spline of index i gives, at
\* every time that was read, the value a file holds for the place of the sea
\* cloud's i-th point, whichever sub-domain that is in and whatever its axis is;
\* and every grid point is in just one of the clouds.
Places(c, p) == {i \in DOMAIN c : c[i] = p}
GridAt(p)    == {g \in GridPoints : Position(g[1], g[2]) = p}

Aligned ==
  pc = "done" =>
    /\ \A v \in Vars : Len(spl[v]) = Len(sea_cloud)
    /\ \A i \in DOMAIN sea_cloud : \E g \in GridAt(sea_cloud[i]) :
         \A v \in Vars : \A t \in got[g[1]] :
           LET x == ValueIn(g[1], LastSeen(g[1], t), v, t, g[2])
           IN  OnAxis(g[1], t) /\ x # NaN => Gives(spl[v][i], t, x)
    /\ \A p \in {Position(g[1], g[2]) : g \in GridPoints} :
         /\ Cardinality(Places(sea_cloud, p)) = Cardinality({g \in GridAt(p) : g[2] \in sea[g[1]]})
         /\ Cardinality(Places(land_cloud, p)) = Cardinality({g \in GridAt(p) : g[2] \notin sea[g[1]]})

\* Whichever files were skipped in the first pass, the axis of a sub-domain
\* reaches over all times of the others, up to less than one step behind its last
\* sample; with the first of the files it has a sample at or before any time of
\* the month, with the last one a sample at or after it, so that no look-up
\* extrapolates there.
LastDay == Max(Days)
AxisCovers ==
  pc = "done" => \A d \in Domains :
    /\ \A n \in seen[d] : \A t \in ToSet(TimesOf(File(d, n))) :
         AxisAt(d, 0) <= t /\ t < AxisAt(d, N(d) - 1) + Dt
    /\ FirstDay \in seen[d] => AxisAt(d, 0) <= 0
    /\ LastDay \in seen[d] => AxisAt(d, N(d) - 1) >= MonthDays * Day

-----------------------------------------------------------------------------
(***************************************************************************)
(* What the theorems require of the archives                               *)
(***************************************************************************)

\* A file has each of its times once, and for each of its variables a slice for
\* every time, with a value for every grid point; a byte is a byte.
IsFile(f, points) ==
  /\ f.times \in Seq(Int)
  /\ \A i, j \in DOMAIN f.times : f.times[i] = f.times[j] => i = j
  /\ \A v \in DOMAIN f.vars :
       /\ f.vars[v].scale \in Int /\ f.vars[v].offset \in Int
       /\ f.vars[v].data \in Seq(Seq(Int)) /\ Len(f.vars[v].data) = Len(f.times)
       /\ \A i \in DOMAIN f.times :
            /\ Len(f.vars[v].data[i]) = points
            /\ f.vars[v].bits = 8 => \A k \in 1 .. points : f.vars[v].data[i][k] \in -128 .. 127

AreArchives ==
  \A a \in DOMAIN Archives : \A d \in Domains :
    /\ Archives[a].lon[d] \in Seq(Int) /\ Archives[a].lat[d] \in Seq(Int)
    /\ \A n \in Days : IsFile(Archives[a].files[d][n], Len(Archives[a].lon[d]) * Len(Archives[a].lat[d]))

\* The values that any two files have for one point, at times of one axis that
\* are e steps apart, differ by a multiple of e, so that integers are on the
\* line between them.
ExactSlopes ==
  \A a \in DOMAIN Archives : \A d \in Domains : \A m, n \in Days : \A v \in Vars :
    LET f == Archives[a].files[d][m]
        g == Archives[a].files[d][n]
    IN  v \in DOMAIN f.vars /\ v \in DOMAIN g.vars =>
          \A k \in 1 .. Len(Archives[a].lon[d]) * Len(Archives[a].lat[d]) :
            \A s \in ToSet(TimesOf(f)), t \in ToSet(TimesOf(g)) :
              LET x == ValueOf(f, v, s, k)
                  y == ValueOf(g, v, t, k)
              IN  s < t /\ (t - s) % Dt = 0 /\ x # NaN /\ y # NaN =>
                    (y - x) % ((t - s) \div Dt) = 0

\* The files at both ends have a time on their own day, and no step of the axis
\* is longer than a day.
EndsAreDaily ==
  /\ Dt <= Day
  /\ \A a \in DOMAIN Archives : \A d \in Domains : \A n \in {-1, MonthDays + 1} :
       \E t \in ToSet(TimesOf(Archives[a].files[d][n])) : n * Day <= t /\ t < (n + 1) * Day

=============================================================================
