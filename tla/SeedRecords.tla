----------------------------- MODULE SeedRecords -----------------------------
(***************************************************************************)
(* How main() of hpc_trajectories.cpp turns a seed file into the seeds of  *)
(* the month loop.  A PKD2 file is loaded twice (seed_loader_v2.hpp), once *)
(* for the points where trajectories are to start and once for the         *)
(* opposite ones, where they are to stop; a CSV file has starts only.      *)
(* Times are brought to the driver's epoch and to its time step, records   *)
(* are checked and thinned, and put into the month of their start.         *)
(*                                                                         *)
(* A point is a block and an end of it; its position is not looked at.     *)
(* Epoch and steps are in seconds, scaled down.                            *)
(***************************************************************************)
EXTENDS Integers, Sequences

CONSTANTS
  Blocks,        \* the file: seed id, first index and number of points of each
  FileDts,       \* dt_s in the header of the file; 0 for a CSV file
  CsvTimes,      \* t_start_s of the rows of a CSV file
  UnixTo2000,    \* seconds between the two epochs
  Dt,            \* base_dt_s
  Cap,           \* --cap
  MonthBegin,    \* the first second of every month
  LastMonth      \* months are numbered 0 .. LastMonth

ASSUME RecordsAssumption ==
  /\ FileDts \subseteq Nat /\ Dt \in Nat \ {0} /\ Cap \in Nat /\ UnixTo2000 \in Nat
  /\ LastMonth \in Nat /\ MonthBegin \in [0 .. LastMonth + 1 -> Int]
  /\ Blocks \in Seq([id : Nat, first : Int, n : Nat]) /\ CsvTimes \in Seq(Int)
  /\ \A b \in DOMAIN Blocks : Blocks[b].n > 0

VARIABLES
  pc,      \* where main() is
  fileDt,  \* which of the files it is
  point,   \* seed_point
  epoch,   \* SeedTimeEpoch
  starts,  \* what the two loads returned
  stops,
  seeds,   \* the records
  read, w, \* thinning: records looked at, and kept
  bym      \* the month of each record that was kept

options == <<fileDt, point, epoch>>
loaded  == <<starts, stops>>
vars    == <<pc, options, loaded, seeds, read, w, bym>>

IsPkd2 == fileDt > 0
NoStop == [block |-> 0, end |-> "none", t |-> 0]

Opposite(p) == IF p = "first" THEN "last" ELSE "first"

\* decode_block_first_last: the time of an end of a block.
TimeOf(b, end) ==
  (Blocks[b].first + (IF end = "last" THEN Blocks[b].n - 1 ELSE 0)) * fileDt
Point(b, end) == [block |-> b, end |-> end, t |-> TimeOf(b, end)]

\* load_seeds_auto; a CSV file has no ends.
LoadSeeds(end) ==
  IF IsPkd2 THEN [b \in DOMAIN Blocks |-> Point(b, end)]
  ELSE [i \in DOMAIN CsvTimes |-> [block |-> i, end |-> "row", t |-> CsvTimes[i]]]

\* snap_to_grid: llround(t / dt) * dt, halves away from zero.
SnapDown(t) == (t \div Dt) * Dt
Snap(t) ==
  (IF t >= 0 THEN (2 * t + Dt) \div (2 * Dt) ELSE -((Dt - 2 * t) \div (2 * Dt))) * Dt

\* Both times of a record, or the start only if it has no stop.
RetimedStartOnly(r, t, u) == [r EXCEPT !.start.t = t]
Retimed(r, t, u) ==
  IF r.stop = NoStop THEN [r EXCEPT !.start.t = t] ELSE [r EXCEPT !.start.t = t, !.stop.t = u]

To2000(t) == t - UnixTo2000

\* What may be kept in the place of the next record.
PlacedStartOnly(i) == [seeds EXCEPT ![w + 1].start = seeds[i].start]
Placed(i)          == [seeds EXCEPT ![w + 1] = seeds[i]]

\* What thinning leaves of them.
Kept    == SubSeq(seeds, 1, w)

MonthOf(t) == CHOOSE m \in 0 .. LastMonth : MonthBegin[m] <= t /\ t < MonthBegin[m + 1]

Fail == pc' = "failed"

-----------------------------------------------------------------------------

\* The times of a PKD2 file count from 2000, those of a CSV file from 1970
\* unless the command line says otherwise.
Init ==
  /\ pc = "starts"
  /\ fileDt \in FileDts /\ point \in {"first", "last"}
  /\ epoch \in IF IsPkd2 THEN {"since2000"} ELSE {"unix", "since2000"}
  /\ starts = <<>> /\ stops = <<>> /\ seeds = <<>>
  /\ read = 0 /\ w = 0 /\ bym = <<>>

LoadStarts ==
  /\ pc = "starts"
  /\ starts' = LoadSeeds(point)
  /\ IF starts' = <<>> THEN Fail ELSE pc' = IF IsPkd2 THEN "stops" ELSE "pair"
  /\ UNCHANGED <<options, stops, seeds, read, w, bym>>

LoadStops ==
  /\ pc = "stops"
  /\ stops' = LoadSeeds(Opposite(point))
  /\ pc' = "pair"
  /\ UNCHANGED <<options, starts, seeds, read, w, bym>>

\* Starts and stops are paired by their position in the file, which must be
\* that of the same seed.
IdOf(p) == Blocks[p.block].id
Pair ==
  /\ pc = "pair"
  /\ IF IsPkd2 /\ ~(Len(starts) = Len(stops) /\ \A i \in DOMAIN starts : IdOf(starts[i]) = IdOf(stops[i]))
     THEN Fail /\ UNCHANGED seeds
     ELSE /\ pc' = "normalize"
          /\ seeds' = [i \in DOMAIN starts |->
               [start |-> starts[i], stop |-> IF IsPkd2 THEN stops[i] ELSE NoStop]]
  /\ UNCHANGED <<options, loaded, read, w, bym>>

\* normalize_seed_times_to_t2000
Normalize ==
  /\ pc = "normalize"
  /\ seeds' = IF epoch = "since2000" THEN seeds
              ELSE [i \in DOMAIN seeds |->
                      Retimed(seeds[i], To2000(seeds[i].start.t), To2000(seeds[i].stop.t))]
  /\ pc' = "snap"
  /\ UNCHANGED <<options, loaded, read, w, bym>>

\* snap_seed_times_to_grid
SnapTimes ==
  /\ pc = "snap"
  /\ seeds' = [i \in DOMAIN seeds |->
                 Retimed(seeds[i], Snap(seeds[i].start.t), Snap(seeds[i].stop.t))]
  /\ pc' = "check"
  /\ UNCHANGED <<options, loaded, read, w, bym>>

\* A stop later than its start ends the program.
Backwards(r) == r.stop # NoStop => r.stop.t <= r.start.t
Check ==
  /\ pc = "check"
  /\ IF \A i \in DOMAIN seeds : Backwards(seeds[i])
     THEN \/ pc' = "thin" /\ UNCHANGED <<read, w>>
          \/ pc' = "bucket" /\ read' = Len(seeds) /\ w' = Len(seeds)
     ELSE Fail /\ UNCHANGED <<read, w>>
  /\ UNCHANGED <<options, loaded, seeds, bym>>

\* Thinning keeps records by chance, in place, up to the cap.
Thin ==
  /\ pc = "thin" /\ read < Len(seeds) /\ w < Cap
  /\ \/ seeds' = Placed(read + 1) /\ w' = w + 1
     \/ UNCHANGED <<seeds, w>>
  /\ read' = read + 1
  /\ UNCHANGED <<pc, options, loaded, bym>>

EndThin ==
  /\ pc = "thin" /\ (read = Len(seeds) \/ w >= Cap)
  /\ seeds' = Kept
  /\ pc' = "bucket"
  /\ UNCHANGED <<options, loaded, read, w, bym>>

\* bucketize_seeds
Bucketize ==
  /\ pc = "bucket"
  /\ bym' = [i \in DOMAIN seeds |-> MonthOf(seeds[i].start.t)]
  /\ pc' = "run"
  /\ UNCHANGED <<options, loaded, seeds, read, w>>

Next ==
  \/ LoadStarts \/ LoadStops \/ Pair \/ Normalize \/ SnapTimes \/ Check
  \/ Thin \/ EndThin \/ Bucketize

Spec == Init /\ [][Next]_vars

-----------------------------------------------------------------------------
(***************************************************************************)
(* Properties                                                              *)
(***************************************************************************)

Ready == pc = "run"

\* A record of a PKD2 file joins the two ends of one trajectory, the one the
\* user chose as its start; nothing on the way exchanges them or moves the
\* stop of one record to another.
EndsTogether ==
  Ready /\ IsPkd2 => \A i \in DOMAIN seeds :
    /\ seeds[i].start.block = seeds[i].stop.block
    /\ seeds[i].start.end = point /\ seeds[i].stop.end = Opposite(point)

\* The time of a point in the file, counted from 2000, and a time next to it.
Original(p) ==
  IF IsPkd2 THEN TimeOf(p.block, p.end)
  ELSE CsvTimes[p.block] - (IF epoch = "unix" THEN UnixTo2000 ELSE 0)
OnGrid(p) == p.t % Dt = 0 /\ 2 * (p.t - Original(p)) \in -Dt .. Dt

\* The month loop relies on its seeds: times are whole steps, as close to
\* those in the file as can be; no stop is later than its start; a record waits
\* for the month its start is in after snapping; and thinning leaves records of
\* the file, each once and in its order, and no more than it counted.
SeedsAreSound ==
  Ready =>
    /\ \A i \in DOMAIN seeds :
         /\ OnGrid(seeds[i].start)
         /\ IsPkd2 => OnGrid(seeds[i].stop) /\ seeds[i].stop.t <= seeds[i].start.t
         /\ MonthBegin[bym[i]] <= seeds[i].start.t /\ seeds[i].start.t < MonthBegin[bym[i] + 1]
    /\ Len(seeds) = w /\ DOMAIN bym = DOMAIN seeds
    /\ \A i, j \in 1 .. w : i < j => seeds[i].start.block < seeds[j].start.block

\* Starting from the last points, as is the default, never fails the check,
\* whatever the step of the file: snapping keeps the order of two times.
LastNeverFails == point = "last" /\ LoadSeeds(point) # <<>> => pc # "failed"

=============================================================================
