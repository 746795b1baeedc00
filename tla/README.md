# Particle tracker: specification and proofs

TLA+ models of the particle transport framework in `src/`, checked with TLC on
small instances, with proofs checked by TLAPS for every instance.

## 1. Inventory

The repository is a header library (`include/particle_tracker/`) and three
drivers (`examples/`).  There is no service and no message passing; what is
hard is *time*: months of data enter and leave a small buffer while particles
cross month boundaries, results leave memory before the run ends, and a run of
days or weeks may die at any point with its files half written.

| Component | State it keeps | Operations | What makes it correct |
|---|---|---|---|
| `hpc_particles` | `cur_month`, two `MonthData` slots and `older`/`newer`, `all_particles` by release day, six per-day totals, one gzip file per day | load, spawn, propagate (TBB threads per bucket), retire, append records, advance, tally | right month for every look-up; every particle released once, ended once, counted once; ends at the right age; files agree with totals |
| `hpc_trajectories` | as above with integer time index, stop targets, a sample list per particle, per-thread lists of finished ones, two PKD2 writers | activate month, propagate with guards, flush finished and survivors, close | each trajectory written once to both files, samples contiguous in time, right month |
| `regular_grid_transport_daily_netcdf` | `MonthCache` (deque of at most three months), `results` of one release day, one NetCDF file per day | prefetch, evict, look up, integrate (TBB), write | no look-up of an absent month, no month loaded twice, a file of a finished day lists exactly the seeds that moved |
| PKD1 gzip files (`fixed_point_io_codec`, `pkd1_io`, `core`) | header count in the first member, appended members | create, bump the count, append, read | a reader gets every record whose write returned, or can tell from the count that it does not |
| PKD2 files (`fixed_point_pkd2`) | header, blocks, table of contents | encode, add, close (also from the destructor), read | a reader sees nothing or everything that was closed, and decodes what was encoded |
| seed loader (`seed_loader_v2`) and seed records | two loads of the file, `seeds`, `bym` | decode first/last sample of each block, or CSV; pair, normalise, snap, check, thin, bucketize | start and stop of one trajectory stay paired and in order, on whole steps |
| monthly data preparation (`data_prep_utils`) | one `MonthData` with two sub-domains: grids, masks, point clouds, series, splines, kd-trees | read the grids, two passes over files that may fail each time, fill gaps, join splines, build trees | every time from one file, gaps on lines, neighbour *i* is spline *i*, a month that is covered |
| dates (`detail/datetime_utils`) | none | civil date from and to days, months, seconds since 2000 | round trips, month ends |
| NetCDF input (`detail/ncdf_utils`) | the slices of each variable that could be read | open, read times and variables, unpack, hand out a time's values | what is handed out after a swallowed error is what the file has for that time |
| neighbour search (`interpolation_utils`, vendored `nanoflann`) | a kd-tree over a cloud, the distances carried down it | build, search a radius, search the nearest point | no neighbour within the radius is lost, whichever branches are skipped |
| interpolation weights, spline evaluation, `geography_utils` | none | floating-point numerics | not stated here, see section 7 |

Interaction: drivers call data preparation (which calls NetCDF input) once per
month, serially; the parallel loops only read the month data and write the
particle or the result they own; after a loop the main thread alone retires
particles and writes files.  Nothing is locked and nothing waits except for the
threads of a loop, so interleaving is real but narrow: the order in which the
particles of one bucket advance, and the order of buckets in an unordered map.

Behaviours that are hard to test, each listed at its line under `hazards` in
`PROJECT.json`: a stale slot used in the last window, a month missing from the
cache, particles lost or counted twice on their way out of memory, boundaries
of grace, lifetime and months that no time step hits exactly, a death between
the two halves of an append, a file that can be read in one pass and not in the
next, a branch of a tree that is skipped although it has neighbours.

## 2. Plan

1. *(done)* `ParticleLedger`, `HpcParticles` and its proofs: the core.
2. *(done)* `RegularGrid`: the month cache and the daily files.
3. *(done)* `HpcTrajectories`: activation, stop targets, guards, per-thread
   lists, the flush to two writers; `SeedRecords`: what happens to the seeds
   before.  Left: the refinement of `ParticleLedger`.
4. *(done)* `Pkd2File` and `WriteOnceFile`: writer, crash between flushes,
   retried close, reader; `Pkd2Codec`: what is inside a block.  Left: a module
   that composes 3 with two of these files.
5. *(done)* `Pkd1Gzip`: members, header count, cut members, several runs,
   reader.  Left: its composition with `HpcParticles`, whose own file actions
   are the same two steps without the reader.
6. *(done)* `CivilDate`; `NetcdfFile`, `KdTree` and `MonthData`, which composes
   them: a month from its files to the answer of a search; `KdSearch`, a tree by
   itself.
7. Proofs: *(done)* those of section 6, of every safety property that a run
   checks; left: that `HpcTrajectories` implements an abstract ledger of its
   seeds, as `HpcParticles` does.

## 3. Modules

`ParticleLedger` - the abstract specification: `fate` of every particle
(unreleased, afloat, landed, expired) and the set of `archived` ones.

`HpcParticles` - `examples/hpc_particles.cpp` with the two-step append of
`write_records_gzip`.

| Code | Model |
|---|---|
| `cur_month`, `older` (`newer` is `1 - older`), `buf[i].month` | `cur`, `older`, `buf` |
| `all_particles[day]`, `p.time`, `p.reason` | `Bucket(d)` of `ram`, `time`, `reason` (kept after a particle has left RAM) |
| `released_total`, `landed_total`, `neverland_total`, `boring_total` | `released`, `landed`, `neverland`, `boring` |
| record count in the first gzip member; records in all members | `header`, `body`; `Prior` is what an earlier run left |
| the two passes over `all_particles` | `todo`, `active`, `recs` |
| `main`: first loads; spawning; retirement; ring buffer; survivors | `LoadFirst`; `Spawn`; `Retire`, `CreateFile`/`BumpHeader`/`AppendMember`, `EndRetire`; `Advance`; `Tally` |
| `propagateWindow` | `EnterBucket`, `Step` (one loop iteration of any particle of the bucket), `LeaveBucket`, `EndWindow` |
| an exception or a kill | `Die` |

A particle is a pair of release day and seed.  Positions are abstract: `Step`
chooses whether the particle is near land.  The totals by longitude and the
printed statistics are left out.  `boring_total`, commented "never left origin
band (killed at grace)", is kept because `Retire` adds to it, but no code sets
`EndReason::neverleft`, so it stays zero.

`HpcParticles_proofs` - the inductive invariants and the theorems, about clocks
and months first, then about totals, files and the ledger.

`RegularGrid` - `examples/regular_grid_transport_daily_netcdf.cpp`.
`bundles_` is the sequence `bundles` of months; `get` is `Prefetch`, eviction
is `Evict`, `getLoadedForTime` is `Lookup`, whose exception is `MissMonth`.
`integrateSeed` is `StartSeed`, then `StrandSeed` (no sea point around) or
`StepSeed`; `results` is `status` and `steps`.  `writeDailyNetCDF` is two steps:
`CreateDay` makes the file, replacing what is there (`NcFile::replace`), and
`FillDay` puts the variables and closes it; in between a reader may find
anything (`Partial`), and the driver may die.  The destructor of the file
swallows the error of a close that fails, so that the run goes on (`LoseDay`);
`lost` and `moved`, the seeds that made a step on a day, are history.  The output
directory is taken to hold no daily files when the run begins; an older file
would stand until its day is created.  The second look-up of a month by the same
thread is left out: the cache does not change during the parallel loop.
`RegularGrid_proofs` - its inductive invariant and the theorems.

`HpcTrajectories` - `examples/hpc_trajectories.cpp`.

| Code | Model |
|---|---|
| `cur_month`, `older`, `buf[i].month`; `bym` | `cur`, `older`, `buf`; `pending` |
| `all_particles`, `p.time_idx`, `p.reason`, `p.traj` | `ram`, `idx`, `ended`, `traj` (least index and number of samples) |
| the streaks `empty_neighbors` and of fast steps, locals of one window | `empty`, `fast`, reset by `Activate` |
| `done_tls` | `done_tls`, one list per worker, flushed in that order |
| the two writers | `file` (trajectories added), `closed` (readable) |
| `activate_month`; `propagateWindow` | `Activate`; `EnterBucket`, `Step`, `LeaveBucket`, `EndWindow` |
| one iteration of the loop: stop reached, lifetime over, no sea point around, a step | `ReachStop`, `Expire`, `NoSea`, `Sail` |
| `flush_to`, which adds to one writer, then to the other | `WritePos` (in `FlushFinished`, `FlushSurvivor`), `WriteVel` |
| retirement, ring buffer, closing | `Retire`, `Advance`, `EndSurvivors`, `ClosePos`, `CloseVel` |
| an exception and the destructors it runs; a kill | `Throw`, `Unwind`; `Die` |

Seeds are given with start and stop index, as `SeedRecords` makes them.  The
test that an index fits in 32 bits is left out.  `HpcTrajectories_proofs` - its
inductive invariant and the theorems.

`SeedRecords` - `load_seeds_auto` and the part of `main` between opening the
output files and the month loop, one action per stage: `LoadStarts`,
`LoadStops`, `Pair`, `Normalize`, `SnapTimes`, `Check`, `Thin`/`EndThin`,
`Bucketize`.  A point of a record is a block and one of its ends, with its time;
thinning keeps any records in order, up to the cap.  What `SeedsAreSound` says
of the result is what `HpcTrajectories` assumes of its constants.
`SeedRecords_proofs` - its inductive invariant and the theorems.

`WriteOnceFile` - the abstract specification of a trajectory file as its reader
sees it: unreadable, then empty, then whole, never anything else; once a device
has failed (`Spoilt`) it promises nothing more.

`Pkd2File` - writer, destructor and reader of `fixed_point_pkd2.hpp`.  The file
is the header and a `stream` of chunks (blocks and a table), of which the first
`flushed` are on disk: stdio writes full buffers by itself (`Drain`) and
everything at `fflush` (`Flush`).  Any write may fail and take buffered output
with it, and the results of `fflush` and of the last `write_at` are not looked
at, as in the code (`FlushLoses`, `WriteAtFront`); `failed` remembers that one
did.  `Opens` and `Trajectory` are the reader's constructor and `read_traj`.
Blocks are opaque here.

`Pkd2Codec` - `emit_block` and the sums of `read_traj` and
`decode_block_first_last`, sample by sample: `prevL` and `prevB` are the
variables of the loop, `L` and `B` what a reader has summed up in ticks
(`LonRead` and `LatRead` as angles).  Angles are integers in fractions of a
tick, so `to_q`'s rounding is exact; NaN is a value of its own.

`Pkd2_proofs` - of `Pkd2Codec` the bounds of rounding and unwrapping, of both
modules the inductive invariant and the theorems, of `Pkd2File` the refinement
of `WriteOnceFile`.

`Pkd1Gzip` - `write_records_gzip` and `read_records_gzip` for one file, over any
number of runs into the same directory.  `Create`, `Bump` and `AppendMember` are
the steps of a write that succeeds, `CreateCut` and `AppendCut` those of one
whose process dies or whose stream loses its end without anybody noticing
(`lossy`).  `bump_gzip_extra_reserved1` does not look at its stream after the
flush either: in `BumpLost` the rewrite of the header is lost and the append
goes on; `missed`, a history variable, adds up by how much.  `Readable` and
`Contents` are the reader.  Two things are assumed: rewriting the header's count
in place happens as a whole or not at all, and bytes that follow a cut member do
not inflate as its continuation.  `Pkd1Gzip_proofs` - its
inductive invariant, what flattening does, and the theorems.

`CivilDate` - `Date` of `datetime_utils.hpp` and the conversions to seconds and
back of `data_prep_utils.hpp`.  `date` is walked by `Forward` and `Backward`,
the loops of `addDays`; `delta` is the argument.  Seconds are counted in units
of 128 and wrap as 32-bit integers do.  `CivilDate_proofs` - a closed form of
the number of a day, and the theorems.

`NetcdfFile` - what `NetCDFProcessor` hands out of one file: units of times,
the missing value (`_FillValue`, else `missing_value`, else -30000 converted to
the variable's type), packing, and the prefix of a variable that stays when
reading it fails in the middle.  An attribute that is absent is taken to be a
null one, as the code's tests for `isNull` do; a library that throws instead
would have `missing_value` skipped (`catch (...)`, `ncdf_utils.hpp:398`).

`KdTree` - nanoflann's index with the program's point cloud and metric.

| Code | Model |
|---|---|
| `LonLatDistanceAdaptor::evalMetric`, `accum_dist` | `Metric`, `AccumDist`, times `Unit`, so that a squared cosine is an integer |
| `divideTree`: leaf, or `middleSplit_` and `planeSplit` | `MakeLeaf`, `Split`; a node is the set of its points, equal ones go to either side |
| `computeInitialDistances`, `findNeighbors` | `InitialDist`, `FindNeighbors` |
| the recursion of `searchLevel` | `open`, the calls still to make, with the distances each is given; `Skip`, `ScanLeaf`, `Descend` |
| the result sets for a radius and for one nearest point | `found`, `best` |

`KdSearch` - a tree by itself, over any cloud and with any query.

`MonthData` - `loadOneMonth` and what drivers do with its result.

| Code | Model |
|---|---|
| `initializeGrid`, `in_the_sea` | `ReadGrid`, `sea` |
| sea and land clouds | `BuildClouds`; `sea_cloud`, `land_cloud` |
| `collectTimeSeriesData`: first pass, empty series, second pass | `ScanFile`, `EndScan`, `LoadTime`; `source` is `time_to_file_map` |
| `interpolateMissingData`, gap after gap | `FillGap`, `EndFill`; `start` is `start_idx` |
| `createSplinesForSeaPoints`, `joinSplines` | `JoinSplines` |
| `buildKdTrees`; `computeNeighbors` and the tests for land | `BuildKdTree`; `FindPoints` and the steps of `KdTree` |

An archive is what the files hold, with the number of reads that may fail.
Values are integers chosen so that each interpolation is exact.  `seen`, `got`
and `raw` are history, for the properties only.  At its end the module says what
the theorems require of the archives; `MCMonthData` assumes it of those it
defines, so that TLC evaluates it.

`MonthData_proofs` - the invariants and theorems of `KdSearch` and `MonthData`.

The modules whose names begin with `MC` give constants for TLC.

## 4. Runs

| Run | Shows | Bounds |
|---|---|---|
| `hpc` | types, right month, ages, survivors, accounting, files; implements `ParticleLedger`; every run settles | 2 seeds, 3 release days in 2 months, a day of 2 ticks, a step of 3 that divides neither days nor months; a grace of one step and a lifetime of four, so that both bounds are hit exactly; 2 months of look-back of exactly one lifetime, one file left by an earlier run, death anywhere |
| `grid` | cache covers, no reload, a complete daily file lists exactly the seeds that moved, every run ends | 2 seeds, 3 or 4 releases; integrations of 2 steps over exactly 3 months from the first three, one ending on a month's first tick, eviction at every release after the first; over 4 months from the last; a close may fail on any day, the run may die before, while and after a file is written |
| `grid_winter` | *violation*: 62 days from 29 December need four months | December 2002 to March 2003 in days, releases from 27 December on |
| `trajectories` | types, right month, decodable times, each trajectory written once, files paired, nothing lingers in memory, every seed is delivered | 5 seeds (two with a stop, one of them at an index that truncation puts in the window of a later month; two without, which end at their lifetime, by a guard or with the last window; one that starts behind the months visited), 2 workers, days of 2 ticks and a step of 5, months of 1 to 5 days none of which begins on a step and the shortest of which is shorter than one: truncation misplaces an index in all three windows, and both of the exceptions that `RightMonth` names are reached; one empty and one fast step tolerated, exceptions and death anywhere |
| `seeds` | ends stay together, seeds are sound, starting from the last point never fails | a CSV file of 4 rows in either epoch; a file of 5 trajectories, one of a single point and two of one seed, with a step shorter or longer than the driver's; a cap of 3 |
| `pkd2` | a reader sees nothing or everything after a death at any point, until a write fails; after that never an older trajectory | 4 trajectories of 2 seeds, hence a seed that is added twice |
| `codec` | drift of half a tick per sample, no jumps at the date line, the seed loader's positions | all paths of 6 samples over 7 longitudes and 5 latitudes, 4 units to a tick, a half turn that is no whole number of ticks; a second time round the pole is reached |
| `codec_velocity` | *violation*: one unknown velocity spoils the rest of the trajectory | the same with slow currents and NaN |
| `pkd1` | a readable file has every record of every write that returned, or its count tells | 4 writes of 1 or 2 records, cut anywhere within or between records, any rewrite of the header lost, any number of deaths |
| `month` | one source per time, gaps on lines, splines aligned with clouds, axis covers the month, searches lose no neighbour and find the nearest point | a month of one day in steps of 12 hours, four archives: `faulty` (2 sea points, any 2 reads fail, a time repeated, one off the axis, three units; a byte variable without attributes, one with `missing_value` and one with both, values missing at sea in the first two), `lost` (no data variables, any 4 reads fail, hence all files of a sub-domain), `whole` (two grids that overlap and cross the date line, clouds of 5 and 9 points, leaves of one point, 18 queries on, between and beside points) and `dry` (no sea) |
| `kd_dateline` | *violation*: neighbours across the date line are missed | 5 points on the equator on both sides of the line, 3 queries |
| `dates` | valid dates, steps are days, seconds round trip, months partition, 24 months cover a lifetime | every day from 1 January 1899 to 31 December 2100: two centuries that are no leap years and one that is |

The bounds are small because nothing in the code depends on more: the buffer
has two slots, so four months let every slot be reloaded and go stale; two
seeds are enough for a particle that ends while another of its bucket survives;
three days give two buckets in one month and one in the next, hence both an
append to an existing file and a new file.  Months of different length make
boundaries fall between steps.

The depth of a tree and the order in which branches are visited are what a
search depends on; nine points in leaves of one give at least four levels.  Six
steps of an axis let gaps lie at both ends, side by side, and over everything.

Three of the limits in `hpc_trajectories` (ten empty neighbourhoods, four fast
steps, one lifetime) only count; a limit of one already separates "tolerated",
"reset" and "ended".  Two workers are enough for the order of the lists to
matter.  The last window, whose newer slot is stale, is reached by two seeds, one
of which starts in it.

**Findings.** The comment at
`src/examples/regular_grid_transport_daily_netcdf.cpp:690-692` says the accepted
integration length is bounded by what the rolling cache can cover.  The check
admits 62 days, and 62 days from 29, 30 or 31 December of a winter before a
non-leap year's March touch four months.  Prefetching the fourth evicts the
first, and every thread's first look-up throws: the run ends with an error
before it writes that day (`grid_winter`); earlier days are unharmed
(`DailyFiles` in `grid`, which has such a release too).

The comment at `src/include/particle_tracker/interpolation_utils.hpp:294-295`
says of the metric of the trees that differences of longitude are wrapped "for
continuity across the dateline".  `evalMetric` does so, and `accum_dist` too,
but the tree is divided along unwrapped longitudes: of the branch on the other
side of the cut, `searchLevel` looks at the distance to the near edge, and
points just across the date line are at the far edge.  The branch is skipped and
with it neighbours that the metric puts within the radius (`kd_dateline`).
What a search does guarantee is `FindsTheDisc`, checked and proved: every point
within the radius on the map, and none that is not within it in the metric.  The two also differ
where the cosine shortens longitudes and `accum_dist` (line 350) does not: away
from the equator some of the points beside the query may be missed.

The comment at `src/examples/hpc_trajectories.cpp:113` says that the velocity
file holds u and v in m/s.  Where the velocity is unknown, and at every stop
target, the sample is NaN (`hpc_trajectories.cpp:343`, `:383`).  `emit_block`
stores the difference to the previous sample; a NaN makes two of these an
unspecified result of `llround`, in practice the least 32-bit integer, and
whoever sums the differences is thousands of m/s off from there on
(`codec_velocity`).  A sample at a stop target is the first one of its block, so
this spoils the whole velocity series of every trajectory that reaches its
stop.  The positions are never NaN (`codec`).  Besides, v is clamped to a
quarter turn and u wrapped to a half turn, 1.57 and 3.14 m/s.

## 5. Fairness

The drivers never block: as long as the process lives, the main thread or a
thread of the current parallel loop can run, and `parallel_for` returns when
all its items are done.  `FairSpec` therefore assumes weak fairness of the
disjunction of all actions except `Die` (and, in `HpcTrajectories`, `Throw`),
nothing about single threads.  Every loop decreases something (a particle's
clock, the month, the buckets left, the months or days left), so this is enough
for the three liveness properties: `RunSettles`, `RunEnds` and `AllDelivered`.

## 6. Proofs

`HpcParticles_proofs` proves for every calendar, set of seeds, time step, grace
and lifetime allowed by the named assumptions of `HpcParticles`: `TypeOK`,
`RightMonth`, `FateAges` and `SurvivorsExpired`.

*Assumptions.* Ticks are positive (`TicksAssumption`), the seeds finite
(`SeedsAssumption`), months partition the time line and the release window lies
in them (`CalendarAssumption`), and the months before the first release cover a
lifetime (`HorizonAssumption`: 24 months have at least 730 days, the lifetime of
`hpc_particles.cpp:54`).

*Argument.* `RightMonth` is not inductive: that `pickMonth` is right depends on
what every particle's clock can be when a window begins.  The invariant `IInv`
adds: which months the two slots hold in every phase (`MonthInv`); which days
have been released (`ReleaseInv`); that a particle in RAM which is still moving
has a clock no later than the end of the window, and has left every earlier
window only below its beginning (`ClockInv`); and that what is in RAM is
unended outside propagation (`RetiredInv`).  Then a moving particle's time is
at least the window's beginning and before its end, hence in the month of the
older slot, and the stale newer slot is never consulted.  `SurvivorsExpired`
follows because the clock of a survivor is below the beginning of the first
month, a lifetime or more before its release.

`CalendarAssumption` and `HorizonAssumption` hold of the real calendar: they are
`MonthsPartition` and `HorizonCoversLifetime`, which the run `dates` checks and
`CivilDate_proofs` proves.

From the same assumptions it proves `Accounted`
(`EveryoneAccountedFor`), `FileAgrees` (`FilesMatchTotals`) and the refinement
`ImplementsLedger` (`LedgerImplemented`).  `Accounted` is preserved because a
bucket is the disjoint union of its particles by reason (`BucketSplits`) and a
day is spawned into an empty bucket with all totals zero (`SpawnedOnce`, from
`ReleaseInv`).  `FileAgrees` does not say what is about to be written; `FileInv`
adds that a day's `landed` is the number of its beached particles outside RAM,
that the records in hand are exactly those the file lacks, and which of the two
counts the header has before and after `BumpHeader`.  For the refinement,
`Changes` names whose fate a step changes: `Spawn` is a `Release`, beaching in
`Step` a `Land`, a lifetime that ends there and `Tally` an `Expire`, and
`CreateFile` and `AppendMember` an `Archive`, of records no file had before by
`FileInv`; every other step leaves fates and archive alone.

Of `KdSearch` `MonthData_proofs` proves `FindsTheDisc` (`NoNeighborLost`) and `NearestBetween`
(`NearestFound`) for every cloud, query, radius, size of leaves and table of
cosines.

*Assumptions.* Squared cosines are at most one (`KdAssumption`); points and
queries have latitudes up to the poles, and no two of them are as far apart as
the greatest double (the hypothesis `ArePositions` of the theorems).  The run
`month` checks the two properties where the same actions are composed with the
making of a month.

*Argument.* Neither property is inductive, since a branch is skipped on the
strength of distances that were handed down.  The invariant adds: a divided
node has two non-empty children whose coordinates do not overlap along the cut
(`TreeInv`); the distances handed to a call are, dimension by dimension, at most
those of the map to each of its points (in the set `Calls`); and every point has
been dealt with or is in a call still to be made (`RadiusInv`, `NearestInv`).
That children are not empty is counted with cardinalities, in the three cases of
`middleSplit_`; that the second child's distance is a bound rests on the order
of edges around the cut, and on a longitude's short way round being no longer
than the plain difference.  Then a skipped call has only points farther away
than the worst result allowed, and since the metric is at most the distance on
the map, no point is lost that is within the radius there.  For longitudes
across the date line this argument has no counterpart, and `kd_dateline` shows
that the claim is false.

Of `MonthData` `MonthData_proofs` proves `OneSourcePerTime` (`OneSource`),
`AxisCovers` (`AxisIsLongEnough`), `GapsOnLines` (`GapsAreOnLines`) and `Aligned`
(`SplinesAreAligned`), for months of any length, any step and any number of reads
that fail.

*Assumptions.* `MonthAssumption`, and of the archives: a file has each of its
times once, and a value of every variable it has for each of them and each grid
point, in a byte variable a byte (`AreArchives`).  The code does not check the
first of these: it takes the value of a sea point by its number in the grid
(`data_prep_utils.hpp:392`) from whatever slice the file has.  With a time twice in one file a read that breaks off
between the two gives the former, and `OneSourcePerTime` would be false.
`GapsOnLines` and `Aligned` need `ExactSlopes` besides: what is between two
values is an integer, as the model's division is one and that of the code is
not.  `AxisCovers` needs that the first and the last of the files have a time on
their own day and that a step is not longer than a day (`EndsAreDaily`); which
files can be read in the first pass is open.

*Argument.* Sub-domains are worked on one after the other, and the series of the
second are untouched while the first is read (`PhaseInv`).  `source` names, for
every time, the last of the days seen that have it (`SourceInv`), for the days
come in order.  The series are, cell by cell, what `source` says where a time
was read, and missing elsewhere (`LoadInv`): hence `OneSourcePerTime`, and
`AxisCovers` from the least and the greatest time.  What `Aligned` and
`OneSourcePerTime` take for the value in a file is `MarkedMissing`, which says
without a conversion which bytes are missing; `UnpackedIs` shows that the
loader's comparison with a converted constant is the same.  While gaps are filled, a
series is complete below `start` and as it was read from there on, and `start` is
the index of a value that was read, or an end (`Partly`); so the value before the
next gap is one that was read, not one that was patched.  `Aligned` follows from
the order of clouds and splines (`CloudInv`, `SplineInv`).  That every grid point is
in one cloud is shown by bijections between the indices of a cloud and the grid
points, since `InOrder` has every number at its rank (`InOrderIs`).

`RegularGrid_proofs` proves `LoadedOnce` (`NoMonthReadTwice`), `CacheCovers`
(`MissesAreHopeless`) and `DailyFiles` (`FilesListMovedSeeds`).

*Assumptions.* There are seeds, an integration has a step at least, both checked
by `main` (`GridAssumption`); the months partition the time that is simulated,
and none is passed over from one release to the next, since months are longer
than a day (`CalendarAssumption`).

*Argument.* The cache is a window of consecutive months, and what lies behind it
was never read (`WindowInv`).  The month asked for next is in it or right behind
it, so that a load prolongs the window; and if it has left the first month of the
release, it is full and ends within the release's months, which are then too
many (`CacheInv`).  A seed that has made its first look-up proves that this did
not happen, hence the next release also begins inside the window or right
behind it.  For `DailyFiles`, `moved` is followed through the loop: a seed has
made a step on the day at hand if and only if it has counted one, and then its
status is none of those that are left out; so the rows of a day are the seeds
that moved, no more and no fewer (`SeedInv`, `FilesInv`).

`HpcTrajectories_proofs` proves `TypeOK` (`TypeCorrect`), `WrittenOnce`
(`EachSeedOnce`), `TimesDecode` (`FilesDecode`), `Paired` (`FilesPaired`),
`NoLingering` (`MemoryIsLive`) and `RightMonth` (`FieldOfItsMonth`).

*Assumptions.* `TrajectoryAssumption`: sizes are positive, months increase and
no stop is later than its start; seeds need not be finite in number.  Nothing is
assumed of how the step fits days or months, as `main` accepts any positive one
(line 499).

*Argument.* A trajectory has one holder: its particle, the list of one worker,
or the position file (`WhereInv`), and the lists are empty whenever a month
begins (`PhaseInv`).  The clock of a particle determines its trajectory: the
samples are those from the start to one above the clock, fewer steps than a
lifetime (`SeedInv`); hence `TimesDecode`.  That all visited seeds are in the
file at the end needs that none stays without a sample, which the pass over the
survivors would leave out: a fresh particle starts within the month that
activates it, and the window of that month moves it, as an index below the
window's lower bound is a time before the month (`FreshInv`, `BelowWindow`).  A
particle leaves a window ended or below its beginning (`ClockInv`), hence
`NoLingering`.  The indices of a window are those from the truncated quotient on:
at or above the beginning, or less than one step below it, if that is not on the
grid and not before time zero (`InWindow`).  Only there can `pickMonth` look into
the other slot, which holds the month before, except in the last window: hence
`RightMonth` with the two exceptions it names.  For a step that divides a day
that index does not exist, and no field is ever another month's.  The velocity file is the
position file, or that without its last record (`PairInv`).

`Pkd2_proofs` proves of `Pkd2File` `TypeOK` (`TypeCorrect`), `NeverStale` (`NothingStale`)
and the refinement `WholeOrEmpty` (`WrittenAtOnce`) for any seeds and any number
of trajectories.  Failures do not make a table wrong but cut it off: nothing is
added once a table has been written, so that every table in the file, also one of
a failed close, is the whole table (`TableInv`); hence nothing stale.  While no
write has failed, blocks are where the table says, the table is where the
header is going to say, and both are on disk before the header is
(`SoundInv`); hence the file appears at once.  That a seed's latest entry exists
is carried along (`TocInv`), for it would need an induction.

`SeedRecords_proofs` proves `LastNeverFails` (`LastPointsNeverFail`),
`EndsTogether` (`RecordsJoinEnds`) and `SeedsAreSound` (`MonthLoopIsFed`) for any
file, step and cap, from `RecordsAssumption`.  A record is made of the two points of one block, in
whatever order blocks are paired and thinned (`RecordsInv`), and `Snap` keeps the
order of two times, also across the epoch, where one of them is rounded by the
other branch (`SnapMono`).  For `SeedsAreSound` the invariant follows a row
through the stages: whether its two times are in order (`OrderInv`), where it
comes from (`RowInv`), and what `Check` has let pass (`CheckedInv`).  It has the
hypothesis `MonthsCover`: every time a seed may start at lies in a numbered
month.

Of `Pkd2Codec` `Pkd2_proofs` proves `ReadsBack` (`DriftBounded`), `Continuous`
(`TakesTheShortWay`) and `SeedEnds` (`SeedPositions`) for blocks of any length.

*Assumptions.* Half a turn is an even number of units and six of them fit in a
tick's range (`CodecAssumption`), and the samples are positions within a turn
(the hypothesis `ArePositions`, which the run `codec` satisfies and velocities
with NaN do not).

*Argument.* Rounding costs half a tick (`RoundedClose`) and nothing is clamped,
as a difference is within six half turns (`TicksAre`).  `UnwrapFollow` turns once
at most, so that longitudes stay within three half turns whatever came before
(`UnwrapFollowIs`).  The reader's error then grows by half a tick per sample
(`OneMoreSample`).  For `SeedEnds` the error either is below a turn, so that the
longitude brought back into range is at most one turn off (`WrapLonIs`), or the
bound is so wide that the nearest turn satisfies it.

`Pkd1Gzip_proofs` proves `ReadsBack` (`NothingReturnedIsLost`) and `CountTells`
(`CountIsACheck`) for batches of any size and any number of calls, deaths and
runs, from `GzipAssumption`.

*Argument.* The members of a file are the batches in the order of the calls, and
only the last can be cut if the file can be read (`Orderly`).  Unless a stream
lost something, the records kept are those of all members, or of all but the
last, which is then cut (`KeptInv`); a cut member is never followed by another
one in a file that can be read, so `CutShort` is not carried further.  The
header and the rewrites of it that were lost count all members and, between
`Bump` or `BumpLost` and the append, the batch in hand (`CountInv`): if together
they count no more than the members have, no batch was given up or lost.  `FlattenSeq` is unfolded one member at a time (`FlattenAppend`).

`CivilDate_proofs` proves `StepsAreDays` (`SteppingIsDays`), `SecondsRoundTrip`
(`SecondsAndBack`), `MonthsPartition` (`MonthWindows`) and
`HorizonCoversLifetime` (`HorizonIsLongEnough`), and that the walk stays on
valid dates (`RealMonths`) and in their order (`OrderIsByDay`).

*Argument.* `DaysFromCivil` counts in years that begin in March and eras of 400
of them.  The day's number is shown to be that of 1 January,
given by the leap years before, plus the days of the months before
(`DayNumber`); from there on everything is arithmetic on one year.  The proofs
are for every whole year; the division of the code rounds towards zero and
agrees with the model for positive years only, all there are.

Liveness (`RunSettles`, `RunEnds`, `AllDelivered`) is out of the prover's reach.
So are the library's induction theorems, which take an operator as a parameter.
Where a fact does need induction over a sequence, as what `FlattenSeq` gives, it
is obtained from the least number of a set (`Smallest`, `MinExists`).  These three
are the only properties of passing runs that are model-checked without a proof.

## 7. Not modelled

The evaluation of splines, the Gaussian weights of neighbours and great circles
are floating-point numerics; their outcome is a nondeterministic choice of a
step.  So is whether the spline library accepts a series.  `KdTree` is exact in
integers where the code has doubles: the tolerance by which `middleSplit_`
compares sides is zero, the middle of a side is rounded down to an integer, and a
query exactly on a boundary is decided.  Dynamic
indexes, other result sets, builds by several threads, saving and loading of
nanoflann are used by no driver.

Reading a NetCDF file is the library's; `NetcdfFile` keeps which parts of it
were read.  Left out are strict mode, which is off; variables without a time,
other than the axes of the grid; and a time vector shorter than its dimension.
Of data preparation, file names and the dump of the coast for debugging are left
out, and what no driver calls (`populateData`).

Months before 2000 of `hpc_trajectories` occur in its proofs only, not in the
run; 32-bit seconds, which wrap in 2068, only in `CivilDate`, so that what the
other modules say of releases is for dates before that.  Placement of the initial
positions is random and happens once.  Command-line parsing has no state.
Compression and the limits of block sizes, the fields of a gzip header, and the
bytes of a record (`encode_record`) are data here.  `write_records_binary` (no
gzip) is called by no driver.

What `MonthData` makes visible without being a disagreement with any document:
a file without one of the data variables costs its times in all of them, since
the exception of the first that is missing skips the rest; when all files lack
one, every series is filled with zeros and the month is used as if the water
stood still (archive `lost`).

What `HpcTrajectories` makes visible: the comment at
`src/examples/hpc_trajectories.cpp:289-290` calls the bound of a window exact "for
3h", and so it is for every step that divides a day.  With any other step line
292 puts an index below the window's beginning.  That is harmless while the other
slot holds the month it lies in; in the last window that slot is stale, and one
step of a particle is made with the field of a month later (`RightMonth`).

What `Pkd1Gzip` makes visible: a rewrite of the header that fails leaves a count
that is too small for good, and nothing in the file tells a reader so.

What `Pkd2File` makes visible without being a disagreement with any document:
since the first `fflush` of `close` is not checked, a full disk may leave a
header that points to a table which is not there, although `close` returns; such
a file cannot be opened, but is never read wrongly (`NeverStale`).
