----------------------------- MODULE RegularGrid -----------------------------
(***************************************************************************)
(* The forward transport driver, regular_grid_transport_daily_netcdf.cpp:  *)
(* for every release day it prefetches the months the integration needs    *)
(* into a small first-in-first-out cache, integrates all seeds in parallel *)
(* against that cache and writes one file for the day.                     *)
(*                                                                         *)
(* Time is counted in ticks.  Positions are abstract: whether a seed is    *)
(* near land or has no sea point around it is chosen when it is looked at. *)
(***************************************************************************)
EXTENDS Integers, Sequences, FiniteSets

CONSTANTS
  Seeds,            \* the regular grid of seeds
  Day,              \* ticks per day
  Dt,               \* dt_seconds
  Integration,      \* integration_seconds
  StartRelease,     \* midnight of the first release day
  EndReleases,      \* possible last ones
  LastMonth,        \* months are numbered 0 .. LastMonth
  MonthBegin,       \* the first tick of every month, and of the one after them
  MaxCachedMonths   \* MAX_CACHED_MONTHS

ASSUME GridAssumption ==
  /\ Seeds # {}
  /\ Day \in Nat \ {0} /\ Dt \in Nat \ {0} /\ MaxCachedMonths \in Nat \ {0}
  /\ Integration \in Nat /\ Integration >= Dt
  /\ StartRelease \in Int /\ EndReleases \subseteq Int

\* Months follow one another and partition the time that releases and their
\* integrations touch; from one release to the next no month is passed over.
ASSUME CalendarAssumption ==
  /\ LastMonth \in Nat /\ MonthBegin \in [0 .. LastMonth + 1 -> Int]
  /\ \A k \in 0 .. LastMonth + 1 : \A m \in 0 .. k - 1 : MonthBegin[m] < MonthBegin[k]
  /\ \A t \in MonthBegin[0] .. MonthBegin[LastMonth + 1] - 1 :
       \E m \in 0 .. LastMonth : MonthBegin[m] <= t /\ t < MonthBegin[m + 1]
  /\ MonthBegin[0] <= StartRelease
  /\ \A t \in EndReleases : t + Integration < MonthBegin[LastMonth + 1]
  /\ \/ Day <= Integration
     \/ \A m \in 0 .. LastMonth : MonthBegin[m + 1] - MonthBegin[m] >= Day

Months     == 0 .. LastMonth
NSteps     == Integration \div Dt
MonthOf(t) == CHOOSE m \in Months : MonthBegin[m] <= t /\ t < MonthBegin[m + 1]

Statuses    == {"ok", "landed", "no_sea", "start_land", "start_no_sea"}

VARIABLES
  pc,       \* where main() is
  last,     \* end_release
  release,  \* the release day being run
  want,     \* the month prefetchForRelease() asks the cache for next
  bundles,  \* bundles_, oldest first
  status,   \* r.status of every seed, "new" or "moving" while it is worked on
  steps,    \* r.valid_steps
  moved,    \* for each release day, the seeds that have made a step
  file,     \* the file of each release day
  lost,     \* the days whose file could not be closed, which nobody is told
  loads     \* how often every month has been read from disk

cache  == <<want, bundles, loads>>
result == <<status, steps, moved>>
output == <<file, lost>>
vars   == <<pc, last, release, cache, result, output>>

ReleaseDays == {t \in StartRelease .. last : (t - StartRelease) % Day = 0}

Cached == {bundles[i] : i \in DOMAIN bundles}

\* The seeds left out of a daily file: those that never entered the water.
OmittedOnLandOnly(s) == status[s] = "start_land"
Omitted(s)           == status[s] \in {"start_land", "start_no_sea"}

\* A file is complete only after it has been closed.  Until then, and for ever
\* if that never happens, a reader may find any part of it, or nothing.
Absent   == [state |-> "absent", rows |-> <<>>]
Partial  == [state |-> "partial", rows |-> <<>>]
Whole(r) == [state |-> "whole", rows |-> r]

Rows == [s \in {r \in Seeds : ~Omitted(r)} |-> [status |-> status[s], steps |-> steps[s]]]

\* MonthCache::get evicts the front of the deque when it has grown too long.
EvictNewest(b) == IF Len(b) > MaxCachedMonths THEN <<b[1]>> \o SubSeq(b, 3, Len(b)) ELSE b
Evict(b)       == IF Len(b) > MaxCachedMonths THEN Tail(b) ELSE b

\* The last month prefetched for a release.
PrefetchEndWithoutIntegration == MonthOf(release)
PrefetchEnd                   == MonthOf(release + Integration)

\* The midnight after this one.
NextReleaseUnchanged == release
NextRelease          == release + Day

-----------------------------------------------------------------------------

Init ==
  /\ pc = "release"
  /\ last \in EndReleases /\ release = StartRelease
  /\ want = 0 /\ bundles = <<>> /\ loads = [m \in Months |-> 0]
  /\ status = [s \in Seeds |-> "new"] /\ steps = [s \in Seeds |-> 0]
  /\ moved = [t \in ReleaseDays |-> {}]
  /\ file = [t \in ReleaseDays |-> Absent] /\ lost = {}

BeginRelease ==
  /\ pc = "release" /\ release <= last
  /\ pc' = "prefetch"
  /\ want' = MonthOf(release)
  /\ UNCHANGED <<last, release, bundles, loads, result, output>>

\* get(want): a hit changes nothing, a miss loads the month and may evict.
Prefetch ==
  /\ pc = "prefetch" /\ want <= PrefetchEnd
  /\ IF want \in Cached
     THEN UNCHANGED <<bundles, loads>>
     ELSE /\ bundles' = Evict(Append(bundles, want))
          /\ loads' = [loads EXCEPT ![want] = @ + 1]
  /\ want' = want + 1
  /\ UNCHANGED <<last, pc, release, result, output>>

\* All months were asked for: the parallel loop starts with fresh results.
BeginIntegration ==
  /\ pc = "prefetch" /\ want > PrefetchEnd
  /\ pc' = "integrate"
  /\ status' = [s \in Seeds |-> "new"] /\ steps' = [s \in Seeds |-> 0]
  /\ UNCHANGED <<last, release, cache, moved, output>>

\* The time at which a thread looks a month up next for its seed: when it
\* starts and after every step, which all have the same length.
NextLook(s) == release + (IF status[s] = "new" THEN 0 ELSE steps[s] + 1) * Dt

\* getLoadedForTime: is the month of time t in the cache?  The threads only
\* read the cache, so what one of them has found stays there.
Lookup(t) == MonthOf(t) \in Cached

\* A month was not prefetched or has been evicted since: the exception leaves
\* the parallel loop and ends the run.
MissMonth(s) ==
  /\ pc = "integrate" /\ status[s] \in {"new", "moving"} /\ ~Lookup(NextLook(s))
  /\ pc' = "missing"
  /\ UNCHANGED <<last, release, cache, result, output>>

\* The test for land at the start of integrateSeed.
StartSeed(s) ==
  /\ pc = "integrate" /\ status[s] = "new" /\ Lookup(NextLook(s))
  /\ \E why \in {"start_land", "moving"} : status' = [status EXCEPT ![s] = why]
  /\ UNCHANGED <<last, pc, steps, moved, release, cache, output>>

\* One iteration of the loop: there is no sea point around, ...
StrandSeed(s) ==
  /\ pc = "integrate" /\ status[s] = "moving"
  /\ status' = [status EXCEPT ![s] = IF steps[s] = 0 THEN "start_no_sea" ELSE "no_sea"]
  /\ UNCHANGED <<last, pc, steps, moved, release, cache, output>>

\* ... or the step ends on land, or the seed moves on or has done all steps.
StepSeed(s) ==
  /\ pc = "integrate" /\ status[s] = "moving" /\ Lookup(NextLook(s))
  /\ steps' = [steps EXCEPT ![s] = @ + 1]
  /\ moved' = [moved EXCEPT ![release] = @ \cup {s}]
  /\ \E end \in {"landed", IF steps[s] + 1 = NSteps THEN "ok" ELSE "moving"} :
       status' = [status EXCEPT ![s] = end]
  /\ UNCHANGED <<last, pc, release, cache, output>>

\* Every seed is done: the day's file is created, replacing what is there, ...
CreateDay ==
  /\ pc = "integrate" /\ \A s \in Seeds : status[s] \in Statuses
  /\ file' = [file EXCEPT ![release] = Partial]
  /\ pc' = "write"
  /\ UNCHANGED <<last, release, cache, result, lost>>

\* ... filled variable by variable and closed, and the next day is run, ...
NextDay == release' = NextRelease /\ pc' = "release" /\ UNCHANGED <<last, cache, result>>

FillDay ==
  /\ pc = "write"
  /\ file' = [file EXCEPT ![release] = Whole(Rows)]
  /\ UNCHANGED lost
  /\ NextDay

\* ... also if it could not be closed: the destructor keeps that to itself.
LoseDay ==
  /\ pc = "write"
  /\ lost' = lost \cup {release}
  /\ UNCHANGED file
  /\ NextDay

Finish ==
  /\ pc = "release" /\ release > last
  /\ pc' = "done"
  /\ UNCHANGED <<last, release, cache, result, output>>

\* Any other exception, or a kill, ends the run: a month that cannot be read,
\* a file that cannot be created or filled.
Die ==
  /\ pc \in {"prefetch", "integrate", "write"}
  /\ pc' = "dead"
  /\ UNCHANGED <<last, release, cache, result, output>>

Work ==
  \/ BeginRelease \/ Prefetch \/ BeginIntegration
  \/ CreateDay \/ FillDay \/ LoseDay \/ Finish
  \/ \E s \in Seeds : MissMonth(s) \/ StartSeed(s) \/ StrandSeed(s) \/ StepSeed(s)

Next == Work \/ Die

Spec     == Init /\ [][Next]_vars
\* The driver only waits for its own worker threads.
FairSpec == Spec /\ WF_vars(Work)

-----------------------------------------------------------------------------
(***************************************************************************)
(* Properties                                                              *)
(***************************************************************************)

\* The calendar months that the release's integration touches.
Span == MonthOf(release) .. MonthOf(release + Integration)

\* A thread asks for a month that is not in the cache only if the integration
\* touches more months than the cache holds, and then the first look-up does:
\* no thread of such a release ever makes a step.
CacheCovers ==
  pc = "missing" => /\ Cardinality(Span) > MaxCachedMonths
                    /\ \A s \in Seeds : status[s] = "new"

\* The limit on the integration length is what the cache can cover, as the
\* comment above it in main() says: no look-up ever fails.
NeverMissing == pc # "missing"

\* The cache is a window of consecutive months, oldest first, so that what it
\* evicts is what no later release can need: no month is read twice, although
\* the cache never outgrows its limit.
LoadedOnce ==
  /\ Len(bundles) <= MaxCachedMonths
  /\ \A m \in Months : loads[m] <= 1
  /\ \A i \in 1 .. Len(bundles) - 1 : bundles[i + 1] = bundles[i] + 1

\* Every finished day has its file, and the file lists exactly the seeds that
\* made a step on that day, each with as many steps as its status says.  The
\* only files that are not complete are those whose closing failed unnoticed,
\* and the one the driver was writing when it ended.
DailyFile(t) ==
  /\ t < release => file[t].state = IF t \in lost THEN "partial" ELSE "whole"
  /\ t = release => \/ file[t].state = "absent"
                    \/ file[t].state = "partial" /\ pc \in {"write", "dead"}
  /\ t > release => file[t].state = "absent"
  /\ file[t].state = "whole" =>
       /\ DOMAIN file[t].rows = moved[t]
       /\ \A s \in moved[t] : LET row == file[t].rows[s] IN
            /\ row.steps >= 1
            /\ row.status = "ok" <=> row.steps = NSteps /\ row.status # "landed"
            /\ row.status = "no_sea" => row.steps < NSteps

DailyFiles == \A t \in ReleaseDays : DailyFile(t)

\* Every run ends, and without an error it has written every day.
RunEnds ==
  <>(\/ pc \in {"dead", "missing"}
     \/ pc = "done" /\ \A t \in ReleaseDays : file[t].state = "whole" \/ t \in lost)

=============================================================================
