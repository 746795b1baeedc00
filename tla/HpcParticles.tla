---------------------------- MODULE HpcParticles ----------------------------
(***************************************************************************)
(* The backward release driver, examples/hpc_particles.cpp.  Particles are *)
(* released daily, propagated backwards one calendar month at a time over  *)
(* a two-slot buffer of monthly velocity fields, and retired to one gzip   *)
(* file per release day as soon as they have ended.                        *)
(*                                                                         *)
(* Time is counted in ticks; a particle is <<release day, seed>> with the  *)
(* release day given as the tick of its midnight.  Positions are abstract: *)
(* whether a position lies within the beaching threshold of land is chosen *)
(* anew at every step.                                                     *)
(***************************************************************************)
EXTENDS Integers, FiniteSets

CONSTANTS
  Seeds,         \* the initial positions, the same ones every day
  Day,           \* ticks per day
  Dt,            \* dt_seconds
  Life,          \* life_time_seconds
  Grace,         \* grace_seconds
  LookBack,      \* months integrated before the first release (24)
  StartRelease,  \* midnight of the first release day
  EndRelease,    \* midnight of the last release day
  StartMonth,    \* start_release.beginOfMonth(), as a month number
  EndMonth,      \* end_release.beginOfMonth()
  MonthBegin,    \* the first tick of every month
  Prior,         \* records an earlier run left in a day's output file
  NoDay          \* "no bucket is being worked on"

Months      == (StartMonth - LookBack) .. (EndMonth + 1)
ReleaseDays == {t \in StartRelease .. EndRelease : (t - StartRelease) % Day = 0}
Particles   == ReleaseDays \X Seeds
FirstMonthTooLate == StartMonth - LookBack + 1
FirstMonth        == StartMonth - LookBack

InMonth(t, m) == MonthBegin[m] <= t /\ t < MonthBegin[m + 1]

ASSUME TicksAssumption ==
  /\ Day \in Nat \ {0} /\ Dt \in Nat \ {0} /\ LookBack \in Nat \ {0}
  /\ Life \in Nat /\ Grace \in Nat

ASSUME SeedsAssumption == IsFiniteSet(Seeds) /\ Seeds # {}

ASSUME ReleaseAssumption ==
  /\ StartMonth \in Int /\ EndMonth \in Int /\ StartMonth <= EndMonth
  /\ StartRelease \in Int /\ EndRelease \in Int
  /\ NoDay \notin ReleaseDays
  /\ Prior \in [ReleaseDays -> Nat]

\* The months partition the time line, and the release window lies in the
\* months the driver derives from it.
ASSUME CalendarAssumption ==
  /\ MonthBegin \in [Months -> Int]
  /\ \A m \in StartMonth - LookBack .. EndMonth : MonthBegin[m] < MonthBegin[m + 1]
  /\ InMonth(StartRelease, StartMonth)
  /\ InMonth(EndRelease, EndMonth)

\* The months before the first release cover a lifetime: any 24 consecutive
\* months have at least 730 days.
ASSUME HorizonAssumption ==
  MonthBegin[StartMonth - LookBack] + Life <= MonthBegin[StartMonth]

-----------------------------------------------------------------------------

VARIABLES
  pc,         \* where main() is
  cur,        \* cur_month
  older,      \* index of the older slot; the newer one is 1 - older
  buf,        \* the month whose field each slot holds
  ram,        \* the particles in all_particles
  time,       \* p.time
  reason,     \* p.reason, remembered after the particle left the RAM
  todo,       \* buckets the current pass over all_particles has still to visit
  active,     \* the bucket it is visiting
  recs,       \* records of that bucket waiting to be written
  released, landed, neverland, boring,   \* the per-day totals
  header,     \* record count in the header of each day's file, 0: no file
  body        \* the records in its members

progress == <<pc, todo, active, recs>>
month    == <<cur, older, buf>>
fates    == <<ram, time, reason>>
totals   == <<released, landed, neverland, boring>>
files    == <<header, body>>
vars     == <<progress, month, fates, totals, files>>

NoMonth    == StartMonth - LookBack - 2
EndReasons == {"none", "landed", "neverleft", "lifetime"}
Phases     == {"load", "spawn", "propagate", "retire", "create", "bump",
               "append", "advance", "tally", "done", "dead"}

\* The buckets of all_particles.  An emptied bucket is erased, so a day has a
\* bucket exactly while one of its particles is in RAM.
Buckets     == {p[1] : p \in ram}
Bucket(d)   == {p \in ram : p[1] = d}
Age(p)      == p[1] - time[p]
WinBeg      == MonthBegin[cur]

\* The release days whose midnight falls in the window of month m.
DaysOfToNextMidnight(m) == {d \in ReleaseDays : MonthBegin[m] <= d /\ d <= MonthBegin[m + 1]}
DaysOfWithoutLast(m)    == {d \in ReleaseDays : MonthBegin[m] <= d /\ d + Day < MonthBegin[m + 1]}
DaysOf(m)               == {d \in ReleaseDays : InMonth(d, m)}

\* The condition of the while loop in propagateWindow, and the lifetime test.
MovingWhateverReason(p) == time[p] >= WinBeg
Moving(p)               == reason[p] = "none" /\ time[p] >= WinBeg
ExpiredAfter(p) == Age(p) > Life
Expired(p)      == Age(p) >= Life

\* Whether the driver prefetches a month on going back to month m, and which.
PrefetchesAtFirst(m) == m >= FirstMonth
Prefetches(m)        == m > FirstMonth
PrefetchedAgain(m) == m
Prefetched(m)      == m - 1

PickMonth(t) == IF InMonth(t, buf[older]) THEN buf[older] ELSE buf[1 - older]

\* Whether a day's records start a file or extend one.
WriteModeTruncating(d) == "create"
WriteMode(d)           == IF header[d] > 0 THEN "bump" ELSE "create"

Ended(d, why) == {p \in Bucket(d) : reason[p] = why}

-----------------------------------------------------------------------------

Init ==
  /\ pc = "load"
  /\ cur = EndMonth
  /\ older = 0
  /\ buf = [i \in {0, 1} |-> NoMonth]
  /\ ram = {}
  /\ time = [p \in Particles |-> p[1]]
  /\ reason = [p \in Particles |-> "none"]
  /\ todo = {} /\ active = NoDay /\ recs = {}
  /\ released = [d \in ReleaseDays |-> 0]
  /\ landed = [d \in ReleaseDays |-> 0]
  /\ neverland = [d \in ReleaseDays |-> 0]
  /\ boring = [d \in ReleaseDays |-> 0]
  /\ header = Prior /\ body = [d \in ReleaseDays |-> {}]

\* Load the month of the last release and the one before it.
LoadFirst ==
  /\ pc = "load"
  /\ buf' = [buf EXCEPT ![older] = cur, ![1 - older] = Prefetched(cur)]
  /\ pc' = "spawn"
  /\ UNCHANGED <<todo, active, recs, cur, older, fates, totals, files>>

\* Release every day of the current month that lies in the release window,
\* then start propagating the buckets there are.
Spawn ==
  /\ pc = "spawn"
  /\ released' = [d \in ReleaseDays |->
                    released[d] + (IF d \in DaysOf(cur) THEN Cardinality(Seeds) ELSE 0)]
  /\ ram' = ram \cup (DaysOf(cur) \X Seeds)
  /\ todo' = Buckets \cup DaysOf(cur)
  /\ pc' = "propagate"
  /\ UNCHANGED <<active, recs, month, time, reason, landed, neverland, boring, files>>

\* The iteration over all_particles, whose order is unspecified, reaches a
\* bucket.
EnterBucket(d) ==
  /\ pc = "propagate" /\ active = NoDay /\ d \in todo
  /\ active' = d
  /\ UNCHANGED <<pc, todo, recs, month, fates, totals, files>>

\* One iteration of that loop for one particle of the bucket, by whichever
\* worker thread has it.
Step(p) ==
  /\ pc = "propagate" /\ p \in Bucket(active) /\ Moving(p)
  /\ \/ /\ Expired(p)
        /\ reason' = [reason EXCEPT ![p] = "lifetime"]
        /\ UNCHANGED time
     \/ /\ ~Expired(p) /\ Age(p) >= Grace               \* and it is near land
        /\ reason' = [reason EXCEPT ![p] = "landed"]
        /\ UNCHANGED time
     \/ /\ ~Expired(p)                                  \* Euler step
        /\ time' = [time EXCEPT ![p] = @ - Dt]
        /\ UNCHANGED reason
  /\ UNCHANGED <<progress, month, ram, totals, files>>

\* parallel_for returns when no particle of the bucket can move any more.
LeaveBucket ==
  /\ pc = "propagate" /\ active # NoDay
  /\ \A p \in Bucket(active) : ~Moving(p)
  /\ todo' = todo \ {active}
  /\ active' = NoDay
  /\ UNCHANGED <<pc, recs, month, fates, totals, files>>

\* propagateWindow returns; the second pass over the buckets begins.
EndWindow ==
  /\ pc = "propagate" /\ active = NoDay /\ todo = {}
  /\ pc' = "retire"
  /\ todo' = Buckets
  /\ UNCHANGED <<active, recs, month, fates, totals, files>>

\* Drop the ended particles of one bucket from RAM and count them; if some
\* have landed their records are written next.
Retire(d) ==
  /\ pc = "retire" /\ d \in todo
  /\ ram' = {p \in ram : p[1] = d => reason[p] = "none"}
  /\ landed' = [landed EXCEPT ![d] = @ + Cardinality(Ended(d, "landed"))]
  /\ boring' = [boring EXCEPT ![d] = @ + Cardinality(Ended(d, "neverleft"))]
  /\ neverland' = [neverland EXCEPT ![d] = @ + Cardinality(Ended(d, "lifetime"))]
  /\ todo' = todo \ {d}
  /\ recs' = Ended(d, "landed")
  /\ IF Ended(d, "landed") = {}
     THEN pc' = "retire" /\ active' = NoDay
     ELSE pc' = WriteMode(d) /\ active' = d
  /\ UNCHANGED <<month, time, reason, released, files>>

\* write_records_gzip(append = false): a new file with header and member.
CreateFile ==
  /\ pc = "create"
  /\ header' = [header EXCEPT ![active] = Cardinality(recs)]
  /\ body' = [body EXCEPT ![active] = recs]
  /\ pc' = "retire" /\ active' = NoDay /\ recs' = {}
  /\ UNCHANGED <<todo, month, fates, totals>>

\* write_records_gzip(append = true) first raises the record count in the
\* header of the first member ...
BumpHeader ==
  /\ pc = "bump"
  /\ header' = [header EXCEPT ![active] = @ + Cardinality(recs)]
  /\ pc' = "append"
  /\ UNCHANGED <<body, todo, active, recs, month, fates, totals>>

\* ... and then reopens the file to append the member itself.
AppendMember ==
  /\ pc = "append"
  /\ body' = [body EXCEPT ![active] = @ \cup recs]
  /\ pc' = "retire" /\ active' = NoDay /\ recs' = {}
  /\ UNCHANGED <<header, todo, month, fates, totals>>

EndRetire ==
  /\ pc = "retire" /\ todo = {}
  /\ pc' = "advance"
  /\ UNCHANGED <<todo, active, recs, month, fates, totals, files>>

\* Go back one month: the slots swap roles and the slot of the month just
\* finished is reloaded, unless no earlier month is needed.
Advance ==
  /\ pc = "advance"
  /\ cur' = cur - 1
  /\ older' = 1 - older
  /\ buf' = IF Prefetches(cur - 1)
            THEN [buf EXCEPT ![older] = Prefetched(cur - 1)] ELSE buf
  /\ pc' = IF cur - 1 >= FirstMonth THEN "spawn" ELSE "tally"
  /\ UNCHANGED <<todo, active, recs, fates, totals, files>>

\* What is left in RAM is counted as never landed.
Tally ==
  /\ pc = "tally"
  /\ neverland' = [d \in ReleaseDays |-> neverland[d] + Cardinality(Ended(d, "none"))]
  /\ ram' = {}
  /\ pc' = "done"
  /\ UNCHANGED <<todo, active, recs, month, time, reason, released, landed, boring, files>>

\* The process is killed, or an exception (a month that cannot be loaded, a
\* field without sea points, a file that cannot be written) reaches main's
\* handler.  Memory is lost, the files stay as they are.
Die ==
  /\ pc \notin {"done", "dead"}
  /\ pc' = "dead"
  /\ UNCHANGED <<todo, active, recs, month, fates, totals, files>>

Work ==
  \/ LoadFirst \/ Spawn \/ LeaveBucket \/ EndWindow
  \/ CreateFile \/ BumpHeader \/ AppendMember
  \/ EndRetire \/ Advance \/ Tally
  \/ \E d \in ReleaseDays : EnterBucket(d) \/ Retire(d)
  \/ \E p \in Particles : Step(p)

Next == Work \/ Die

Spec     == Init /\ [][Next]_vars
\* The driver never blocks: as long as it is alive some thread is running.
FairSpec == Spec /\ WF_vars(Work)

-----------------------------------------------------------------------------
(***************************************************************************)
(* Properties                                                              *)
(***************************************************************************)

\* Every variable has its type; the month counter stops one month before the
\* first one and no month outside the simulated span is ever loaded.
TypeOK ==
  /\ pc \in Phases
  /\ cur \in FirstMonth - 1 .. EndMonth
  /\ older \in {0, 1}
  /\ buf \in [{0, 1} -> (FirstMonth .. EndMonth) \cup {NoMonth}]
  /\ ram \subseteq Particles
  /\ time \in [Particles -> Int]
  /\ reason \in [Particles -> EndReasons]
  /\ todo \subseteq ReleaseDays
  /\ active \in ReleaseDays \cup {NoDay}
  /\ recs \subseteq Particles
  /\ released \in [ReleaseDays -> Nat] /\ landed \in [ReleaseDays -> Nat]
  /\ neverland \in [ReleaseDays -> Nat] /\ boring \in [ReleaseDays -> Nat]
  /\ header \in [ReleaseDays -> Nat]
  /\ body \in [ReleaseDays -> SUBSET Particles]

\* A particle is never advected with the field of a month other than the one
\* its clock is in, although pickMonth falls back on the newer slot without
\* looking at it and that slot is stale in the last window.
RightMonth ==
  pc = "propagate" =>
    \A p \in Bucket(active) : Moving(p) => InMonth(time[p], PickMonth(time[p]))

\* Beaching counts only between the grace period and the lifetime, and no
\* particle drifts more than one step beyond its lifetime.
FateAges ==
  \A p \in Particles :
    /\ reason[p] = "landed" => Grace <= Age(p) /\ Age(p) < Life
    /\ reason[p] = "lifetime" => Life <= Age(p)
    /\ Age(p) < Life + Dt

\* Particles the main loop leaves in RAM may be counted with those whose
\* lifetime expired: by then each of them has outlived it.
SurvivorsExpired ==
  pc = "tally" => \A p \in ram : Age(p) >= Life

\* At any moment the particles released on a day are the ones counted under
\* some end plus the ones still in RAM: none is lost or counted twice.
Accounted ==
  \A d \in ReleaseDays :
    released[d] = landed[d] + neverland[d] + boring[d] + Cardinality(Bucket(d))

\* The beached particles of day d that have left the RAM.
Beached(d) == {p \in Particles \ ram : p[1] = d /\ reason[p] = "landed"}
Writing(d) == active = d /\ pc \in {"create", "bump", "append", "dead"}

\* A day's file holds the record of every beached particle that left the RAM,
\* except those being written, and its header counts them on top of what an
\* earlier run left.  Even when the process dies between the two halves of an
\* append the header can only promise too much, never too little.  No stream
\* loses bytes here; what happens if one does is the subject of Pkd1Gzip.
FileAgrees ==
  \A d \in ReleaseDays :
    /\ body[d] \subseteq Beached(d)
    /\ header[d] >= Prior[d] + Cardinality(body[d])
    /\ header[d] <= Prior[d] + landed[d]
    /\ ~Writing(d) => /\ body[d] = Beached(d)
                      /\ header[d] = Prior[d] + landed[d]

\* Seen from outside, the driver is a ledger of particle fates: one release
\* each, one final fate each, a durable record of beached particles only.
Fate == [p \in Particles |->
           CASE reason[p] = "landed" -> "landed"
             [] reason[p] = "lifetime" -> "expired"
             [] OTHER -> IF released[p[1]] = 0 THEN "unreleased"
                         ELSE IF p \in ram THEN "afloat" ELSE "expired"]
Archived == UNION {body[d] : d \in ReleaseDays}

Ledger == INSTANCE ParticleLedger WITH fate <- Fate, archived <- Archived
ImplementsLedger == Ledger!LedgerSpec

\* Unless the process dies the run comes to its end, and by then every day of
\* the release window has been released once and all its particles settled.
RunSettles ==
  <>(\/ pc = "dead"
     \/ /\ pc = "done"
        /\ \A d \in ReleaseDays :
             /\ released[d] = Cardinality(Seeds)
             /\ released[d] = landed[d] + neverland[d])

=============================================================================
