-------------------------- MODULE HpcTrajectories --------------------------
(***************************************************************************)
(* The reconstruction driver, examples/hpc_trajectories.cpp.  Seeds become *)
(* particles when the month loop, running backwards, reaches their month;  *)
(* particles step back on an integer time grid and collect one sample per  *)
(* step until they reach their stop target or a guard ends them.  Each     *)
(* trajectory is written to a position and to a velocity file.             *)
(*                                                                         *)
(* Seeds come from the loader: times are on the grid and no stop is later  *)
(* than its start, which main() checks.  Positions and velocities are      *)
(* abstract.                                                               *)
(***************************************************************************)
EXTENDS Integers, Sequences, SequencesExt

CONSTANTS
  Seeds,        \* the records of the seed file
  Start, Stop,  \* their start index, and their stop index or NoIdx
  NoIdx,
  Day,          \* ticks per day
  Dt,           \* base_dt_s, in ticks
  Life,         \* life_limit_seconds
  MaxEmpty,     \* max_empty_neighbors (10)
  MaxFast,      \* too fast steps tolerated in a row (4)
  FirstMonth,   \* start_release.addMonths(-24).beginOfMonth()
  EndMonth,     \* end_release.beginOfMonth()
  MonthBegin,   \* the first tick of every month
  NoDay,        \* "no bucket is being worked on"
  Workers       \* worker threads, numbered in the order of done_tls

Months        == FirstMonth - 1 .. EndMonth + 1
InMonth(t, m) == MonthBegin[m] <= t /\ t < MonthBegin[m + 1]
Files         == {"pos", "vel"}

ASSUME TrajectoryAssumption ==
  /\ Day \in Nat \ {0} /\ Dt \in Nat \ {0} /\ Life \in Nat \ {0}
  /\ MaxEmpty \in Nat /\ MaxFast \in Nat /\ Workers \in Nat \ {0}
  /\ FirstMonth \in Int /\ EndMonth \in Int /\ FirstMonth <= EndMonth
  /\ MonthBegin \in [Months -> Int]
  /\ \A m \in FirstMonth - 1 .. EndMonth : MonthBegin[m] < MonthBegin[m + 1]
  /\ NoIdx \notin Int /\ NoDay \notin Int
  /\ Start \in [Seeds -> Int] /\ Stop \in [Seeds -> Int \cup {NoIdx}]
  /\ \A s \in Seeds : Stop[s] \in Int => Stop[s] <= Start[s]

-----------------------------------------------------------------------------

VARIABLES
  pc,          \* where main() is
  cur, older, buf,  \* cur_month and the two slots with their months
  todo,        \* days of all_particles the parallel loops have still to visit
  active,      \* the day being propagated
  pending,     \* seeds in bym, waiting for their month
  ram,         \* seeds whose particle is in all_particles
  idx,         \* p.time_idx
  ended,       \* p.reason # none
  traj,        \* p.traj: the least index and the number of samples
  empty, fast, \* the streaks of the current window
  done_tls,    \* finished trajectories of every worker
  cargo,       \* the trajectory being written
  file,        \* the trajectories added to each writer
  closed       \* the writers that have been closed, hence readable files

month    == <<cur, older, buf>>
loop     == <<todo, active>>
particle == <<idx, ended, traj, empty, fast>>
output   == <<cargo, file, closed>>
vars     == <<pc, month, loop, pending, ram, particle, done_tls, output>>

NoMonth == FirstMonth - 2
NoCargo == <<>>
NoTraj  == [first |-> NoIdx, n |-> 0]

\* Integer division of C++ truncates towards zero.
Truncated(a, b) == IF a >= 0 THEN a \div b ELSE -((-a) \div b)

\* The lower bound of the window in indices.
WindowFirstEarly == Truncated(MonthBegin[cur], Dt) - 1
WindowFirst      == Truncated(MonthBegin[cur], Dt)

DayOf(s)  == (Start[s] * Dt) \div Day
Bucket(d) == {s \in ram : DayOf(s) = d}

\* The seeds of a month, and those of all months the loop visits.
OfMonthBeforeItsLastDay(m) == {s \in Seeds : InMonth(Start[s] * Dt, m) /\ InMonth(Start[s] * Dt + Day, m)}
OfMonth(m)                 == {s \in Seeds : InMonth(Start[s] * Dt, m)}
Visited == {s \in Seeds : \E m \in FirstMonth .. EndMonth : InMonth(Start[s] * Dt, m)}

\* The condition of the while loop in propagateWindow, and what is tested in it.
Moving(s) == ~ended[s] /\ idx[s] >= WindowFirst /\ (Stop[s] # NoIdx => idx[s] >= Stop[s])
AtStopBehind(s) == Stop[s] # NoIdx /\ idx[s] < Stop[s]
AtStop(s)       == Stop[s] # NoIdx /\ idx[s] = Stop[s]
ExpiredAfter(s) == (Start[s] - idx[s]) * Dt > Life
Expired(s)      == (Start[s] - idx[s]) * Dt >= Life

\* The trajectory with a sample appended at the current index; where no sea
\* point is around the sample has a position but no velocity.
Sampled(s) == [first |-> IF traj[s].n = 0 \/ idx[s] < traj[s].first
                         THEN idx[s] ELSE traj[s].first,
               n     |-> traj[s].n + 1]
SampledAtSeaOnly(s) == traj[s]
SampledOffSea(s)    == Sampled(s)

PickMonth(t) == IF InMonth(t, buf[older]) THEN buf[older] ELSE buf[1 - older]

\* Where an exception leads: out of main's try block, through the destructors.
AfterThrowOn == IF pc = "vel" THEN IF cur >= FirstMonth THEN "flush" ELSE "survivors"
                ELSE "unwind"
AfterThrow   == "unwind"

-----------------------------------------------------------------------------

Init ==
  /\ pc = "load" /\ cur = EndMonth /\ older = 0 /\ buf = [i \in {0, 1} |-> NoMonth]
  /\ todo = {} /\ active = NoDay
  /\ pending = Seeds /\ ram = {}
  /\ idx = Start /\ ended = [s \in Seeds |-> FALSE] /\ traj = [s \in Seeds |-> NoTraj]
  /\ empty = [s \in Seeds |-> 0] /\ fast = [s \in Seeds |-> 0]
  /\ done_tls = [w \in 1 .. Workers |-> <<>>]
  /\ cargo = NoCargo /\ file = [f \in Files |-> <<>>] /\ closed = {}

LoadFirst ==
  /\ pc = "load"
  /\ buf' = [buf EXCEPT ![older] = cur, ![1 - older] = cur - 1]
  /\ pc' = "activate"
  /\ UNCHANGED <<cur, older, loop, pending, ram, particle, done_tls, output>>

\* activate_month, and the start of propagateWindow.
Activate ==
  /\ pc = "activate"
  /\ ram' = ram \cup (pending \cap OfMonth(cur))
  /\ pending' = pending \ OfMonth(cur)
  /\ todo' = {DayOf(s) : s \in ram'}
  /\ empty' = [s \in Seeds |-> 0] /\ fast' = [s \in Seeds |-> 0]
  /\ pc' = "propagate"
  /\ UNCHANGED <<month, active, idx, ended, traj, done_tls, output>>

EnterBucket(d) ==
  /\ pc = "propagate" /\ active = NoDay /\ d \in todo
  /\ active' = d
  /\ UNCHANGED <<pc, month, todo, pending, ram, particle, done_tls, output>>

\* Worker w ends a particle: the trajectory t moves to the worker's list.
Finish(w, s, t) ==
  /\ ended' = [ended EXCEPT ![s] = TRUE]
  /\ done_tls' = [done_tls EXCEPT ![w] = Append(@, [seed |-> s, first |-> t.first, n |-> t.n])]
  /\ traj' = [traj EXCEPT ![s] = NoTraj]
  /\ UNCHANGED idx

\* The particle goes on to the step before, with the trajectory t.
GoOn(s, t) ==
  /\ traj' = [traj EXCEPT ![s] = t]
  /\ idx' = [idx EXCEPT ![s] = @ - 1]
  /\ UNCHANGED <<ended, done_tls>>

\* One iteration of that loop in worker w.  (The test that the index fits in
\* 32 bits is left out.)
ReachStop(w, s) ==
  /\ AtStop(s)
  /\ Finish(w, s, Sampled(s))
  /\ UNCHANGED <<empty, fast>>

Expire(w, s) ==
  /\ ~AtStop(s) /\ Expired(s)
  /\ Finish(w, s, traj[s])
  /\ UNCHANGED <<empty, fast>>

NoSea(w, s) ==
  /\ ~AtStop(s) /\ ~Expired(s)
  /\ empty' = [empty EXCEPT ![s] = @ + 1]
  /\ IF empty[s] + 1 > MaxEmpty THEN Finish(w, s, SampledOffSea(s)) ELSE GoOn(s, SampledOffSea(s))
  /\ UNCHANGED fast

\* Speeds: "fast" ones are tolerated for a while, one whose step would be
\* longer than the slack allows ends the particle at once.
Sail(w, s, speed) ==
  /\ ~AtStop(s) /\ ~Expired(s)
  /\ empty' = [empty EXCEPT ![s] = 0]
  /\ fast' = [fast EXCEPT ![s] = IF speed = "slow" THEN 0 ELSE @ + 1]
  /\ IF fast'[s] > MaxFast \/ speed = "absurd"
     THEN Finish(w, s, Sampled(s)) ELSE GoOn(s, Sampled(s))

Step(w, s) ==
  /\ pc = "propagate" /\ s \in Bucket(active) /\ Moving(s)
  /\ \/ ReachStop(w, s)
     \/ Expire(w, s)
     \/ NoSea(w, s)
     \/ \E speed \in {"slow", "fast", "absurd"} : Sail(w, s, speed)
  /\ UNCHANGED <<pc, month, loop, pending, ram, output>>

LeaveBucket ==
  /\ pc = "propagate" /\ active # NoDay
  /\ \A s \in Bucket(active) : ~Moving(s)
  /\ todo' = todo \ {active}
  /\ active' = NoDay
  /\ UNCHANGED <<pc, month, pending, ram, particle, done_tls, output>>

EndWindow ==
  /\ pc = "propagate" /\ active = NoDay /\ todo = {}
  /\ pc' = "flush"
  /\ UNCHANGED <<month, loop, pending, ram, particle, done_tls, output>>

\* flush_to, first half: one trajectory goes to the position file.
WritePos(t) ==
  /\ file' = [file EXCEPT !["pos"] = Append(@, t)]
  /\ cargo' = t
  /\ pc' = "vel"
  /\ UNCHANGED <<month, loop, pending, ram, idx, ended, empty, fast, closed>>

\* The workers' lists are flushed one after the other by the main thread.
FlushFinished(w) ==
  /\ pc = "flush" /\ done_tls[w] # <<>> /\ \A v \in 1 .. w - 1 : done_tls[v] = <<>>
  /\ WritePos(Head(done_tls[w]))
  /\ done_tls' = [done_tls EXCEPT ![w] = Tail(@)]
  /\ UNCHANGED traj

\* After the month loop the survivors follow, in no particular order.
FlushSurvivor(s) ==
  /\ pc = "survivors" /\ s \in ram /\ traj[s].n > 0
  /\ WritePos([seed |-> s, first |-> traj[s].first, n |-> traj[s].n])
  /\ traj' = [traj EXCEPT ![s] = NoTraj]
  /\ UNCHANGED done_tls

\* flush_to, second half: the same trajectory goes to the velocity file.
WriteVel ==
  /\ pc = "vel"
  /\ file' = [file EXCEPT !["vel"] = Append(@, cargo)]
  /\ cargo' = NoCargo
  /\ pc' = IF cur >= FirstMonth THEN "flush" ELSE "survivors"
  /\ UNCHANGED <<month, loop, pending, ram, particle, done_tls, closed>>

\* Ended particles leave all_particles.
Retire ==
  /\ pc = "flush" /\ \A w \in 1 .. Workers : done_tls[w] = <<>>
  /\ ram' = {s \in ram : ~ended[s]}
  /\ pc' = "advance"
  /\ UNCHANGED <<month, loop, pending, particle, done_tls, output>>

AdvanceStuck ==
  /\ pc = "advance"
  /\ cur' = cur
  /\ older' = 1 - older
  /\ buf' = IF cur - 1 > FirstMonth THEN [buf EXCEPT ![older] = cur - 2] ELSE buf
  /\ pc' = IF cur >= FirstMonth THEN "activate" ELSE "survivors"
  /\ UNCHANGED <<loop, pending, ram, particle, done_tls, output>>
Advance ==
  /\ pc = "advance"
  /\ cur' = cur - 1
  /\ older' = 1 - older
  /\ buf' = IF cur - 1 > FirstMonth THEN [buf EXCEPT ![older] = cur - 2] ELSE buf
  /\ pc' = IF cur - 1 >= FirstMonth THEN "activate" ELSE "survivors"
  /\ UNCHANGED <<loop, pending, ram, particle, done_tls, output>>

EndSurvivors ==
  /\ pc = "survivors" /\ \A s \in ram : traj[s].n = 0
  /\ pc' = "close"
  /\ UNCHANGED <<month, loop, pending, ram, particle, done_tls, output>>

\* Closing makes a file readable; main closes the position file first.
ClosePos ==
  /\ pc = "close"
  /\ closed' = closed \cup {"pos"} /\ pc' = "close_vel"
  /\ UNCHANGED <<month, loop, pending, ram, particle, done_tls, cargo, file>>

CloseVel ==
  /\ pc = "close_vel"
  /\ closed' = closed \cup {"vel"} /\ pc' = "done"
  /\ UNCHANGED <<month, loop, pending, ram, particle, done_tls, cargo, file>>

\* An exception: a month cannot be loaded, a block or a table not written.
Throw ==
  /\ pc \notin {"unwind", "unwind_pos", "done", "dead"}
  /\ pc' = AfterThrow
  /\ UNCHANGED <<month, loop, pending, ram, particle, done_tls, output>>

\* The destructors close what is open, the velocity file first, and swallow
\* the exception if that fails too.
Unwind(f) ==
  /\ pc = (IF f = "vel" THEN "unwind" ELSE "unwind_pos")
  /\ pc' = (IF f = "vel" THEN "unwind_pos" ELSE "dead")
  /\ closed' \in {closed, closed \cup {f}}
  /\ UNCHANGED <<month, loop, pending, ram, particle, done_tls, cargo, file>>

\* The process is killed.
Die ==
  /\ pc \notin {"done", "dead"}
  /\ pc' = "dead"
  /\ UNCHANGED <<month, loop, pending, ram, particle, done_tls, output>>

Progress ==
  \/ LoadFirst \/ Activate \/ LeaveBucket \/ EndWindow
  \/ WriteVel \/ Retire \/ Advance \/ EndSurvivors \/ ClosePos \/ CloseVel
  \/ \E d \in todo : EnterBucket(d)
  \/ \E w \in 1 .. Workers : FlushFinished(w) \/ \E s \in Seeds : Step(w, s)
  \/ \E s \in Seeds : FlushSurvivor(s)
  \/ \E f \in Files : Unwind(f)

Next == Progress \/ Throw \/ Die

Spec == Init /\ [][Next]_vars

\* The threads keep running, unless the process is killed.
FairSpec == Spec /\ WF_vars(Progress)

-----------------------------------------------------------------------------
(***************************************************************************)
(* Properties                                                              *)
(***************************************************************************)

\* Types; a particle is pending or in memory, never both, and what has left
\* memory has ended.
Records == [seed : Seeds, first : Int, n : Nat \ {0}]

TypeOK ==
  /\ cur \in FirstMonth - 1 .. EndMonth /\ older \in {0, 1}
  /\ buf \in [{0, 1} -> Int]
  /\ pending \cap ram = {} /\ \A s \in Seeds \ (pending \cup ram) : ended[s]
  /\ idx \in [Seeds -> Int] /\ ended \in [Seeds -> BOOLEAN]
  /\ \A s \in Seeds : traj[s] = NoTraj \/ traj[s] \in [first : Int, n : Nat \ {0}]
  /\ \A s \in Seeds : empty[s] \in 0 .. MaxEmpty + 1 /\ fast[s] \in 0 .. MaxFast + 1
  /\ done_tls \in [1 .. Workers -> Seq(Records)]
  /\ cargo \in Records \cup {NoCargo}
  /\ file \in [Files -> Seq(Records)] /\ closed \subseteq Files

\* A particle is advected with the field of another month only at one index of
\* a window, the one that truncation puts before the window's begin: such an
\* index exists if the month begins off the grid, which no step that divides a
\* day makes possible and which main() does not exclude (l. 499; the comment on
\* that bound, l. 289, calls it exact).  Nor is the field another one there
\* unless the window is the last, whose second slot still holds the month after
\* it, or the step reaches beyond the whole month before.
RightMonth ==
  pc = "propagate" => \A s \in Bucket(active) : LET t == idx[s] * Dt IN
    Moving(s) /\ ~AtStop(s) /\ ~Expired(s) /\ ~InMonth(t, PickMonth(t)) =>
      /\ MonthBegin[cur] - Dt < t /\ t < MonthBegin[cur] /\ t >= 0
      /\ cur = FirstMonth \/ t < MonthBegin[cur - 1]

\* The file format stores the index of the first sample and the number of
\* samples; the times a reader computes from them are those of the samples
\* only if a trajectory has no gaps and ends where its seed started.  Nor does
\* it go beyond its stop or, by a step or more, beyond its lifetime.
TimesDecode ==
  \A f \in Files : \A r \in ToSet(file[f]) :
    /\ r.first + r.n - 1 = Start[r.seed]
    /\ Stop[r.seed] # NoIdx => r.first >= Stop[r.seed]
    /\ (Start[r.seed] - r.first) * Dt < Life + (IF r.first = Stop[r.seed] THEN Dt ELSE 0)

\* Every seed of a visited month is written once to each file, although its
\* trajectory passes through several hands: the particle, the list of the
\* worker that ended it, the pass over the survivors.
WrittenOnce ==
  /\ \A f \in Files : \A i, j \in DOMAIN file[f] : file[f][i].seed = file[f][j].seed => i = j
  /\ pc = "done" => \A f \in Files : {r.seed : r \in ToSet(file[f])} = Visited

\* The n-th velocity record belongs to the n-th position record, whatever goes
\* wrong: the velocity file lags behind by at most the record being written.
Paired ==
  /\ IsPrefix(file["vel"], file["pos"])
  /\ Len(file["pos"]) - Len(file["vel"]) \in {0, 1}
  /\ pc = "done" => file["pos"] = file["vel"] /\ closed = Files

\* Memory holds only particles with something left to do: before a month is
\* propagated each is unended, short of its stop, and its clock below the end
\* of that month.
NoLingering ==
  pc = "activate" => \A s \in ram :
    /\ ~ended[s]
    /\ Stop[s] # NoIdx => idx[s] >= Stop[s]
    /\ idx[s] * Dt < MonthBegin[cur + 1]

\* Unless the process is killed or an exception ends it, every seed of a visited
\* month gets into both files and these are closed: no step of the month loop,
\* the parallel loops or the flushes is repeated for ever.
AllDelivered ==
  <>(\/ pc = "dead"
     \/ closed = Files /\ \A f \in Files : {r.seed : r \in ToSet(file[f])} = Visited)

=============================================================================
