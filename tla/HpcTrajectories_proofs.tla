----------------------- MODULE HpcTrajectories_proofs -----------------------
(***************************************************************************)
(* Proofs about HpcTrajectories, for every calendar, set of seeds, step,   *)
(* lifetime and number of workers: every seed of a visited month is        *)
(* written once to each file, with times that a reader can compute, and no *)
(* particle is advected with the field of another month but where a window *)
(* begins off the grid of the steps.                                       *)
(***************************************************************************)
EXTENDS HpcTrajectories, TLAPS

\* What TimesDecode asks of one record.
Decodes(r) ==
  /\ r.first + r.n - 1 = Start[r.seed]
  /\ Stop[r.seed] # NoIdx => r.first >= Stop[r.seed]
  /\ (Start[r.seed] - r.first) * Dt < Life + (IF r.first = Stop[r.seed] THEN Dt ELSE 0)

Good == {r \in Records : Decodes(r)}

SeedsOf(q)  == {q[i].seed : i \in DOMAIN q}
Distinct(q) == \A i, j \in DOMAIN q : q[i].seed = q[j].seed => i = j

Listed(s)  == \E w \in 1 .. Workers : s \in SeedsOf(done_tls[w])
Written(s) == s \in SeedsOf(file["pos"])

\* The phases in which a window has been propagated.
Propagated == pc \in {"flush", "advance"} \/ (pc = "vel" /\ cur >= FirstMonth)

\* The phases before and after the month loop.
Stopped == {"unwind", "unwind_pos", "dead"}
Ending  == {"survivors", "close", "close_vel", "done"}

Trajs == [first : Int, n : Nat \ {0}]

Types ==
  /\ pc \in {"load", "activate", "propagate", "flush", "vel", "advance"} \cup Ending \cup Stopped
  /\ cur \in FirstMonth - 1 .. EndMonth /\ older \in {0, 1} /\ buf \in [{0, 1} -> Int]
  /\ pending \subseteq Seeds /\ ram \subseteq Seeds
  /\ idx \in [Seeds -> Int] /\ ended \in [Seeds -> BOOLEAN]
  /\ traj \in [Seeds -> Trajs \cup {NoTraj}]
  /\ empty \in [Seeds -> Nat] /\ fast \in [Seeds -> Nat]
  /\ done_tls \in [1 .. Workers -> Seq(Good)]
  /\ cargo \in Good \cup {NoCargo}
  /\ file \in [Files -> Seq(Good)] /\ closed \subseteq Files

\* Months, and the seeds that have been activated.
FirstPending == IF pc = "propagate" \/ Propagated THEN cur ELSE cur + 1

MonthInv ==
  /\ pc \in {"load", "activate", "propagate", "flush", "advance"} => cur >= FirstMonth
  /\ pc \in Ending => cur < FirstMonth
  /\ pc \in {"activate", "propagate"} \/ Propagated =>
       buf[older] = cur /\ (cur > FirstMonth => buf[1 - older] = cur - 1)
  /\ pc = "load" => cur = EndMonth /\ ram = {}
  /\ pc \notin Stopped => pending = {s \in Seeds : \A m \in FirstPending .. EndMonth : s \notin OfMonth(m)}

\* Who holds a trajectory: its particle, one worker's list, or the file.
WhereInv ==
  /\ Distinct(file["pos"])
  /\ \A w \in 1 .. Workers : Distinct(done_tls[w])
  /\ \A v, w \in 1 .. Workers : v # w => SeedsOf(done_tls[v]) \cap SeedsOf(done_tls[w]) = {}
  /\ \A s \in Seeds : Listed(s) => ~Written(s) /\ ended[s]
  /\ \A s \in Seeds : ended[s] => Listed(s) \/ Written(s)
  /\ \A s \in Seeds : ended[s] \/ Written(s) => s \notin pending /\ traj[s] = NoTraj
  /\ pending \cap ram = {} /\ \A s \in Seeds \ (pending \cup ram) : ended[s]

\* When lists are empty, and when a particle in memory can be an ended or a
\* written one.
PhaseInv ==
  /\ \A s \in Seeds : Written(s) /\ ~ended[s] => cur < FirstMonth
  /\ pc \in {"load", "activate", "advance"} \cup Ending \/ (pc = "vel" /\ cur < FirstMonth) =>
       \A w \in 1 .. Workers : done_tls[w] = <<>>
  /\ pc \in {"activate", "advance"} => \A s \in ram : ~ended[s]

\* A particle's clock, trajectory and streaks.
SeedInv(s) ==
  /\ idx[s] <= Start[s]
  /\ empty[s] <= MaxEmpty + 1 /\ fast[s] <= MaxFast + 1
  /\ ~ended[s] => /\ empty[s] <= MaxEmpty /\ fast[s] <= MaxFast
                  /\ Stop[s] # NoIdx => Stop[s] <= idx[s]
  /\ traj[s] # NoTraj => /\ traj[s].first = idx[s] + 1 /\ traj[s].n = Start[s] - idx[s]
                         /\ (Start[s] - (idx[s] + 1)) * Dt < Life
  /\ s \in pending => traj[s] = NoTraj
  /\ ~ended[s] /\ ~Written(s) /\ traj[s] = NoTraj => idx[s] = Start[s]

FlightInv == \A s \in Seeds : SeedInv(s)

\* Clocks against windows: a particle that has not ended is below the end of
\* the window, and once its bucket is done below the beginning.
ClockInv ==
  /\ pc \in {"activate", "propagate"} =>
       \A s \in ram : ~ended[s] => idx[s] * Dt < MonthBegin[cur + 1]
  /\ pc = "propagate" =>
       \A s \in ram : ~ended[s] /\ DayOf(s) \notin todo => idx[s] * Dt < MonthBegin[cur]
  /\ Propagated => \A s \in ram : ~ended[s] => idx[s] * Dt < MonthBegin[cur]

\* A particle without samples waits for its first window.
Fresh(s) == s \in ram /\ ~ended[s] /\ ~Written(s) /\ traj[s] = NoTraj
FreshInv ==
  /\ pc = "propagate" => \A s \in Seeds : Fresh(s) => s \in OfMonth(cur) /\ DayOf(s) \in todo
  /\ pc \notin {"propagate"} \cup Stopped => \A s \in Seeds : ~Fresh(s)
  /\ pc \in {"close", "close_vel", "done"} => \A s \in Seeds \ pending : Written(s)

\* The velocity file follows the position file.
PairInv ==
  /\ pc = "vel" => cargo \in Good /\ file["pos"] = Append(file["vel"], cargo)
  /\ pc \notin {"vel"} \cup Stopped => file["pos"] = file["vel"]
  /\ file["pos"] = file["vel"] \/ \E r \in Good : file["pos"] = Append(file["vel"], r)
  /\ pc = "close_vel" => "pos" \in closed
  /\ pc = "done" => closed = Files

IInv == Types /\ MonthInv /\ WhereInv /\ PhaseInv /\ FlightInv /\ ClockInv /\ FreshInv /\ PairInv

-----------------------------------------------------------------------------
(***************************************************************************)
(* Arithmetic of the grid                                                  *)
(***************************************************************************)

LEMMA Quotient ==
  ASSUME NEW x \in Int, NEW d \in Nat \ {0}
  PROVE  /\ x \div d \in Int /\ x % d \in Int
         /\ x = d * (x \div d) + (x % d) /\ 0 <= x % d /\ x % d < d
OBVIOUS

LEMMA ProductStep ==
  ASSUME NEW p \in Int, NEW q \in Int, NEW d \in Nat \ {0}, p < q
  PROVE  p * d \in Int /\ q * d \in Int /\ p * d + d <= q * d
<1>1. p + 1 <= q
  OBVIOUS
<1>2. (p + 1) * d <= q * d
  BY <1>1
<1>3. (p + 1) * d = p * d + d
  OBVIOUS
<1>. QED  BY <1>2, <1>3

\* An index below the lower bound of a window is a time before its month.
LEMMA BelowWindow ==
  ASSUME NEW a \in Int, NEW i \in Int
  PROVE  /\ Truncated(a, Dt) \in Int
         /\ i < Truncated(a, Dt) => i * Dt < a
<1>1. Dt \in Nat \ {0}
  BY TrajectoryAssumption
<1>2. CASE a >= 0
  <2> DEFINE q == a \div Dt
             e == a % Dt
  <2>1. q \in Int /\ e \in Int /\ a = Dt * q + e /\ 0 <= e /\ e < Dt
    BY <1>1, Quotient
  <2>2. Truncated(a, Dt) = q
    BY <1>2 DEF Truncated
  <2>. HIDE DEF q, e
  <2>3. Dt * q = q * Dt /\ q * Dt \in Int /\ i * Dt \in Int
    BY <1>1, <2>1
  <2>4. i < q => i * Dt + Dt <= q * Dt
    BY <1>1, <2>1, ProductStep
  <2>. QED  BY <1>1, <2>1, <2>2, <2>3, <2>4
<1>3. CASE a < 0
  <2> DEFINE q == (-a) \div Dt
             e == (-a) % Dt
  <2>0. -a \in Int
    OBVIOUS
  <2>1. q \in Int /\ e \in Int /\ -a = Dt * q + e /\ 0 <= e /\ e < Dt
    BY <1>1, <2>0, Quotient
  <2>2. Truncated(a, Dt) = -q
    BY <1>3 DEF Truncated
  <2>. HIDE DEF q, e
  <2>3. (-q) * Dt = -(Dt * q) /\ Dt * q \in Int /\ i * Dt \in Int /\ -q \in Int
    BY <1>1, <2>1
  <2>4. i < -q => i * Dt + Dt <= (-q) * Dt
    BY <1>1, <2>3, ProductStep
  <2>. QED  BY <1>1, <2>1, <2>2, <2>3, <2>4
<1>. QED  BY <1>2, <1>3

\* The lowest index lies less than a step before the window's begin, and before
\* it only if that begin is positive: then it is not negative.
LEMMA InWindow ==
  ASSUME NEW a \in Int, NEW i \in Int, i >= Truncated(a, Dt)
  PROVE  i * Dt \in Int /\ a - Dt < i * Dt /\ (a <= i * Dt \/ 0 <= i * Dt)
<1>1. Dt \in Nat \ {0}
  BY TrajectoryAssumption
<1>2. ASSUME NEW q \in Int, i >= q  PROVE i * Dt \in Int /\ q * Dt \in Int /\ q * Dt <= i * Dt
  <2>1. i * Dt \in Int /\ q * Dt \in Int
    BY <1>1
  <2>2. q < i => q * Dt + Dt <= i * Dt
    BY <1>1, ProductStep
  <2>3. q = i => q * Dt = i * Dt
    OBVIOUS
  <2>. QED  BY <1>1, <1>2, <2>1, <2>2, <2>3
<1>3. CASE a >= 0
  <2> DEFINE q == a \div Dt
             e == a % Dt
  <2>1. q \in Int /\ e \in Int /\ a = Dt * q + e /\ 0 <= e /\ e < Dt
    BY <1>1, Quotient
  <2>2. Truncated(a, Dt) = q
    BY <1>3 DEF Truncated
  <2>. HIDE DEF q, e
  <2>3. q >= 0
    <3>. SUFFICES ASSUME q < 0  PROVE FALSE
      BY <2>1
    <3>1. q * Dt + Dt <= 0 * Dt
      BY <1>1, <2>1, ProductStep
    <3>2. q * Dt = Dt * q /\ 0 * Dt = 0 /\ Dt * q \in Int
      BY <1>1, <2>1
    <3>. QED  BY <1>1, <1>3, <2>1, <3>1, <3>2
  <2>4. 0 * Dt <= q * Dt /\ 0 * Dt = 0
    <3>1. 0 < q => 0 * Dt + Dt <= q * Dt
      BY <1>1, <2>1, ProductStep
    <3>2. 0 = q => 0 * Dt = q * Dt
      OBVIOUS
    <3>3. 0 * Dt = 0 /\ q * Dt \in Int
      BY <1>1, <2>1
    <3>. QED  BY <1>1, <2>1, <2>3, <3>1, <3>2, <3>3
  <2>5. i * Dt \in Int /\ q * Dt \in Int /\ q * Dt <= i * Dt
    BY <1>2, <2>1, <2>2
  <2>6. Dt * q = q * Dt
    BY <1>1, <2>1
  <2>. QED  BY <1>1, <2>1, <2>4, <2>5, <2>6
<1>4. CASE a < 0
  <2> DEFINE q == (-a) \div Dt
             e == (-a) % Dt
  <2>0. -a \in Int
    OBVIOUS
  <2>1. q \in Int /\ e \in Int /\ -a = Dt * q + e /\ 0 <= e /\ e < Dt
    BY <1>1, <2>0, Quotient
  <2>2. Truncated(a, Dt) = -q
    BY <1>4 DEF Truncated
  <2>. HIDE DEF q, e
  <2>3. (-q) * Dt = -(Dt * q) /\ Dt * q \in Int /\ -q \in Int
    BY <1>1, <2>1
  <2>4. i * Dt \in Int /\ (-q) * Dt <= i * Dt
    BY <1>2, <2>2, <2>3
  <2>. QED  BY <1>1, <2>1, <2>3, <2>4
<1>. QED  BY <1>3, <1>4

-----------------------------------------------------------------------------
(***************************************************************************)
(* Lists of records                                                        *)
(***************************************************************************)

LEMMA GoodIs ==
  ASSUME NEW r \in Good
  PROVE  r.seed \in Seeds /\ r.first \in Int /\ r.n \in Nat \ {0}
BY DEF Good, Records

LEMMA EmptySeeds == SeedsOf(<<>>) = {} /\ Distinct(<<>>)
BY DEF SeedsOf, Distinct

LEMMA AppendSeeds ==
  ASSUME NEW q \in Seq(Good), NEW r \in Good
  PROVE  /\ Append(q, r) \in Seq(Good)
         /\ SeedsOf(Append(q, r)) = SeedsOf(q) \cup {r.seed}
         /\ Distinct(q) /\ r.seed \notin SeedsOf(q) => Distinct(Append(q, r))
         /\ Distinct(Append(q, r)) => Distinct(q)
<1> DEFINE a == Append(q, r)
<1>1. /\ a \in Seq(Good) /\ Len(a) = Len(q) + 1 /\ Len(q) \in Nat
      /\ DOMAIN a = 1 .. Len(q) + 1 /\ DOMAIN q = 1 .. Len(q)
      /\ \A i \in 1 .. Len(q) : a[i] = q[i]
      /\ a[Len(q) + 1] = r
  OBVIOUS
<1>. HIDE DEF a
<1>2. \A i \in DOMAIN a : i \in DOMAIN q \/ i = Len(q) + 1
  BY <1>1
<1>3. DOMAIN q \subseteq DOMAIN a /\ Len(q) + 1 \in DOMAIN a /\ Len(q) + 1 \notin DOMAIN q
  BY <1>1
<1>4. SeedsOf(a) = SeedsOf(q) \cup {r.seed}
  BY <1>1, <1>2, <1>3 DEF SeedsOf
<1>5. Distinct(q) /\ r.seed \notin SeedsOf(q) => Distinct(a)
  BY <1>1, <1>2, <1>3 DEF SeedsOf, Distinct
<1>6. Distinct(a) => Distinct(q)
  BY <1>1, <1>3 DEF Distinct
<1>. QED  BY <1>1, <1>4, <1>5, <1>6 DEF a

LEMMA TailSeeds ==
  ASSUME NEW q \in Seq(Good), q # <<>>, Distinct(q)
  PROVE  /\ Tail(q) \in Seq(Good) /\ Head(q) \in Good /\ Distinct(Tail(q))
         /\ Head(q).seed \in SeedsOf(q)
         /\ SeedsOf(Tail(q)) = SeedsOf(q) \ {Head(q).seed}
<1> DEFINE t == Tail(q)
           h == Head(q)
<1>1. /\ t \in Seq(Good) /\ Len(t) = Len(q) - 1 /\ Len(q) \in Nat /\ Len(q) >= 1
      /\ DOMAIN t = 1 .. Len(q) - 1 /\ DOMAIN q = 1 .. Len(q)
      /\ \A i \in 1 .. Len(q) - 1 : t[i] = q[i + 1]
      /\ h = q[1] /\ h \in Good
  OBVIOUS
<1>. HIDE DEF t, h
<1>2. \A i \in DOMAIN t : i \in Int /\ i + 1 \in DOMAIN q /\ i + 1 # 1 /\ t[i] = q[i + 1]
  BY <1>1
<1>3. \A i \in DOMAIN q : i = 1 \/ (i - 1 \in DOMAIN t /\ t[i - 1] = q[i])
  <2>. SUFFICES ASSUME NEW i \in DOMAIN q, i # 1  PROVE i - 1 \in DOMAIN t /\ t[i - 1] = q[i]
    OBVIOUS
  <2>1. i \in Int /\ i - 1 \in 1 .. Len(q) - 1 /\ (i - 1) + 1 = i
    BY <1>1
  <2>. QED  BY <1>1, <2>1
<1>4. 1 \in DOMAIN q
  BY <1>1
<1>5. Distinct(t)
  BY <1>2 DEF Distinct
<1>6. h.seed \in SeedsOf(q)
  BY <1>1, <1>4 DEF SeedsOf
<1>7. SeedsOf(t) = SeedsOf(q) \ {h.seed}
  <2>1. SeedsOf(t) \subseteq SeedsOf(q) \ {h.seed}
    BY <1>1, <1>2, <1>4 DEF SeedsOf, Distinct
  <2>2. SeedsOf(q) \ {h.seed} \subseteq SeedsOf(t)
    BY <1>1, <1>3 DEF SeedsOf
  <2>. QED  BY <2>1, <2>2
<1>. QED  BY <1>1, <1>5, <1>6, <1>7 DEF t, h

-----------------------------------------------------------------------------
(***************************************************************************)
(* Steps of the main thread that touch no particle                         *)
(***************************************************************************)

LEMMA InitInv == Init => IInv
<1>. SUFFICES ASSUME Init  PROVE IInv
  OBVIOUS
<1>1. done_tls = [w \in 1 .. Workers |-> <<>>] /\ file = [f \in Files |-> <<>>] /\ "pos" \in Files /\ "vel" \in Files
  BY DEF Init, Files
<1>2. /\ \A w \in 1 .. Workers : done_tls[w] = <<>>
      /\ file["pos"] = <<>> /\ file["vel"] = <<>>
  BY <1>1
<1>3. \A s \in Seeds : ~Listed(s) /\ ~Written(s)
  BY <1>2, EmptySeeds DEF Listed, Written
<1>4. Types
  <2>1. done_tls \in [1 .. Workers -> Seq(Good)] /\ file \in [Files -> Seq(Good)]
    BY <1>1
  <2>2. cur \in FirstMonth - 1 .. EndMonth /\ buf \in [{0, 1} -> Int] /\ older \in {0, 1}
    BY TrajectoryAssumption DEF Init, NoMonth
  <2>. QED  BY <2>1, <2>2, TrajectoryAssumption DEF Init, Types
<1>5. MonthInv
  BY TrajectoryAssumption DEF Init, MonthInv, FirstPending, Propagated, Ending, Stopped
<1>6. WhereInv /\ PhaseInv
  BY <1>2, <1>3, EmptySeeds DEF Init, WhereInv, PhaseInv
<1>7. FlightInv
  BY <1>3, TrajectoryAssumption DEF Init, FlightInv, SeedInv
<1>8. ClockInv /\ FreshInv /\ PairInv
  BY <1>2 DEF Init, ClockInv, FreshInv, Fresh, PairInv, Propagated
<1>. QED  BY <1>4, <1>5, <1>6, <1>7, <1>8 DEF IInv

\* Such steps leave every trajectory where it is.
LEMMA QuietHolders ==
  ASSUME IInv, UNCHANGED <<done_tls, file, pending, ram, idx, ended, traj, empty, fast>>
  PROVE  /\ WhereInv' /\ FlightInv'
         /\ \A s \in Seeds : Written(s)' = Written(s) /\ Fresh(s)' = Fresh(s) /\ DayOf(s)' = DayOf(s)
<1>1. \A s \in Seeds : Written(s)' = Written(s) /\ Listed(s)' = Listed(s)
  BY DEF Written, Listed, SeedsOf
<1>2. WhereInv'
  BY <1>1 DEF IInv, WhereInv
<1>3. FlightInv'
  BY <1>1 DEF IInv, FlightInv, SeedInv
<1>. QED  BY <1>1, <1>2, <1>3 DEF Fresh, DayOf

LEMMA LoadFirstStep == ASSUME IInv, LoadFirst PROVE IInv'
<1>1. /\ pc = "load" /\ pc' = "activate"
      /\ buf' = [buf EXCEPT ![older] = cur, ![1 - older] = cur - 1]
      /\ UNCHANGED <<cur, older, todo, active, pending, ram, idx, ended, traj, empty, fast, done_tls, cargo, file, closed>>
  BY DEF LoadFirst, loop, particle, output
<1>2. cur = EndMonth /\ ram = {} /\ cur \in Int /\ older \in {0, 1} /\ buf \in [{0, 1} -> Int]
  BY <1>1, TrajectoryAssumption DEF IInv, MonthInv, Types
<1>3. buf' \in [{0, 1} -> Int] /\ buf'[older] = cur /\ buf'[1 - older] = cur - 1
  BY <1>1, <1>2
<1>4. Types'
  BY <1>1, <1>3 DEF IInv, Types
<1>5. MonthInv'
  BY <1>1, <1>2, <1>3, TrajectoryAssumption DEF IInv, MonthInv, FirstPending, Propagated, Ending, Stopped
<1>6. WhereInv' /\ FlightInv' /\ \A s \in Seeds : Written(s)' = Written(s) /\ Fresh(s)' = Fresh(s)
  BY <1>1, QuietHolders
<1>7. PhaseInv'
  BY <1>1, <1>2, <1>6 DEF IInv, PhaseInv
<1>8. ClockInv' /\ FreshInv' /\ PairInv'
  BY <1>1, <1>2, <1>6 DEF IInv, ClockInv, FreshInv, Fresh, PairInv, Propagated, Stopped
<1>. QED  BY <1>4, <1>5, <1>6, <1>7, <1>8 DEF IInv

LEMMA EnterBucketStep == ASSUME IInv, NEW d \in todo, EnterBucket(d) PROVE IInv'
<1>1. /\ pc = "propagate"
      /\ UNCHANGED <<pc, cur, older, buf, todo, pending, ram, idx, ended, traj, empty, fast, done_tls, cargo, file, closed>>
  BY DEF EnterBucket, month, particle, output
<1>2. WhereInv' /\ FlightInv' /\ \A s \in Seeds : Written(s)' = Written(s) /\ Fresh(s)' = Fresh(s)
  BY <1>1, QuietHolders
<1>3. Types' /\ MonthInv'
  BY <1>1 DEF IInv, Types, MonthInv, FirstPending, Propagated, OfMonth, InMonth
<1>4. PhaseInv'
  BY <1>1, <1>2 DEF IInv, PhaseInv
<1>5. ClockInv' /\ PairInv'
  BY <1>1 DEF IInv, ClockInv, PairInv, Propagated, DayOf
<1>6. FreshInv'
  BY <1>1, <1>2 DEF IInv, FreshInv, DayOf, OfMonth, InMonth
<1>. QED  BY <1>2, <1>3, <1>4, <1>5, <1>6 DEF IInv

LEMMA EndWindowStep == ASSUME IInv, EndWindow PROVE IInv'
<1>1. /\ pc = "propagate" /\ pc' = "flush" /\ todo = {}
      /\ UNCHANGED <<cur, older, buf, todo, pending, ram, idx, ended, traj, empty, fast, done_tls, cargo, file, closed>>
  BY DEF EndWindow, month, loop, particle, output
<1>2. WhereInv' /\ FlightInv' /\ \A s \in Seeds : Written(s)' = Written(s) /\ Fresh(s)' = Fresh(s)
  BY <1>1, QuietHolders
<1>3. Types' /\ MonthInv'
  BY <1>1 DEF IInv, Types, MonthInv, FirstPending, Propagated, OfMonth, InMonth, Ending, Stopped
<1>4. PhaseInv'
  BY <1>1, <1>2 DEF IInv, PhaseInv, Ending
<1>5. ClockInv' /\ PairInv'
  BY <1>1 DEF IInv, ClockInv, PairInv, Propagated, Stopped
<1>6. FreshInv'
  BY <1>1, <1>2 DEF IInv, FreshInv, Stopped
<1>. QED  BY <1>2, <1>3, <1>4, <1>5, <1>6 DEF IInv

LEMMA AdvanceStep == ASSUME IInv, Advance PROVE IInv'
<1>1. /\ pc = "advance" /\ cur' = cur - 1 /\ older' = 1 - older
      /\ buf' = IF cur - 1 > FirstMonth THEN [buf EXCEPT ![older] = cur - 2] ELSE buf
      /\ pc' = IF cur - 1 >= FirstMonth THEN "activate" ELSE "survivors"
      /\ UNCHANGED <<todo, active, pending, ram, idx, ended, traj, empty, fast, done_tls, cargo, file, closed>>
  BY DEF Advance, loop, particle, output
<1>2. /\ cur \in Int /\ FirstMonth \in Int /\ EndMonth \in Int /\ cur >= FirstMonth /\ cur <= EndMonth
      /\ older \in {0, 1} /\ buf \in [{0, 1} -> Int]
      /\ buf[older] = cur /\ (cur > FirstMonth => buf[1 - older] = cur - 1)
  BY <1>1, TrajectoryAssumption DEF IInv, Types, MonthInv, Propagated
<1>3. /\ buf' \in [{0, 1} -> Int] /\ older' \in {0, 1}
      /\ cur' >= FirstMonth => buf'[older'] = cur'
      /\ cur' > FirstMonth => buf'[1 - older'] = cur' - 1
  BY <1>1, <1>2
<1>4. cur' \in FirstMonth - 1 .. EndMonth
  BY <1>1, <1>2
<1>5. WhereInv' /\ FlightInv' /\ \A s \in Seeds : Written(s)' = Written(s) /\ Fresh(s)' = Fresh(s)
  BY <1>1, QuietHolders
<1>6. Types'
  BY <1>1, <1>3, <1>4 DEF IInv, Types, Ending
<1>7. /\ pc' \in {"activate", "survivors"} /\ (pc' = "activate" => cur' >= FirstMonth)
      /\ (pc' = "survivors" => cur' < FirstMonth) /\ cur' + 1 = cur
  BY <1>1, <1>2
<1>8. MonthInv'
  <2>1. pending = {s \in Seeds : \A m \in cur .. EndMonth : s \notin OfMonth(m)}
    BY <1>1 DEF IInv, MonthInv, FirstPending, Propagated, Stopped
  <2>2. FirstPending' = cur
    BY <1>7 DEF FirstPending, Propagated
  <2>3. pending' = {s \in Seeds : \A m \in FirstPending' .. EndMonth : s \notin OfMonth(m)}
    BY <1>1, <2>1, <2>2
  <2>. QED  BY <1>3, <1>7, <2>3 DEF MonthInv, Propagated, Ending, OfMonth, InMonth
<1>9. PhaseInv'
  BY <1>1, <1>2, <1>5, <1>7 DEF IInv, PhaseInv, Ending
<1>10. ClockInv'
  BY <1>1, <1>7 DEF IInv, ClockInv, Propagated
<1>11. FreshInv' /\ PairInv'
  BY <1>1, <1>5, <1>7 DEF IInv, FreshInv, PairInv, Stopped
<1>. QED  BY <1>5, <1>6, <1>8, <1>9, <1>10, <1>11 DEF IInv

\* Having samples, in two ways.
LEMMA TrajIs ==
  ASSUME Types, NEW s \in Seeds
  PROVE  /\ traj[s].n \in Nat /\ (traj[s].n = 0 <=> traj[s] = NoTraj)
         /\ traj[s] # NoTraj => traj[s] \in Trajs /\ traj[s].first \in Int /\ traj[s].n \in Nat \ {0}
<1>1. traj[s] \in Trajs \/ traj[s] = NoTraj
  BY DEF Types
<1>2. NoTraj.n = 0
  BY DEF NoTraj
<1>3. traj[s] \in Trajs => traj[s].n \in Nat \ {0} /\ traj[s].first \in Int
  BY DEF Trajs
<1>. QED  BY <1>1, <1>2, <1>3

LEMMA EndSurvivorsStep == ASSUME IInv, EndSurvivors PROVE IInv'
<1>1. /\ pc = "survivors" /\ pc' = "close" /\ \A s \in ram : traj[s].n = 0
      /\ UNCHANGED <<cur, older, buf, todo, active, pending, ram, idx, ended, traj, empty, fast, done_tls, cargo, file, closed>>
  BY DEF EndSurvivors, month, loop, particle, output
<1>2. WhereInv' /\ FlightInv' /\ \A s \in Seeds : Written(s)' = Written(s) /\ Fresh(s)' = Fresh(s)
  BY <1>1, QuietHolders
<1>3. Types' /\ MonthInv'
  BY <1>1 DEF IInv, Types, MonthInv, FirstPending, Propagated, OfMonth, InMonth, Ending, Stopped
<1>4. PhaseInv'
  BY <1>1, <1>2 DEF IInv, PhaseInv, Ending
<1>5. ClockInv' /\ PairInv'
  BY <1>1 DEF IInv, ClockInv, PairInv, Propagated, Stopped
<1>6. \A s \in Seeds \ pending : Written(s)
  <2>. SUFFICES ASSUME NEW s \in Seeds \ pending, ~Written(s)  PROVE FALSE
    OBVIOUS
  <2>1. ~Fresh(s)
    BY <1>1 DEF IInv, FreshInv, Stopped
  <2>2. ~Listed(s)
    <3>1. \A w \in 1 .. Workers : done_tls[w] = <<>>
      BY <1>1 DEF IInv, PhaseInv, Ending
    <3>. QED  BY <3>1, EmptySeeds DEF Listed
  <2>3. ~ended[s] /\ s \in ram
    BY <2>2 DEF IInv, WhereInv
  <2>4. traj[s] = NoTraj
    BY <1>1, <2>3, TrajIs DEF IInv
  <2>. QED  BY <2>1, <2>3, <2>4 DEF Fresh
<1>7. FreshInv'
  BY <1>1, <1>2, <1>6 DEF IInv, FreshInv, Stopped
<1>. QED  BY <1>2, <1>3, <1>4, <1>5, <1>7 DEF IInv

LEMMA CloseStep == ASSUME IInv, ClosePos \/ CloseVel PROVE IInv'
<1>1. /\ \/ pc = "close" /\ pc' = "close_vel" /\ closed' = closed \cup {"pos"}
         \/ pc = "close_vel" /\ pc' = "done" /\ closed' = closed \cup {"vel"}
      /\ UNCHANGED <<cur, older, buf, todo, active, pending, ram, idx, ended, traj, empty, fast, done_tls, cargo, file>>
  BY DEF ClosePos, CloseVel, month, loop, particle
<1>2. WhereInv' /\ FlightInv' /\ \A s \in Seeds : Written(s)' = Written(s) /\ Fresh(s)' = Fresh(s)
  BY <1>1, QuietHolders
<1>3. Types' /\ MonthInv'
  <2>1. Types'
    BY <1>1 DEF IInv, Types, Ending, Files
  <2>2. MonthInv'
    BY <1>1 DEF IInv, MonthInv, FirstPending, Propagated, OfMonth, InMonth, Ending, Stopped
  <2>. QED  BY <2>1, <2>2
<1>4. PhaseInv'
  BY <1>1, <1>2 DEF IInv, PhaseInv, Ending
<1>5. ClockInv'
  BY <1>1 DEF IInv, ClockInv, Propagated
<1>6. PairInv'
  <2>1. closed \subseteq Files /\ (pc = "close_vel" => "pos" \in closed)
    BY DEF IInv, Types, PairInv
  <2>2. (pc' = "close_vel" => "pos" \in closed') /\ (pc' = "done" => closed' = Files)
    BY <1>1, <2>1 DEF Files
  <2>3. file["pos"] = file["vel"]
    BY <1>1 DEF IInv, PairInv, Stopped
  <2>. QED  BY <1>1, <2>2, <2>3 DEF PairInv
<1>7. FreshInv'
  BY <1>1, <1>2 DEF IInv, FreshInv, Stopped
<1>. QED  BY <1>2, <1>3, <1>4, <1>5, <1>6, <1>7 DEF IInv

\* An exception, the destructors, a kill.
LEMMA StopStep == ASSUME IInv, Throw \/ Die \/ \E f \in Files : Unwind(f) PROVE IInv'
<1>1. /\ pc' \in Stopped /\ closed' \subseteq Files
      /\ UNCHANGED <<cur, older, buf, todo, active, pending, ram, idx, ended, traj, empty, fast, done_tls, cargo, file>>
  <2>1. closed \subseteq Files
    BY DEF IInv, Types
  <2>. QED  BY <2>1 DEF Throw, AfterThrow, Die, Unwind, month, loop, particle, output, Stopped
<1>2. WhereInv' /\ FlightInv' /\ \A s \in Seeds : Written(s)' = Written(s) /\ Fresh(s)' = Fresh(s)
  BY <1>1, QuietHolders
<1>3. pc' \notin {"load", "activate", "propagate", "flush", "vel", "advance"} \cup Ending
  BY <1>1 DEF Stopped, Ending
<1>4. Types'
  BY <1>1 DEF IInv, Types
<1>5. MonthInv'
  BY <1>1, <1>3 DEF MonthInv, Propagated
<1>6. PhaseInv'
  BY <1>1, <1>2, <1>3 DEF IInv, PhaseInv
<1>7. ClockInv'
  BY <1>3 DEF ClockInv, Propagated
<1>8. FreshInv' /\ PairInv'
  BY <1>1, <1>3 DEF IInv, FreshInv, PairInv, Ending
<1>. QED  BY <1>2, <1>4, <1>5, <1>6, <1>7, <1>8 DEF IInv

LEMMA WriteVelStep == ASSUME IInv, WriteVel PROVE IInv'
<1>1. /\ pc = "vel" /\ cargo' = NoCargo /\ pc' = (IF cur >= FirstMonth THEN "flush" ELSE "survivors")
      /\ file' = [file EXCEPT !["vel"] = Append(@, cargo)]
      /\ UNCHANGED <<cur, older, buf, todo, active, pending, ram, idx, ended, traj, empty, fast, done_tls, closed>>
  BY DEF WriteVel, month, loop, particle
<1>0. cur \in Int /\ FirstMonth \in Int /\ (cur < FirstMonth <=> ~(cur >= FirstMonth))
  BY TrajectoryAssumption DEF IInv, Types
<1>2. /\ file \in [Files -> Seq(Good)] /\ cargo \in Good /\ file["pos"] = Append(file["vel"], cargo)
      /\ "pos" \in Files /\ "vel" \in Files /\ "pos" # "vel"
  BY <1>1 DEF IInv, Types, PairInv, Files
<1>3. file'["pos"] = file["pos"] /\ file'["vel"] = file["pos"] /\ file' \in [Files -> Seq(Good)]
  <2>1. Append(file["vel"], cargo) \in Seq(Good)
    BY <1>2
  <2>. QED  BY <1>1, <1>2, <2>1
<1>4. \A s \in Seeds : Written(s)' = Written(s) /\ Listed(s)' = Listed(s) /\ Fresh(s)' = Fresh(s)
  BY <1>1, <1>3 DEF Written, Listed, Fresh
<1>5. Types'
  BY <1>1, <1>3 DEF IInv, Types, Ending
<1>6. MonthInv'
  BY <1>0, <1>1 DEF IInv, MonthInv, FirstPending, Propagated, OfMonth, InMonth, Ending, Stopped
<1>7. WhereInv'
  BY <1>1, <1>3, <1>4 DEF IInv, WhereInv
<1>8. PhaseInv'
  BY <1>0, <1>1, <1>4 DEF IInv, PhaseInv, Ending
<1>9. FlightInv'
  BY <1>1, <1>4 DEF IInv, FlightInv, SeedInv
<1>10. ClockInv'
  BY <1>1 DEF IInv, ClockInv, Propagated
<1>11. FreshInv' /\ PairInv'
  BY <1>1, <1>3, <1>4 DEF IInv, FreshInv, PairInv, Stopped
<1>. QED  BY <1>5, <1>6, <1>7, <1>8, <1>9, <1>10, <1>11 DEF IInv

LEMMA LeaveBucketStep == ASSUME IInv, LeaveBucket PROVE IInv'
<1>1. /\ pc = "propagate" /\ active # NoDay /\ \A s \in Bucket(active) : ~Moving(s)
      /\ todo' = todo \ {active}
      /\ UNCHANGED <<pc, cur, older, buf, pending, ram, idx, ended, traj, empty, fast, done_tls, cargo, file, closed>>
  BY DEF LeaveBucket, month, particle, output
<1>2. /\ WhereInv' /\ FlightInv'
      /\ \A s \in Seeds : Written(s)' = Written(s) /\ Fresh(s)' = Fresh(s) /\ DayOf(s)' = DayOf(s)
  BY <1>1, QuietHolders
<1>3. Types' /\ MonthInv'
  BY <1>1 DEF IInv, Types, MonthInv, FirstPending, Propagated, OfMonth, InMonth
<1>4. PhaseInv' /\ PairInv'
  BY <1>1, <1>2 DEF IInv, PhaseInv, PairInv
<1>5. cur \in Months /\ MonthBegin[cur] \in Int
  BY TrajectoryAssumption DEF IInv, Types, Months
<1>6. ASSUME NEW s \in ram, ~ended[s], DayOf(s) = active  PROVE idx[s] * Dt < MonthBegin[cur]
  <2>1. s \in Seeds /\ idx[s] \in Int /\ Stop[s] \in Int \cup {NoIdx}
    BY TrajectoryAssumption DEF IInv, Types
  <2>2. ~Moving(s)
    BY <1>1, <1>6 DEF Bucket
  <2>3. Stop[s] # NoIdx => idx[s] >= Stop[s]
    BY <1>6, <2>1, TrajectoryAssumption DEF IInv, FlightInv, SeedInv
  <2>4. ~(idx[s] >= WindowFirst)
    BY <1>6, <2>2, <2>3 DEF Moving
  <2>5. WindowFirst \in Int /\ (idx[s] < WindowFirst => idx[s] * Dt < MonthBegin[cur])
    BY <1>5, <2>1, BelowWindow DEF WindowFirst
  <2>. QED  BY <2>1, <2>4, <2>5
<1>7. ClockInv'
  <2>. SUFFICES ASSUME NEW s \in ram, ~ended[s], DayOf(s) \notin todo \ {active}
       PROVE  idx[s] * Dt < MonthBegin[cur]
    BY <1>1 DEF IInv, ClockInv, Propagated, DayOf
  <2>1. CASE DayOf(s) = active
    BY <1>6, <2>1
  <2>2. CASE DayOf(s) \notin todo
    BY <1>1, <2>2 DEF IInv, ClockInv
  <2>. QED  BY <2>1, <2>2
<1>8. FreshInv'
  <2>1. \A s \in Seeds : Fresh(s) => s \in OfMonth(cur) /\ DayOf(s) \in todo
    BY <1>1 DEF IInv, FreshInv
  <2>2. ASSUME NEW s \in Seeds, Fresh(s), DayOf(s) = active  PROVE FALSE
    <3>1. s \in ram /\ ~ended[s] /\ idx[s] = Start[s]
      BY <2>2 DEF IInv, FlightInv, SeedInv, Fresh
    <3>2. Start[s] * Dt >= MonthBegin[cur] /\ Start[s] * Dt \in Int
      BY <2>1, <2>2, <1>5, TrajectoryAssumption DEF OfMonth, InMonth
    <3>3. Start[s] * Dt < MonthBegin[cur]
      BY <1>6, <2>2, <3>1
    <3>. QED  BY <1>5, <3>2, <3>3
  <2>3. \A s \in Seeds : Fresh(s) => s \in OfMonth(cur) /\ DayOf(s) \in todo'
    BY <1>1, <2>1, <2>2
  <2>4. OfMonth(cur)' = OfMonth(cur)
    BY <1>1 DEF OfMonth, InMonth
  <2>. QED  BY <1>1, <1>2, <2>3, <2>4 DEF FreshInv, Stopped
<1>. QED  BY <1>2, <1>3, <1>4, <1>7, <1>8 DEF IInv

-----------------------------------------------------------------------------
(***************************************************************************)
(* Activation and retirement                                               *)
(***************************************************************************)

LEMMA RetireStep == ASSUME IInv, Retire PROVE IInv'
<1>1. /\ pc = "flush" /\ pc' = "advance" /\ \A w \in 1 .. Workers : done_tls[w] = <<>>
      /\ ram' = {s \in ram : ~ended[s]}
      /\ UNCHANGED <<cur, older, buf, todo, active, pending, idx, ended, traj, empty, fast, done_tls, cargo, file, closed>>
  BY DEF Retire, month, loop, particle, output
<1>2. \A s \in Seeds : Written(s)' = Written(s) /\ Listed(s)' = Listed(s) /\ (Fresh(s)' => Fresh(s))
  BY <1>1 DEF Written, Listed, Fresh
<1>3. ram \subseteq Seeds
  BY DEF IInv, Types
<1>4. Types'
  BY <1>1, <1>3 DEF IInv, Types
<1>5. MonthInv'
  BY <1>1 DEF IInv, MonthInv, FirstPending, Propagated, OfMonth, InMonth, Ending, Stopped
<1>6. WhereInv'
  BY <1>1, <1>2 DEF IInv, WhereInv
<1>7. PhaseInv'
  BY <1>1, <1>2 DEF IInv, PhaseInv, Ending
<1>8. FlightInv'
  BY <1>1, <1>2 DEF IInv, FlightInv, SeedInv
<1>9. ClockInv'
  BY <1>1 DEF IInv, ClockInv, Propagated
<1>10. FreshInv' /\ PairInv'
  BY <1>1, <1>2 DEF IInv, FreshInv, PairInv, Stopped
<1>. QED  BY <1>4, <1>5, <1>6, <1>7, <1>8, <1>9, <1>10 DEF IInv

LEMMA ActivateStep == ASSUME IInv, Activate PROVE IInv'
<1>1. /\ pc = "activate" /\ pc' = "propagate"
      /\ ram' = ram \cup (pending \cap OfMonth(cur)) /\ pending' = pending \ OfMonth(cur)
      /\ todo' = {DayOf(s) : s \in ram'}
      /\ empty' = [s \in Seeds |-> 0] /\ fast' = [s \in Seeds |-> 0]
      /\ UNCHANGED <<cur, older, buf, active, idx, ended, traj, done_tls, cargo, file, closed>>
  BY DEF Activate, month, output
<1>2. \A s \in Seeds : Written(s)' = Written(s) /\ Listed(s)' = Listed(s)
  BY <1>1 DEF Written, Listed
<1>3. ram \subseteq Seeds /\ pending \subseteq Seeds /\ cur \in Int /\ EndMonth \in Int /\ cur <= EndMonth /\ cur >= FirstMonth
  BY <1>1, TrajectoryAssumption DEF IInv, Types, MonthInv
<1>4. ASSUME NEW s \in pending \cap OfMonth(cur)
      PROVE  /\ s \in Seeds /\ ~ended[s] /\ idx[s] = Start[s] /\ idx[s] * Dt < MonthBegin[cur + 1]
  <2>1. s \in Seeds /\ ~ended[s] /\ ~Written(s) /\ traj[s] = NoTraj
    BY <1>3 DEF IInv, WhereInv, FlightInv, SeedInv
  <2>2. idx[s] = Start[s]
    BY <2>1 DEF IInv, FlightInv, SeedInv
  <2>. QED  BY <2>1, <2>2 DEF OfMonth, InMonth
<1>5. Types'
  <2>1. empty' \in [Seeds -> Nat] /\ fast' \in [Seeds -> Nat]
    BY <1>1
  <2>2. ram' \subseteq Seeds /\ pending' \subseteq Seeds
    BY <1>1, <1>3
  <2>. QED  BY <1>1, <2>1, <2>2 DEF IInv, Types
<1>6. MonthInv'
  <2>1. pending = {s \in Seeds : \A m \in cur + 1 .. EndMonth : s \notin OfMonth(m)}
    BY <1>1 DEF IInv, MonthInv, FirstPending, Propagated, Stopped
  <2>2. \A m \in Int : m \in cur .. EndMonth <=> m = cur \/ m \in cur + 1 .. EndMonth
    BY <1>3
  <2>3. pending' = {s \in Seeds : \A m \in cur .. EndMonth : s \notin OfMonth(m)}
    BY <1>1, <1>3, <2>1, <2>2
  <2>4. FirstPending' = cur
    BY <1>1 DEF FirstPending
  <2>5. pending' = {s \in Seeds : \A m \in FirstPending' .. EndMonth : s \notin OfMonth(m)}
    BY <2>3, <2>4
  <2>. QED  BY <1>1, <2>5 DEF IInv, MonthInv, Propagated, OfMonth, InMonth, Ending
<1>7. WhereInv'
  <2>1. pending' \cap ram' = {} /\ pending' \subseteq pending /\ pending' \cup ram' = pending \cup ram
    BY <1>1 DEF IInv, WhereInv
  <2>. QED  BY <1>1, <1>2, <2>1 DEF IInv, WhereInv
<1>8. PhaseInv'
  BY <1>1, <1>2 DEF IInv, PhaseInv, Ending
<1>9. FlightInv'
  <2>1. MaxEmpty \in Nat /\ MaxFast \in Nat
    BY TrajectoryAssumption
  <2>2. \A s \in Seeds : empty'[s] = 0 /\ fast'[s] = 0
    BY <1>1
  <2>. QED  BY <1>1, <1>2, <2>1, <2>2 DEF IInv, FlightInv, SeedInv
<1>10. ClockInv'
  <2>1. \A s \in ram' : DayOf(s)' \in todo'
    BY <1>1 DEF DayOf
  <2>2. \A s \in ram' : ~ended[s] => idx[s] * Dt < MonthBegin[cur + 1]
    BY <1>1, <1>4 DEF IInv, ClockInv
  <2>. QED  BY <1>1, <2>1, <2>2 DEF ClockInv, Propagated
<1>11. FreshInv'
  <2>. SUFFICES ASSUME NEW s \in Seeds, Fresh(s)'  PROVE s \in OfMonth(cur) /\ DayOf(s) \in todo'
    BY <1>1 DEF FreshInv, Stopped, OfMonth, InMonth, DayOf
  <2>1. s \in ram' /\ ~ended[s] /\ ~Written(s) /\ traj[s] = NoTraj
    BY <1>1, <1>2 DEF Fresh
  <2>2. s \notin ram
    BY <1>1, <2>1 DEF IInv, FreshInv, Fresh, Stopped
  <2>. QED  BY <1>1, <2>1, <2>2
<1>12. PairInv'
  BY <1>1 DEF IInv, PairInv, Stopped
<1>. QED  BY <1>5, <1>6, <1>7, <1>8, <1>9, <1>10, <1>11, <1>12 DEF IInv

-----------------------------------------------------------------------------
(***************************************************************************)
(* Writing                                                                 *)
(***************************************************************************)

LEMMA AddToPos ==
  ASSUME IInv, file["pos"] = file["vel"], NEW r \in Good,
         file' = [file EXCEPT !["pos"] = Append(@, r)]
  PROVE  /\ file' \in [Files -> Seq(Good)] /\ file'["pos"] = Append(file'["vel"], r)
         /\ \A s \in Seeds : Written(s)' <=> Written(s) \/ s = r.seed
         /\ r.seed \in Seeds /\ (~Written(r.seed) => Distinct(file'["pos"]))
<1>1. /\ file \in [Files -> Seq(Good)] /\ "pos" \in Files /\ "vel" \in Files /\ "pos" # "vel"
      /\ file["pos"] \in Seq(Good) /\ Distinct(file["pos"])
  BY DEF IInv, Types, Files, WhereInv
<1>2. file'["pos"] = Append(file["pos"], r) /\ file'["vel"] = file["vel"]
  BY <1>1
<1>3. /\ Append(file["pos"], r) \in Seq(Good)
      /\ SeedsOf(Append(file["pos"], r)) = SeedsOf(file["pos"]) \cup {r.seed}
      /\ r.seed \notin SeedsOf(file["pos"]) => Distinct(Append(file["pos"], r))
  BY <1>1, AppendSeeds
<1>4. file' \in [Files -> Seq(Good)]
  BY <1>1, <1>3
<1>5. \A s \in Seeds : Written(s)' <=> Written(s) \/ s = r.seed
  BY <1>2, <1>3 DEF Written
<1>. QED  BY <1>1, <1>2, <1>3, <1>4, <1>5, GoodIs DEF Written

LEMMA FlushFinishedStep == ASSUME IInv, NEW w \in 1 .. Workers, FlushFinished(w) PROVE IInv'
<1> DEFINE r == Head(done_tls[w])
<1>1. /\ pc = "flush" /\ pc' = "vel" /\ done_tls[w] # <<>> /\ cargo' = r
      /\ file' = [file EXCEPT !["pos"] = Append(@, r)]
      /\ done_tls' = [done_tls EXCEPT ![w] = Tail(@)]
      /\ UNCHANGED <<cur, older, buf, todo, active, pending, ram, idx, ended, traj, empty, fast, closed>>
  BY DEF FlushFinished, WritePos, month, loop
<1>2. done_tls \in [1 .. Workers -> Seq(Good)] /\ done_tls[w] \in Seq(Good) /\ Distinct(done_tls[w])
  BY DEF IInv, Types, WhereInv
<1>3. /\ Tail(done_tls[w]) \in Seq(Good) /\ r \in Good /\ Distinct(Tail(done_tls[w]))
      /\ r.seed \in SeedsOf(done_tls[w])
      /\ SeedsOf(Tail(done_tls[w])) = SeedsOf(done_tls[w]) \ {r.seed}
  BY <1>1, <1>2, TailSeeds
<1>. HIDE DEF r
<1>4. /\ done_tls' \in [1 .. Workers -> Seq(Good)] /\ done_tls'[w] = Tail(done_tls[w])
      /\ \A v \in 1 .. Workers : v # w => done_tls'[v] = done_tls[v]
  BY <1>1, <1>2, <1>3
<1>5. file["pos"] = file["vel"]
  BY <1>1 DEF IInv, PairInv, Stopped
<1>6. r.seed \in Seeds /\ Listed(r.seed)
  BY <1>3, GoodIs DEF Listed
<1>7. ~Written(r.seed) /\ ended[r.seed]
  BY <1>6 DEF IInv, WhereInv
<1>8. /\ file' \in [Files -> Seq(Good)] /\ file'["pos"] = Append(file'["vel"], r)
      /\ \A s \in Seeds : Written(s)' <=> Written(s) \/ s = r.seed
      /\ Distinct(file'["pos"])
  BY <1>1, <1>3, <1>5, <1>7, AddToPos
<1>9. \A s \in Seeds : Listed(s)' <=> Listed(s) /\ s # r.seed
  <2>1. \A v \in 1 .. Workers : v # w => r.seed \notin SeedsOf(done_tls[v])
    BY <1>3 DEF IInv, WhereInv
  <2>2. \A v \in 1 .. Workers : SeedsOf(done_tls'[v]) = SeedsOf(done_tls[v]) \ {r.seed}
    BY <1>3, <1>4, <2>1
  <2>. QED  BY <2>2 DEF Listed
<1>10. Types'
  BY <1>1, <1>3, <1>4, <1>8 DEF IInv, Types
<1>11. MonthInv'
  BY <1>1 DEF IInv, MonthInv, FirstPending, Propagated, OfMonth, InMonth, Ending, Stopped
<1>12. WhereInv'
  <2>1. \A v \in 1 .. Workers : Distinct(done_tls'[v])
    BY <1>3, <1>4 DEF IInv, WhereInv
  <2>2. \A v \in 1 .. Workers : SeedsOf(done_tls'[v]) \subseteq SeedsOf(done_tls[v])
    BY <1>3, <1>4
  <2>3. \A u, v \in 1 .. Workers : u # v => SeedsOf(done_tls'[u]) \cap SeedsOf(done_tls'[v]) = {}
    BY <2>2 DEF IInv, WhereInv
  <2>4. \A s \in Seeds : /\ Listed(s)' => ~Written(s)' /\ ended'[s]
                         /\ ended'[s] => Listed(s)' \/ Written(s)'
                         /\ ended'[s] \/ Written(s)' => s \notin pending' /\ traj'[s] = NoTraj
    BY <1>1, <1>7, <1>8, <1>9 DEF IInv, WhereInv
  <2>5. pending' \cap ram' = {} /\ \A s \in Seeds \ (pending' \cup ram') : ended'[s]
    BY <1>1 DEF IInv, WhereInv
  <2>. QED  BY <1>8, <2>1, <2>3, <2>4, <2>5 DEF WhereInv
<1>13. PhaseInv'
  <2>1. cur >= FirstMonth /\ cur \in Int /\ FirstMonth \in Int
    BY <1>1, TrajectoryAssumption DEF IInv, MonthInv, Types
  <2>2. ~(pc' = "vel" /\ cur' < FirstMonth)
    BY <1>1, <2>1
  <2>. QED  BY <1>1, <1>7, <1>8, <2>2 DEF IInv, PhaseInv, Ending
<1>14. FlightInv'
  BY <1>1, <1>8 DEF IInv, FlightInv, SeedInv
<1>15. ClockInv'
  BY <1>1 DEF IInv, ClockInv, Propagated
<1>16. FreshInv'
  <2>1. \A s \in Seeds : Fresh(s)' => Fresh(s)
    BY <1>1, <1>8 DEF Fresh
  <2>. QED  BY <1>1, <2>1 DEF IInv, FreshInv, Stopped
<1>17. PairInv'
  BY <1>1, <1>3, <1>8 DEF PairInv, Stopped
<1>. QED  BY <1>10, <1>11, <1>12, <1>13, <1>14, <1>15, <1>16, <1>17 DEF IInv

\* What a particle carries decodes.
LEMMA TrajDecodes ==
  ASSUME IInv, NEW s \in Seeds, traj[s] # NoTraj
  PROVE  [seed |-> s, first |-> traj[s].first, n |-> traj[s].n] \in Good
<1> DEFINE r == [seed |-> s, first |-> traj[s].first, n |-> traj[s].n]
<1>1. /\ traj[s].first \in Int /\ traj[s].n \in Nat \ {0}
  BY TrajIs DEF IInv
<1>2. /\ idx[s] \in Int /\ Start[s] \in Int /\ Dt \in Nat \ {0} /\ Life \in Nat /\ NoIdx \notin Int
      /\ Stop[s] \in Int \cup {NoIdx}
  BY TrajectoryAssumption DEF IInv, Types
<1>3. /\ ~ended[s] /\ traj[s].first = idx[s] + 1 /\ traj[s].n = Start[s] - idx[s]
      /\ (Start[s] - (idx[s] + 1)) * Dt < Life
      /\ Stop[s] # NoIdx => Stop[s] <= idx[s]
  BY DEF IInv, WhereInv, FlightInv, SeedInv
<1>4. r \in Records /\ r.seed = s /\ r.first = idx[s] + 1 /\ r.n = Start[s] - idx[s]
  BY <1>1, <1>3 DEF Records
<1>. HIDE DEF r
<1>5. r.first + r.n - 1 = Start[s]
  BY <1>2, <1>4
<1>6. Stop[s] # NoIdx => r.first >= Stop[s]
  BY <1>2, <1>3, <1>4
<1>7. (Start[s] - r.first) * Dt < Life + (IF r.first = Stop[s] THEN Dt ELSE 0)
  <2>1. (Start[s] - r.first) * Dt < Life /\ (Start[s] - r.first) * Dt \in Int
    BY <1>2, <1>3, <1>4
  <2>. QED  BY <1>2, <2>1
<1>8. Decodes(r)
  BY <1>4, <1>5, <1>6, <1>7 DEF Decodes
<1>. QED  BY <1>4, <1>8 DEF Good, r

LEMMA FlushSurvivorStep == ASSUME IInv, NEW x \in Seeds, FlushSurvivor(x) PROVE IInv'
<1> DEFINE r == [seed |-> x, first |-> traj[x].first, n |-> traj[x].n]
<1>1. /\ pc = "survivors" /\ pc' = "vel" /\ x \in ram /\ traj[x].n > 0 /\ cargo' = r
      /\ file' = [file EXCEPT !["pos"] = Append(@, r)]
      /\ traj' = [traj EXCEPT ![x] = NoTraj]
      /\ UNCHANGED <<cur, older, buf, todo, active, pending, ram, idx, ended, empty, fast, done_tls, closed>>
  BY DEF FlushSurvivor, WritePos, month, loop
<1>2. traj[x] # NoTraj /\ traj \in [Seeds -> Trajs \cup {NoTraj}]
  BY <1>1, TrajIs DEF IInv, Types
<1>3. r \in Good /\ r.seed = x
  BY <1>2, TrajDecodes
<1>. HIDE DEF r
<1>4. /\ traj' \in [Seeds -> Trajs \cup {NoTraj}] /\ traj'[x] = NoTraj
      /\ \A s \in Seeds : s # x => traj'[s] = traj[s]
  BY <1>1, <1>2
<1>5. file["pos"] = file["vel"]
  BY <1>1 DEF IInv, PairInv, Stopped
<1>6. ~Written(x) /\ ~ended[x] /\ x \notin pending /\ ~Listed(x)
  BY <1>1, <1>2 DEF IInv, WhereInv
<1>7. /\ file' \in [Files -> Seq(Good)] /\ file'["pos"] = Append(file'["vel"], r)
      /\ \A s \in Seeds : Written(s)' <=> Written(s) \/ s = x
      /\ Distinct(file'["pos"])
  BY <1>1, <1>3, <1>5, <1>6, AddToPos
<1>8. \A s \in Seeds : Listed(s)' = Listed(s)
  BY <1>1 DEF Listed
<1>9. cur < FirstMonth /\ cur \in Int /\ FirstMonth \in Int /\ ~(cur >= FirstMonth)
  BY <1>1, TrajectoryAssumption DEF IInv, MonthInv, Types, Ending
<1>10. Types'
  BY <1>1, <1>3, <1>4, <1>7 DEF IInv, Types
<1>11. MonthInv'
  BY <1>1, <1>9 DEF IInv, MonthInv, FirstPending, Propagated, OfMonth, InMonth, Ending, Stopped
<1>12. WhereInv'
  <2>1. \A s \in Seeds : /\ Listed(s)' => ~Written(s)' /\ ended'[s]
                         /\ ended'[s] => Listed(s)' \/ Written(s)'
                         /\ ended'[s] \/ Written(s)' => s \notin pending' /\ traj'[s] = NoTraj
    BY <1>1, <1>4, <1>6, <1>7, <1>8 DEF IInv, WhereInv
  <2>2. pending' \cap ram' = {} /\ \A s \in Seeds \ (pending' \cup ram') : ended'[s]
    BY <1>1 DEF IInv, WhereInv
  <2>3. /\ \A v \in 1 .. Workers : Distinct(done_tls'[v])
        /\ \A u, v \in 1 .. Workers : u # v => SeedsOf(done_tls'[u]) \cap SeedsOf(done_tls'[v]) = {}
    BY <1>1 DEF IInv, WhereInv
  <2>. QED  BY <1>7, <2>1, <2>2, <2>3 DEF WhereInv
<1>13. PhaseInv'
  BY <1>1, <1>9 DEF IInv, PhaseInv, Ending
<1>14. FlightInv'
  <2>. SUFFICES ASSUME NEW s \in Seeds  PROVE SeedInv(s)'
    BY DEF FlightInv
  <2>1. CASE s = x
    BY <1>1, <1>4, <1>7, <2>1 DEF IInv, FlightInv, SeedInv
  <2>2. CASE s # x
    BY <1>1, <1>4, <1>7, <2>2 DEF IInv, FlightInv, SeedInv
  <2>. QED  BY <2>1, <2>2
<1>15. ClockInv'
  BY <1>1, <1>9 DEF IInv, ClockInv, Propagated
<1>16. FreshInv'
  <2>1. \A s \in Seeds : Fresh(s)' => Fresh(s)
    BY <1>1, <1>4, <1>7 DEF Fresh
  <2>. QED  BY <1>1, <2>1 DEF IInv, FreshInv, Stopped
<1>17. PairInv'
  BY <1>1, <1>3, <1>7 DEF PairInv, Stopped
<1>. QED  BY <1>10, <1>11, <1>12, <1>13, <1>14, <1>15, <1>16, <1>17 DEF IInv

-----------------------------------------------------------------------------
(***************************************************************************)
(* Steps of particles                                                      *)
(***************************************************************************)

\* What a worker knows of a moving particle.
LEMMA MovingIs ==
  ASSUME IInv, pc = "propagate", NEW s \in Bucket(active), Moving(s)
  PROVE  /\ s \in Seeds /\ s \in ram /\ ~ended[s] /\ ~Written(s) /\ ~Listed(s) /\ s \notin pending
         /\ idx[s] \in Int /\ Start[s] \in Int /\ Stop[s] \in Int \cup {NoIdx} /\ NoIdx \notin Int
         /\ Dt \in Nat \ {0} /\ Life \in Nat \ {0}
         /\ idx[s] <= Start[s] /\ (Stop[s] # NoIdx => Stop[s] <= idx[s])
         /\ empty[s] \in 0 .. MaxEmpty /\ fast[s] \in 0 .. MaxFast
         /\ MaxEmpty \in Nat /\ MaxFast \in Nat
         /\ traj[s] = NoTraj => idx[s] = Start[s]
         /\ traj[s] # NoTraj => /\ traj[s].first = idx[s] + 1 /\ traj[s].n = Start[s] - idx[s]
                                /\ (Start[s] - (idx[s] + 1)) * Dt < Life
<1>1. s \in ram /\ s \in Seeds /\ ~ended[s]
  BY DEF Bucket, Moving, IInv, Types
<1>2. ~Written(s) /\ ~Listed(s) /\ s \notin pending
  <2>1. ~(cur < FirstMonth)
    BY TrajectoryAssumption DEF IInv, MonthInv, Types
  <2>. QED  BY <1>1, <2>1 DEF IInv, WhereInv, PhaseInv
<1>3. /\ idx[s] \in Int /\ Start[s] \in Int /\ Stop[s] \in Int \cup {NoIdx} /\ NoIdx \notin Int
      /\ Dt \in Nat \ {0} /\ Life \in Nat \ {0} /\ MaxEmpty \in Nat /\ MaxFast \in Nat
      /\ empty[s] \in Nat /\ fast[s] \in Nat
  BY <1>1, TrajectoryAssumption DEF IInv, Types
<1>4. SeedInv(s)
  BY <1>1 DEF IInv, FlightInv
<1>5. /\ idx[s] <= Start[s] /\ (Stop[s] # NoIdx => Stop[s] <= idx[s])
      /\ empty[s] <= MaxEmpty /\ fast[s] <= MaxFast
      /\ traj[s] = NoTraj => idx[s] = Start[s]
      /\ traj[s] # NoTraj => /\ traj[s].first = idx[s] + 1 /\ traj[s].n = Start[s] - idx[s]
                             /\ (Start[s] - (idx[s] + 1)) * Dt < Life
  BY <1>1, <1>2, <1>4 DEF SeedInv
<1>. QED  BY <1>1, <1>2, <1>3, <1>5

\* A sample prolongs the trajectory down to the current index.
LEMMA SampledIs ==
  ASSUME IInv, pc = "propagate", NEW s \in Bucket(active), Moving(s)
  PROVE  /\ Sampled(s) = [first |-> idx[s], n |-> Start[s] - idx[s] + 1]
         /\ Start[s] - idx[s] + 1 \in Nat \ {0}
<1>1. /\ s \in Seeds /\ idx[s] \in Int /\ Start[s] \in Int /\ idx[s] <= Start[s]
      /\ traj[s] = NoTraj => idx[s] = Start[s]
      /\ traj[s] # NoTraj => traj[s].first = idx[s] + 1 /\ traj[s].n = Start[s] - idx[s]
  BY MovingIs
<1>2. traj[s].n \in Nat /\ (traj[s].n = 0 <=> traj[s] = NoTraj)
  BY <1>1, TrajIs DEF IInv
<1>3. CASE traj[s] = NoTraj
  BY <1>1, <1>2, <1>3 DEF Sampled
<1>4. CASE traj[s] # NoTraj
  BY <1>1, <1>2, <1>4 DEF Sampled
<1>. QED  BY <1>1, <1>3, <1>4

\* The steps below change one particle and its streaks only.
Streaks(s) ==
  /\ \E e \in 0 .. MaxEmpty + 1 : empty' = [empty EXCEPT ![s] = e]
  /\ \E f \in 0 .. MaxFast + 1 : fast' = [fast EXCEPT ![s] = f]

LEMMA StreaksAre ==
  ASSUME IInv, NEW s \in Seeds, Streaks(s)
  PROVE  /\ empty' \in [Seeds -> Nat] /\ fast' \in [Seeds -> Nat]
         /\ empty'[s] <= MaxEmpty + 1 /\ fast'[s] <= MaxFast + 1
         /\ \A x \in Seeds : x # s => empty'[x] = empty[x] /\ fast'[x] = fast[x]
<1>1. empty \in [Seeds -> Nat] /\ fast \in [Seeds -> Nat] /\ MaxEmpty \in Nat /\ MaxFast \in Nat
  BY TrajectoryAssumption DEF IInv, Types
<1>2. PICK e \in 0 .. MaxEmpty + 1 : empty' = [empty EXCEPT ![s] = e]
  BY DEF Streaks
<1>3. PICK f \in 0 .. MaxFast + 1 : fast' = [fast EXCEPT ![s] = f]
  BY DEF Streaks
<1>4. e \in Nat /\ e <= MaxEmpty + 1 /\ f \in Nat /\ f <= MaxFast + 1
  BY <1>1
<1>. QED  BY <1>1, <1>2, <1>3, <1>4

Rest == <<pc, cur, older, buf, todo, active, pending, ram, cargo, file, closed>>

LEMMA GoOnStep ==
  ASSUME IInv, pc = "propagate", NEW s \in Bucket(active), Moving(s),
         ~AtStop(s), ~Expired(s), GoOn(s, Sampled(s)), Streaks(s),
         empty'[s] <= MaxEmpty, fast'[s] <= MaxFast, UNCHANGED Rest
  PROVE  IInv'
<1>1. /\ s \in Seeds /\ s \in ram /\ ~ended[s] /\ ~Written(s) /\ s \notin pending
      /\ idx[s] \in Int /\ Start[s] \in Int /\ Stop[s] \in Int \cup {NoIdx} /\ NoIdx \notin Int
      /\ Dt \in Nat \ {0} /\ Life \in Nat \ {0}
      /\ idx[s] <= Start[s] /\ (Stop[s] # NoIdx => Stop[s] <= idx[s])
  BY MovingIs
<1>2. /\ idx \in [Seeds -> Int] /\ traj \in [Seeds -> Trajs \cup {NoTraj}]
      /\ idx' = [idx EXCEPT ![s] = @ - 1] /\ traj' = [traj EXCEPT ![s] = Sampled(s)]
      /\ UNCHANGED <<pc, cur, older, buf, todo, active, pending, ram, ended, done_tls, cargo, file, closed>>
  BY DEF GoOn, IInv, Types, Rest
<1>3. /\ Sampled(s) = [first |-> idx[s], n |-> Start[s] - idx[s] + 1]
      /\ Start[s] - idx[s] + 1 \in Nat \ {0}
  BY SampledIs
<1>4. Sampled(s) \in Trajs /\ Sampled(s).first = idx[s] /\ Sampled(s).n = Start[s] - idx[s] + 1
  BY <1>1, <1>3 DEF Trajs
<1>5. Sampled(s) # NoTraj
  BY <1>1, <1>4 DEF NoTraj
<1>6. /\ idx' \in [Seeds -> Int] /\ idx'[s] = idx[s] - 1
      /\ traj' \in [Seeds -> Trajs \cup {NoTraj}] /\ traj'[s] = Sampled(s)
      /\ \A x \in Seeds : x # s => idx'[x] = idx[x] /\ traj'[x] = traj[x]
  BY <1>1, <1>2, <1>4
<1>7. /\ empty' \in [Seeds -> Nat] /\ fast' \in [Seeds -> Nat]
      /\ empty'[s] <= MaxEmpty + 1 /\ fast'[s] <= MaxFast + 1
      /\ \A x \in Seeds : x # s => empty'[x] = empty[x] /\ fast'[x] = fast[x]
  BY <1>1, StreaksAre
<1>8. \A x \in Seeds : Written(x)' = Written(x) /\ Listed(x)' = Listed(x)
  BY <1>2 DEF Written, Listed
<1>9. Types'
  BY <1>2, <1>6, <1>7 DEF IInv, Types
<1>10. MonthInv'
  BY <1>2 DEF IInv, MonthInv, FirstPending, Propagated, OfMonth, InMonth
<1>11. WhereInv'
  <2>1. \A x \in Seeds : ended'[x] \/ Written(x)' => x \notin pending' /\ traj'[x] = NoTraj
    BY <1>1, <1>2, <1>6, <1>8 DEF IInv, WhereInv
  <2>. QED  BY <1>2, <1>8, <2>1 DEF IInv, WhereInv
<1>12. PhaseInv'
  BY <1>2, <1>8 DEF IInv, PhaseInv
<1>13. FlightInv'
  <2>. SUFFICES ASSUME NEW x \in Seeds  PROVE SeedInv(x)'
    BY DEF FlightInv
  <2>1. CASE x # s
    BY <1>2, <1>6, <1>7, <1>8, <2>1 DEF IInv, FlightInv, SeedInv
  <2>2. CASE x = s
    <3>1. idx'[s] <= Start[s] /\ traj'[s].first = idx'[s] + 1 /\ traj'[s].n = Start[s] - idx'[s]
      BY <1>1, <1>4, <1>6
    <3>2. (Start[s] - (idx'[s] + 1)) * Dt < Life
      <4>1. ~((Start[s] - idx[s]) * Dt >= Life)
        BY DEF Expired
      <4>2. idx'[s] + 1 = idx[s]
        BY <1>1, <1>6
      <4>3. (Start[s] - idx[s]) * Dt \in Int /\ Life \in Int
        BY <1>1
      <4>. QED  BY <4>1, <4>2, <4>3
    <3>3. Stop[s] # NoIdx => Stop[s] <= idx'[s]
      BY <1>1, <1>6 DEF AtStop
    <3>4. traj'[s] # NoTraj /\ s \notin pending'
      BY <1>1, <1>2, <1>5, <1>6
    <3>. QED  BY <1>7, <2>2, <3>1, <3>2, <3>3, <3>4 DEF SeedInv
  <2>. QED  BY <2>1, <2>2
<1>14. ClockInv'
  <2>1. \A x \in ram : x \in Seeds /\ idx[x] * Dt \in Int /\ idx'[x] * Dt \in Int
    BY <1>1, <1>2, <1>6 DEF IInv, Types
  <2>2. idx'[s] * Dt <= idx[s] * Dt
    <3>1. idx'[s] < idx[s] /\ idx'[s] \in Int
      BY <1>1, <1>6
    <3>2. idx'[s] * Dt + Dt <= idx[s] * Dt
      BY <1>1, <3>1, ProductStep
    <3>. QED  BY <1>1, <2>1, <3>2
  <2>3. \A x \in ram : idx'[x] * Dt <= idx[x] * Dt
    BY <1>6, <2>1, <2>2
  <2>4. cur \in Months /\ cur + 1 \in Months /\ MonthBegin[cur] \in Int /\ MonthBegin[cur + 1] \in Int
    BY TrajectoryAssumption DEF IInv, Types, Months
  <2>5. \A x \in ram : ~ended[x] => idx'[x] * Dt < MonthBegin[cur + 1]
    BY <2>1, <2>3, <2>4 DEF IInv, ClockInv
  <2>6. \A x \in ram : ~ended[x] /\ DayOf(x) \notin todo => idx'[x] * Dt < MonthBegin[cur]
    BY <2>1, <2>3, <2>4 DEF IInv, ClockInv
  <2>. QED  BY <1>2, <2>5, <2>6 DEF ClockInv, Propagated, DayOf
<1>15. FreshInv'
  <2>1. \A x \in Seeds : Fresh(x)' => Fresh(x)
    BY <1>2, <1>5, <1>6, <1>8 DEF Fresh
  <2>. QED  BY <1>2, <2>1 DEF IInv, FreshInv, OfMonth, InMonth, DayOf
<1>16. PairInv'
  BY <1>2 DEF IInv, PairInv
<1>. QED  BY <1>9, <1>10, <1>11, <1>12, <1>13, <1>14, <1>15, <1>16 DEF IInv

LEMMA FinishStep ==
  ASSUME IInv, pc = "propagate", NEW s \in Bucket(active), Moving(s),
         NEW w \in 1 .. Workers, NEW t, Finish(w, s, t), Streaks(s),
         [seed |-> s, first |-> t.first, n |-> t.n] \in Good, UNCHANGED Rest
  PROVE  IInv'
<1> DEFINE r == [seed |-> s, first |-> t.first, n |-> t.n]
<1>1. s \in Seeds /\ s \in ram /\ ~ended[s] /\ ~Written(s) /\ ~Listed(s) /\ s \notin pending
  BY MovingIs
<1>2. /\ ended' = [ended EXCEPT ![s] = TRUE] /\ traj' = [traj EXCEPT ![s] = NoTraj]
      /\ done_tls' = [done_tls EXCEPT ![w] = Append(@, r)]
      /\ UNCHANGED <<pc, cur, older, buf, todo, active, pending, ram, idx, cargo, file, closed>>
  BY DEF Finish, Rest
<1>3. r.seed = s /\ r \in Good
  OBVIOUS
<1>. HIDE DEF r
<1>4. /\ ended \in [Seeds -> BOOLEAN] /\ traj \in [Seeds -> Trajs \cup {NoTraj}]
      /\ done_tls \in [1 .. Workers -> Seq(Good)]
  BY DEF IInv, Types
<1>5. /\ ended' \in [Seeds -> BOOLEAN] /\ ended'[s] = TRUE
      /\ traj' \in [Seeds -> Trajs \cup {NoTraj}] /\ traj'[s] = NoTraj
      /\ \A x \in Seeds : x # s => ended'[x] = ended[x] /\ traj'[x] = traj[x]
  BY <1>1, <1>2, <1>4
<1>6. /\ Append(done_tls[w], r) \in Seq(Good)
      /\ SeedsOf(Append(done_tls[w], r)) = SeedsOf(done_tls[w]) \cup {s}
      /\ Distinct(Append(done_tls[w], r))
  <2>1. done_tls[w] \in Seq(Good) /\ Distinct(done_tls[w]) /\ s \notin SeedsOf(done_tls[w])
    BY <1>1, <1>4 DEF IInv, WhereInv, Listed
  <2>. QED  BY <1>3, <2>1, AppendSeeds
<1>7. /\ done_tls' \in [1 .. Workers -> Seq(Good)] /\ done_tls'[w] = Append(done_tls[w], r)
      /\ \A v \in 1 .. Workers : v # w => done_tls'[v] = done_tls[v]
  BY <1>2, <1>4, <1>6
<1>8. \A x \in Seeds : Written(x)' = Written(x) /\ (Listed(x)' <=> Listed(x) \/ x = s)
  <2>1. \A x \in Seeds : Written(x)' = Written(x)
    BY <1>2 DEF Written
  <2>2. \A x \in Seeds, v \in 1 .. Workers :
          x \in SeedsOf(done_tls'[v]) <=> x \in SeedsOf(done_tls[v]) \/ (v = w /\ x = s)
    BY <1>6, <1>7
  <2>3. \A x \in Seeds : Listed(x)' <=> Listed(x) \/ x = s
    BY <2>2 DEF Listed
  <2>. QED  BY <2>1, <2>3
<1>9. /\ empty' \in [Seeds -> Nat] /\ fast' \in [Seeds -> Nat]
      /\ empty'[s] <= MaxEmpty + 1 /\ fast'[s] <= MaxFast + 1
      /\ \A x \in Seeds : x # s => empty'[x] = empty[x] /\ fast'[x] = fast[x]
  BY <1>1, StreaksAre
<1>10. Types'
  BY <1>2, <1>5, <1>7, <1>9 DEF IInv, Types
<1>11. MonthInv'
  BY <1>2 DEF IInv, MonthInv, FirstPending, Propagated, OfMonth, InMonth
<1>12. WhereInv'
  <2>1. \A v \in 1 .. Workers : Distinct(done_tls'[v])
    BY <1>6, <1>7 DEF IInv, WhereInv
  <2>2. \A u, v \in 1 .. Workers : u # v => SeedsOf(done_tls'[u]) \cap SeedsOf(done_tls'[v]) = {}
    <3>1. \A v \in 1 .. Workers : s \notin SeedsOf(done_tls[v])
      BY <1>1 DEF Listed
    <3>2. \A v \in 1 .. Workers : SeedsOf(done_tls'[v]) = SeedsOf(done_tls[v]) \cup (IF v = w THEN {s} ELSE {})
      BY <1>6, <1>7
    <3>. QED  BY <3>1, <3>2 DEF IInv, WhereInv
  <2>3. \A x \in Seeds : Listed(x)' => ~Written(x)' /\ ended'[x]
    BY <1>1, <1>5, <1>8 DEF IInv, WhereInv
  <2>4. \A x \in Seeds : ended'[x] => Listed(x)' \/ Written(x)'
    BY <1>1, <1>5, <1>8 DEF IInv, WhereInv
  <2>5. \A x \in Seeds : ended'[x] \/ Written(x)' => x \notin pending' /\ traj'[x] = NoTraj
    BY <1>1, <1>2, <1>5, <1>8 DEF IInv, WhereInv
  <2>6. pending' \cap ram' = {} /\ \A x \in Seeds \ (pending' \cup ram') : ended'[x]
    BY <1>1, <1>2, <1>5 DEF IInv, WhereInv
  <2>7. Distinct(file'["pos"])
    BY <1>2 DEF IInv, WhereInv
  <2>. QED  BY <2>1, <2>2, <2>3, <2>4, <2>5, <2>6, <2>7 DEF WhereInv
<1>13. PhaseInv'
  <2>1. \A x \in Seeds : Written(x)' /\ ~ended'[x] => cur < FirstMonth
    BY <1>5, <1>8 DEF IInv, PhaseInv
  <2>. QED  BY <1>2, <2>1 DEF PhaseInv, Ending
<1>14. FlightInv'
  <2>. SUFFICES ASSUME NEW x \in Seeds  PROVE SeedInv(x)'
    BY DEF FlightInv
  <2>1. CASE x # s
    BY <1>2, <1>5, <1>8, <1>9, <2>1 DEF IInv, FlightInv, SeedInv
  <2>2. CASE x = s
    BY <1>1, <1>2, <1>5, <1>9, <2>2 DEF IInv, FlightInv, SeedInv
  <2>. QED  BY <2>1, <2>2
<1>15. ClockInv'
  <2>1. \A x \in ram : ~ended'[x] => ~ended[x]
    BY <1>5 DEF IInv, Types
  <2>. QED  BY <1>2, <2>1 DEF IInv, ClockInv, Propagated, DayOf
<1>16. FreshInv'
  <2>1. \A x \in Seeds : Fresh(x)' => Fresh(x)
    BY <1>2, <1>5, <1>8 DEF Fresh
  <2>. QED  BY <1>2, <2>1 DEF IInv, FreshInv, OfMonth, InMonth, DayOf
<1>17. PairInv'
  BY <1>2 DEF IInv, PairInv
<1>. QED  BY <1>10, <1>11, <1>12, <1>13, <1>14, <1>15, <1>16, <1>17 DEF IInv

\* A trajectory sampled down to the current index decodes.
LEMMA SampledDecodes ==
  ASSUME IInv, pc = "propagate", NEW s \in Bucket(active), Moving(s), AtStop(s) \/ ~Expired(s)
  PROVE  [seed |-> s, first |-> Sampled(s).first, n |-> Sampled(s).n] \in Good
<1> DEFINE r == [seed |-> s, first |-> Sampled(s).first, n |-> Sampled(s).n]
<1>1. /\ s \in Seeds /\ idx[s] \in Int /\ Start[s] \in Int /\ Stop[s] \in Int \cup {NoIdx}
      /\ NoIdx \notin Int /\ Dt \in Nat \ {0} /\ Life \in Nat \ {0}
      /\ idx[s] <= Start[s] /\ (Stop[s] # NoIdx => Stop[s] <= idx[s])
      /\ traj[s] = NoTraj => idx[s] = Start[s]
      /\ traj[s] # NoTraj => (Start[s] - (idx[s] + 1)) * Dt < Life
  BY MovingIs
<1>2. /\ Sampled(s) = [first |-> idx[s], n |-> Start[s] - idx[s] + 1]
      /\ Start[s] - idx[s] + 1 \in Nat \ {0}
  BY SampledIs
<1>3. r \in Records /\ r.seed = s /\ r.first = idx[s] /\ r.n = Start[s] - idx[s] + 1
  BY <1>1, <1>2 DEF Records
<1>. HIDE DEF r
<1>4. r.first + r.n - 1 = Start[s] /\ (Stop[s] # NoIdx => r.first >= Stop[s])
  BY <1>1, <1>3
<1>5. (Start[s] - idx[s]) * Dt \in Int /\ (Start[s] - (idx[s] + 1)) * Dt = (Start[s] - idx[s]) * Dt - Dt
  BY <1>1
<1>6. (Start[s] - r.first) * Dt < Life + (IF r.first = Stop[s] THEN Dt ELSE 0)
  <2>1. CASE AtStop(s)
    <3>1. r.first = Stop[s]
      BY <1>3, <2>1 DEF AtStop
    <3>2. (Start[s] - idx[s]) * Dt < Life + Dt
      <4>1. CASE traj[s] = NoTraj
        <5>1. (Start[s] - idx[s]) * Dt = 0
          BY <1>1, <4>1
        <5>. QED  BY <1>1, <5>1
      <4>2. CASE traj[s] # NoTraj
        BY <1>1, <1>5, <4>2
      <4>. QED  BY <4>1, <4>2
    <3>. QED  BY <1>3, <3>1, <3>2
  <2>2. CASE ~Expired(s)
    <3>1. (Start[s] - idx[s]) * Dt < Life
      BY <1>1, <1>5, <2>2 DEF Expired
    <3>. QED  BY <1>1, <1>3, <1>5, <3>1
  <2>. QED  BY <2>1, <2>2
<1>7. Decodes(r)
  BY <1>3, <1>4, <1>6 DEF Decodes
<1>. QED  BY <1>3, <1>7 DEF Good, r

LEMMA ParticleStep == ASSUME IInv, NEW w \in 1 .. Workers, NEW s \in Seeds, Step(w, s) PROVE IInv'
<1>1. pc = "propagate" /\ s \in Bucket(active) /\ Moving(s) /\ UNCHANGED Rest
  BY DEF Step, Rest, month, loop, output
<1>2. /\ empty[s] \in 0 .. MaxEmpty /\ fast[s] \in 0 .. MaxFast /\ MaxEmpty \in Nat /\ MaxFast \in Nat
      /\ empty \in [Seeds -> Nat] /\ fast \in [Seeds -> Nat]
  BY <1>1, MovingIs DEF IInv, Types
<1>3. empty = [empty EXCEPT ![s] = empty[s]] /\ fast = [fast EXCEPT ![s] = fast[s]]
  BY <1>2
<1>4. CASE ReachStop(w, s)
  <2>1. Streaks(s)
    BY <1>2, <1>3, <1>4 DEF ReachStop, Streaks
  <2>2. AtStop(s) /\ Finish(w, s, Sampled(s))
    BY <1>4 DEF ReachStop
  <2>. QED  BY <1>1, <2>1, <2>2, SampledDecodes, FinishStep
<1>5. CASE Expire(w, s)
  <2>1. Streaks(s)
    BY <1>2, <1>3, <1>5 DEF Expire, Streaks
  <2>2. Expired(s) /\ Finish(w, s, traj[s])
    BY <1>5 DEF Expire
  <2>3. traj[s] # NoTraj
    <3>. SUFFICES ASSUME traj[s] = NoTraj  PROVE FALSE
      OBVIOUS
    <3>1. idx[s] = Start[s] /\ Start[s] \in Int /\ Dt \in Nat /\ Life \in Nat \ {0}
      BY <1>1, MovingIs
    <3>2. (Start[s] - idx[s]) * Dt = 0
      BY <3>1
    <3>. QED  BY <2>2, <3>1, <3>2 DEF Expired
  <2>. QED  BY <1>1, <2>1, <2>2, <2>3, TrajDecodes, FinishStep
<1>6. CASE NoSea(w, s)
  <2>1. /\ ~AtStop(s) /\ ~Expired(s) /\ fast' = fast
        /\ empty' = [empty EXCEPT ![s] = empty[s] + 1] /\ empty'[s] = empty[s] + 1
        /\ IF empty[s] + 1 > MaxEmpty THEN Finish(w, s, Sampled(s)) ELSE GoOn(s, Sampled(s))
    BY <1>2, <1>6 DEF NoSea, SampledOffSea
  <2>2. Streaks(s)
    <3>1. empty[s] + 1 \in 0 .. MaxEmpty + 1 /\ fast[s] \in 0 .. MaxFast + 1
      BY <1>2
    <3>. QED  BY <1>3, <2>1, <3>1 DEF Streaks
  <2>3. CASE empty[s] + 1 > MaxEmpty
    BY <1>1, <2>1, <2>2, <2>3, SampledDecodes, FinishStep
  <2>4. CASE ~(empty[s] + 1 > MaxEmpty)
    <3>1. empty'[s] <= MaxEmpty /\ fast'[s] <= MaxFast
      BY <1>2, <2>1, <2>4
    <3>. QED  BY <1>1, <2>1, <2>2, <2>4, <3>1, GoOnStep
  <2>. QED  BY <2>3, <2>4
<1>7. ASSUME NEW speed \in {"slow", "fast", "absurd"}, Sail(w, s, speed)  PROVE IInv'
  <2>1. /\ ~AtStop(s) /\ ~Expired(s)
        /\ empty' = [empty EXCEPT ![s] = 0] /\ empty'[s] = 0
        /\ fast' = [fast EXCEPT ![s] = IF speed = "slow" THEN 0 ELSE @ + 1]
        /\ IF fast'[s] > MaxFast \/ speed = "absurd" THEN Finish(w, s, Sampled(s)) ELSE GoOn(s, Sampled(s))
    BY <1>2, <1>7 DEF Sail
  <2>2. Streaks(s) /\ fast'[s] \in 0 .. MaxFast + 1
    <3> DEFINE f == IF speed = "slow" THEN 0 ELSE fast[s] + 1
    <3>1. f \in 0 .. MaxFast + 1
      BY <1>2
    <3>2. fast' = [fast EXCEPT ![s] = f]
      BY <2>1
    <3>. HIDE DEF f
    <3>3. 0 \in 0 .. MaxEmpty + 1
      BY <1>2
    <3>. QED  BY <1>2, <2>1, <3>1, <3>2, <3>3 DEF Streaks
  <2>3. CASE fast'[s] > MaxFast \/ speed = "absurd"
    BY <1>1, <2>1, <2>2, <2>3, SampledDecodes, FinishStep
  <2>4. CASE ~(fast'[s] > MaxFast \/ speed = "absurd")
    <3>1. empty'[s] <= MaxEmpty /\ fast'[s] <= MaxFast
      BY <1>2, <2>1, <2>2, <2>4
    <3>. QED  BY <1>1, <2>1, <2>2, <2>4, <3>1, GoOnStep
  <2>. QED  BY <2>3, <2>4
<1>. QED  BY <1>4, <1>5, <1>6, <1>7 DEF Step


-----------------------------------------------------------------------------
(***************************************************************************)
(* The theorems                                                            *)
(***************************************************************************)

LEMMA StutterStep == ASSUME IInv, UNCHANGED vars PROVE IInv'
<1>1. UNCHANGED <<pc, cur, older, buf, todo, active, pending, ram, idx, ended, traj, empty, fast, done_tls, cargo, file, closed>>
  BY DEF vars, month, loop, particle, output
<1>2. WhereInv' /\ FlightInv' /\ \A s \in Seeds : Written(s)' = Written(s) /\ Fresh(s)' = Fresh(s)
  BY <1>1, QuietHolders
<1>3. Types' /\ MonthInv'
  BY <1>1 DEF IInv, Types, MonthInv, FirstPending, Propagated, OfMonth, InMonth
<1>4. PhaseInv' /\ PairInv'
  BY <1>1, <1>2 DEF IInv, PhaseInv, PairInv
<1>5. ClockInv'
  BY <1>1 DEF IInv, ClockInv, Propagated, DayOf
<1>6. FreshInv'
  BY <1>1, <1>2 DEF IInv, FreshInv, OfMonth, InMonth, DayOf
<1>. QED  BY <1>2, <1>3, <1>4, <1>5, <1>6 DEF IInv

LEMMA StepInv == IInv /\ [Next]_vars => IInv'
<1>. SUFFICES ASSUME IInv, [Next]_vars  PROVE IInv'
  OBVIOUS
<1>1. CASE LoadFirst
  BY <1>1, LoadFirstStep
<1>2. CASE Activate
  BY <1>2, ActivateStep
<1>3. CASE LeaveBucket
  BY <1>3, LeaveBucketStep
<1>4. CASE EndWindow
  BY <1>4, EndWindowStep
<1>5. CASE WriteVel
  BY <1>5, WriteVelStep
<1>6. CASE Retire
  BY <1>6, RetireStep
<1>7. CASE Advance
  BY <1>7, AdvanceStep
<1>8. CASE EndSurvivors
  BY <1>8, EndSurvivorsStep
<1>9. CASE ClosePos \/ CloseVel
  BY <1>9, CloseStep
<1>10. CASE \E d \in todo : EnterBucket(d)
  BY <1>10, EnterBucketStep
<1>11. CASE \E w \in 1 .. Workers : FlushFinished(w)
  BY <1>11, FlushFinishedStep
<1>12. CASE \E w \in 1 .. Workers : \E s \in Seeds : Step(w, s)
  BY <1>12, ParticleStep
<1>13. CASE \E s \in Seeds : FlushSurvivor(s)
  BY <1>13, FlushSurvivorStep
<1>14. CASE Throw \/ Die \/ \E f \in Files : Unwind(f)
  BY <1>14, StopStep
<1>15. CASE UNCHANGED vars
  BY <1>15, StutterStep
<1>. QED
  BY <1>1, <1>2, <1>3, <1>4, <1>5, <1>6, <1>7, <1>8, <1>9, <1>10, <1>11, <1>12, <1>13, <1>14, <1>15 DEF Next, Progress

\* Throughout a run of hpc_trajectories each trajectory has one holder, and
\* every clock agrees with its trajectory and with the window.
THEOREM Invariance == Spec => []IInv
<1>. QED  BY InitInv, StepInv, PTL DEF Spec

\* Types; a particle is pending or in memory, never both, and what has left
\* memory (all_particles) has ended.
THEOREM TypeCorrect == Spec => []TypeOK
<1>1. ASSUME IInv  PROVE TypeOK
  <2>1. Types
    BY <1>1 DEF IInv
  <2>2. Good \subseteq Records
    BY DEF Good
  <2>3. /\ done_tls \in [1 .. Workers -> Seq(Records)] /\ file \in [Files -> Seq(Records)]
        /\ cargo \in Records \cup {NoCargo}
    <3>1. \A q \in Seq(Good) : q \in Seq(Records)
      BY <2>2
    <3>. QED  BY <2>1, <2>2, <3>1 DEF Types
  <2>4. \A s \in Seeds : traj[s] = NoTraj \/ traj[s] \in [first : Int, n : Nat \ {0}]
    BY <2>1 DEF Types, Trajs
  <2>5. \A s \in Seeds : empty[s] \in 0 .. MaxEmpty + 1 /\ fast[s] \in 0 .. MaxFast + 1
    <3>1. MaxEmpty \in Nat /\ MaxFast \in Nat /\ \A s \in Seeds : empty[s] \in Nat /\ fast[s] \in Nat
      BY <2>1, TrajectoryAssumption DEF Types
    <3>2. \A s \in Seeds : empty[s] <= MaxEmpty + 1 /\ fast[s] <= MaxFast + 1
      BY <1>1 DEF IInv, FlightInv, SeedInv
    <3>. QED  BY <3>1, <3>2
  <2>6. pending \cap ram = {} /\ \A s \in Seeds \ (pending \cup ram) : ended[s]
    BY <1>1 DEF IInv, WhereInv
  <2>. QED  BY <2>1, <2>3, <2>4, <2>5, <2>6 DEF Types, TypeOK
<1>. QED  BY <1>1, Invariance, PTL

\* The times a reader of a trajectory file computes are those of the samples.
THEOREM FilesDecode == Spec => []TimesDecode
<1>1. ASSUME IInv  PROVE TimesDecode
  <2>. SUFFICES ASSUME NEW f \in Files, NEW r \in ToSet(file[f])  PROVE Decodes(r)
    BY DEF TimesDecode, Decodes
  <2>1. file[f] \in Seq(Good)
    BY <1>1 DEF IInv, Types
  <2>2. PICK i \in DOMAIN file[f] : r = file[f][i]
    BY DEF ToSet
  <2>3. r \in Good
    BY <2>1, <2>2
  <2>. QED  BY <2>3 DEF Good
<1>. QED  BY <1>1, Invariance, PTL

\* The n-th velocity record belongs to the n-th position record, whatever goes
\* wrong between the two writes of flush_to.
THEOREM FilesPaired == Spec => []Paired
<1>1. ASSUME IInv  PROVE Paired
  <2> DEFINE p == file["pos"]
             v == file["vel"]
  <2>1. p \in Seq(Good) /\ v \in Seq(Good)
    BY <1>1 DEF IInv, Types, Files
  <2>2. p = v \/ \E r \in Good : p = Append(v, r)
    BY <1>1 DEF IInv, PairInv
  <2>3. pc = "done" => p = v /\ closed = Files
    BY <1>1 DEF IInv, PairInv, Stopped
  <2>. HIDE DEF p, v
  <2>4. ASSUME NEW r \in Good, p = Append(v, r)
        PROVE  IsPrefix(v, p) /\ Len(p) - Len(v) \in {0, 1}
    <3>1. Len(p) = Len(v) + 1 /\ Len(v) \in Nat /\ \A i \in 1 .. Len(v) : p[i] = v[i]
      BY <2>1, <2>4
    <3>2. SubSeq(p, 1, Len(v)) = SubSeq(v, 1, Len(v))
      BY <2>1, <3>1
    <3>. QED  BY <2>1, <3>1, <3>2 DEF IsPrefix
  <2>5. IsPrefix(v, p) /\ Len(p) - Len(v) \in {0, 1}
    <3>1. p = v => IsPrefix(v, p) /\ Len(p) - Len(v) = 0
      BY <2>1 DEF IsPrefix
    <3>. QED  BY <2>2, <2>4, <3>1
  <2>. QED  BY <2>3, <2>5 DEF Paired, p, v
<1>. QED  BY <1>1, Invariance, PTL


\* Before a month is propagated every particle in memory has something left
\* to do: what had ended was retired, and its clock is below the month's end.
THEOREM MemoryIsLive == Spec => []NoLingering
<1>1. ASSUME IInv  PROVE NoLingering
  <2>. SUFFICES ASSUME pc = "activate", NEW s \in ram
                PROVE  /\ ~ended[s] /\ (Stop[s] # NoIdx => idx[s] >= Stop[s])
                       /\ idx[s] * Dt < MonthBegin[cur + 1]
    BY DEF NoLingering
  <2>1. ~ended[s] /\ idx[s] * Dt < MonthBegin[cur + 1]
    BY <1>1 DEF IInv, PhaseInv, ClockInv
  <2>2. s \in Seeds /\ idx[s] \in Int /\ Stop[s] \in Int \cup {NoIdx}
    BY <1>1, TrajectoryAssumption DEF IInv, Types
  <2>3. Stop[s] # NoIdx => Stop[s] <= idx[s]
    BY <1>1, <2>1, <2>2 DEF IInv, FlightInv, SeedInv
  <2>. QED  BY <2>1, <2>2, <2>3
<1>. QED  BY <1>1, Invariance, PTL

\* Every seed of a visited month is written once to each file, although its
\* trajectory passes from the particle to a worker's list or to the survivors.
THEOREM EachSeedOnce == Spec => []WrittenOnce
<1>1. ASSUME IInv  PROVE WrittenOnce
  <2> DEFINE p == file["pos"]
             v == file["vel"]
  <2>1. /\ p \in Seq(Good) /\ v \in Seq(Good) /\ Distinct(p)
        /\ p = v \/ \E r \in Good : p = Append(v, r)
    BY <1>1 DEF IInv, Types, Files, WhereInv, PairInv
  <2>2. Distinct(v)
    BY <2>1, AppendSeeds
  <2>3. \A f \in Files : Distinct(file[f])
    BY <2>1, <2>2 DEF Files
  <2>4. ASSUME pc = "done", NEW f \in Files
        PROVE  {r.seed : r \in ToSet(file[f])} = Visited
    <3>1. file[f] = p
      BY <1>1, <2>4 DEF IInv, PairInv, Files, Stopped
    <3>2. {r.seed : r \in ToSet(file[f])} = SeedsOf(p)
      BY <3>1 DEF ToSet, SeedsOf
    <3>3. \A s \in Seeds : s \in SeedsOf(p) <=> s \notin pending
      BY <1>1, <2>4 DEF IInv, FreshInv, WhereInv, Written
    <3>4. SeedsOf(p) \subseteq Seeds
      BY <2>1, GoodIs DEF SeedsOf
    <3>5. FirstPending = FirstMonth
      <4>1. cur \in Int /\ FirstMonth \in Int /\ cur >= FirstMonth - 1 /\ cur < FirstMonth
        BY <1>1, <2>4, TrajectoryAssumption DEF IInv, Types, MonthInv, Ending
      <4>. QED  BY <2>4, <4>1 DEF FirstPending, Propagated
    <3>6. pending = {s \in Seeds : \A m \in FirstMonth .. EndMonth : s \notin OfMonth(m)}
      BY <1>1, <2>4, <3>5 DEF IInv, MonthInv, Stopped
    <3>7. pending = Seeds \ Visited /\ Visited \subseteq Seeds
      BY <3>6 DEF OfMonth, Visited
    <3>. QED  BY <3>2, <3>3, <3>4, <3>7
  <2>. QED  BY <2>3, <2>4 DEF WrittenOnce, Distinct
<1>. QED  BY <1>1, Invariance, PTL

\* A particle is advected with the field of another month only at an index that
\* truncation puts less than a step before a window that begins off the grid and
\* after the epoch, and there only in the last window or if the step reaches
\* beyond the month before, for every step and every calendar.
THEOREM FieldOfItsMonth == Spec => []RightMonth
<1>1. ASSUME IInv  PROVE RightMonth
  <2>. DEFINE t(s) == idx[s] * Dt
  <2>. SUFFICES ASSUME pc = "propagate", NEW s \in Bucket(active), Moving(s),
                       ~InMonth(t(s), PickMonth(t(s)))
                PROVE  /\ MonthBegin[cur] - Dt < t(s) /\ t(s) < MonthBegin[cur] /\ t(s) >= 0
                       /\ cur = FirstMonth \/ t(s) < MonthBegin[cur - 1]
    BY DEF RightMonth
  <2>1. s \in ram /\ s \in Seeds /\ ~ended[s] /\ idx[s] \in Int /\ idx[s] >= WindowFirst
    BY <1>1 DEF Bucket, Moving, IInv, Types
  <2>2. /\ cur \in FirstMonth .. EndMonth /\ FirstMonth \in Int /\ EndMonth \in Int
        /\ cur \in Int /\ Dt \in Nat \ {0}
        /\ buf[older] = cur /\ (cur > FirstMonth => buf[1 - older] = cur - 1)
    BY <1>1, TrajectoryAssumption DEF IInv, Types, MonthInv
  <2>3. cur \in Months /\ cur - 1 \in Months /\ cur + 1 \in Months
    BY <2>2 DEF Months
  <2>4. MonthBegin[cur] \in Int /\ MonthBegin[cur - 1] \in Int /\ MonthBegin[cur + 1] \in Int
    BY <2>3, TrajectoryAssumption
  <2>5. /\ t(s) \in Int /\ MonthBegin[cur] - Dt < t(s)
        /\ MonthBegin[cur] <= t(s) \/ 0 <= t(s)
    BY <2>1, <2>4, InWindow DEF WindowFirst
  <2>6. t(s) < MonthBegin[cur + 1]
    BY <1>1, <2>1 DEF IInv, ClockInv
  <2>. HIDE DEF t
  <2>7. ~InMonth(t(s), cur)
    BY <2>2 DEF PickMonth
  <2>8. t(s) < MonthBegin[cur]
    BY <2>4, <2>5, <2>6, <2>7 DEF InMonth
  <2>9. ASSUME cur # FirstMonth  PROVE t(s) < MonthBegin[cur - 1]
    <3>1. buf[1 - older] = cur - 1 /\ (cur - 1) + 1 = cur
      BY <2>2, <2>9
    <3>2. ~InMonth(t(s), cur - 1)
      BY <2>2, <2>7, <3>1 DEF PickMonth
    <3>. QED  BY <2>4, <2>5, <2>8, <3>1, <3>2 DEF InMonth
  <2>. QED  BY <2>4, <2>5, <2>8, <2>9
<1>. QED  BY <1>1, Invariance, PTL

=============================================================================
