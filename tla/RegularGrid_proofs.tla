------------------------- MODULE RegularGrid_proofs -------------------------
(***************************************************************************)
(* Proofs about RegularGrid, for every calendar, integration, size of the  *)
(* cache and set of seeds: no month is read twice, a look-up fails only    *)
(* when an integration touches more months than the cache holds, and the   *)
(* daily files list the seeds that moved.                                  *)
(***************************************************************************)
EXTENDS RegularGrid, TLAPS, FiniteSetTheorems

First == MonthOf(release)

\* The oldest and the latest month in the cache.
Lo == bundles[1]
Hi == bundles[1] + Len(bundles) - 1

Types ==
  /\ pc \in {"release", "prefetch", "integrate", "write", "missing", "done", "dead"}
  /\ last \in EndReleases
  /\ release \in Int /\ release >= StartRelease /\ (release - StartRelease) % Day = 0
  /\ pc \in {"prefetch", "integrate", "write", "missing"} => release <= last
  /\ want \in Int
  /\ bundles \in Seq(Int) /\ Len(bundles) <= MaxCachedMonths
  /\ loads \in [Months -> Nat]
  /\ status \in [Seeds -> Statuses \cup {"new", "moving"}]
  /\ steps \in [Seeds -> Nat]

\* The cache is a window of the calendar, and nothing behind it was ever read.
WindowInv ==
  /\ \A i \in DOMAIN bundles : bundles[i] = bundles[1] + i - 1
  /\ \A m \in Months : loads[m] <= 1
  /\ \A m \in Months : bundles = <<>> \/ m > Hi => loads[m] = 0

\* The month to ask for next is in the window or right behind it.  The window
\* has left the first month of a release only if it is full of later ones.
CacheInv ==
  /\ pc = "release" /\ release <= last /\ bundles # <<>> => Lo <= First /\ First <= Hi + 1
  /\ pc \in {"prefetch", "integrate", "write", "missing"} =>
       /\ First <= want /\ want <= PrefetchEnd + 1
       /\ bundles = <<>> => want = First
       /\ bundles # <<>> => Lo <= want /\ want <= Hi + 1
       /\ bundles # <<>> /\ First < Lo => Len(bundles) = MaxCachedMonths /\ Hi <= PrefetchEnd
  /\ pc \in {"integrate", "write", "missing"} => want = PrefetchEnd + 1
  /\ pc \in {"integrate", "write"} => \A s \in Seeds : status[s] # "new" => Lo <= First
  /\ CacheCovers

\* How far a seed is in every state.
SeedInv(s) ==
  /\ status[s] = "new" => steps[s] = 0
  /\ status[s] = "moving" => steps[s] < NSteps
  /\ status[s] = "landed" => steps[s] >= 1
  /\ status[s] = "no_sea" => steps[s] >= 1 /\ steps[s] < NSteps
  /\ status[s] = "ok" => steps[s] = NSteps
  /\ status[s] \in {"start_land", "start_no_sea"} => steps[s] = 0
  /\ s \in moved[release] <=> steps[s] >= 1

\* No day has been touched before it is run.
FilesInv ==
  /\ DOMAIN file = ReleaseDays /\ moved \in [ReleaseDays -> SUBSET Seeds]
  /\ pc \in {"integrate", "write"} => \A s \in Seeds : SeedInv(s)
  /\ pc = "write" => file[release].state = "partial" /\ \A s \in Seeds : status[s] \in Statuses
  /\ \A t \in ReleaseDays : t > release => moved[t] = {}
  /\ pc \in {"release", "prefetch"} /\ release \in ReleaseDays => moved[release] = {}
  /\ \A t \in lost : t \in ReleaseDays /\ t < release
  /\ DailyFiles

IInv == Types /\ WindowInv /\ CacheInv /\ FilesInv

-----------------------------------------------------------------------------
(***************************************************************************)
(* The calendar                                                            *)
(***************************************************************************)

\* Times that some month contains.
Covered(t) == MonthBegin[0] <= t /\ t < MonthBegin[LastMonth + 1]

LEMMA MonthOfIs ==
  ASSUME NEW t \in Int, Covered(t)
  PROVE  /\ MonthOf(t) \in Months /\ MonthOf(t) \in Int
         /\ MonthBegin[MonthOf(t)] <= t /\ t < MonthBegin[MonthOf(t) + 1]
<1>1. MonthBegin[0] \in Int /\ MonthBegin[LastMonth + 1] \in Int /\ LastMonth \in Nat
  BY CalendarAssumption
<1>2. t \in MonthBegin[0] .. MonthBegin[LastMonth + 1] - 1
  BY <1>1 DEF Covered
<1>3. \E m \in Months : MonthBegin[m] <= t /\ t < MonthBegin[m + 1]
  BY <1>2, CalendarAssumption DEF Months
<1>. QED  BY <1>1, <1>3 DEF MonthOf, Months

\* Later times are in the same month or in later ones.
LEMMA MonthOfMono ==
  ASSUME NEW t \in Int, NEW u \in Int, Covered(t), Covered(u), t <= u
  PROVE  MonthOf(t) <= MonthOf(u)
<1> DEFINE m == MonthOf(t)
           k == MonthOf(u)
<1>1. /\ m \in Months /\ MonthBegin[m] <= t
      /\ k \in Months /\ u < MonthBegin[k + 1]
  BY MonthOfIs
<1>. HIDE DEF m, k
<1>2. SUFFICES ASSUME k < m  PROVE FALSE
  BY <1>1, CalendarAssumption DEF m, k, Months
<1>3. k + 1 = m \/ MonthBegin[k + 1] < MonthBegin[m]
  BY <1>1, <1>2, CalendarAssumption DEF Months
<1>4. MonthBegin[k + 1] \in Int /\ MonthBegin[m] \in Int
  BY <1>1, CalendarAssumption DEF Months
<1>. QED  BY <1>1, <1>3, <1>4

\* Releases and the ends of their integrations are in the calendar.
LEMMA ReleaseCovered ==
  ASSUME last \in EndReleases, NEW t \in Int, StartRelease <= t, t <= last
  PROVE  /\ Covered(t) /\ t + Integration \in Int /\ Covered(t + Integration)
         /\ \A u \in t .. t + Integration : Covered(u)
BY GridAssumption, CalendarAssumption DEF Covered

\* The next release begins in a month that this one's integration touches, or
\* in the one after these.
LEMMA NextMonthFollows ==
  ASSUME last \in EndReleases, NEW t \in Int, StartRelease <= t, t + Day <= last
  PROVE  MonthOf(t) <= MonthOf(t + Day) /\ MonthOf(t + Day) <= MonthOf(t + Integration) + 1
<1>1. /\ Covered(t) /\ Covered(t + Day) /\ Covered(t + Integration)
      /\ t + Day \in Int /\ t + Integration \in Int /\ t <= t + Day /\ t <= t + Integration
  BY GridAssumption, ReleaseCovered
<1>2. MonthOf(t) <= MonthOf(t + Day) /\ MonthOf(t) <= MonthOf(t + Integration)
  BY <1>1, MonthOfMono
<1>3. CASE Day <= Integration
  <2>1. MonthOf(t + Day) <= MonthOf(t + Integration)
    BY <1>1, <1>3, MonthOfMono, GridAssumption
  <2>2. MonthOf(t + Day) \in Int /\ MonthOf(t + Integration) \in Int
    BY <1>1, MonthOfIs
  <2>. QED  BY <1>2, <2>1, <2>2
<1>4. CASE \A m \in 0 .. LastMonth : MonthBegin[m + 1] - MonthBegin[m] >= Day
  <2> DEFINE m == MonthOf(t)
             k == MonthOf(t + Day)
             e == MonthOf(t + Integration)
  <2>1. /\ m \in Months /\ t < MonthBegin[m + 1]
        /\ k \in Months /\ MonthBegin[k] <= t + Day
        /\ e \in Months /\ m <= e /\ m <= k
    BY <1>1, <1>2, MonthOfIs
  <2>. HIDE DEF m, k, e
  <2>2. k <= m + 1
    <3>. SUFFICES ASSUME m + 1 < k  PROVE FALSE
      BY <2>1, CalendarAssumption DEF Months
    <3>1. m + 1 \in 0 .. LastMonth /\ m + 2 \in 0 .. LastMonth /\ m + 2 <= k /\ (m + 1) + 1 = m + 2
      BY <2>1, CalendarAssumption DEF Months
    <3>2. MonthBegin[m + 2] - MonthBegin[m + 1] >= Day
      BY <1>4, <3>1
    <3>3. m + 2 = k \/ MonthBegin[m + 2] < MonthBegin[k]
      BY <2>1, <3>1, CalendarAssumption DEF Months
    <3>4. MonthBegin[m + 1] \in Int /\ MonthBegin[m + 2] \in Int /\ MonthBegin[k] \in Int
      BY <2>1, <3>1, CalendarAssumption DEF Months
    <3>. QED  BY <2>1, <3>2, <3>3, <3>4, GridAssumption
  <2>3. m <= k /\ k <= e + 1
    BY <2>1, <2>2, CalendarAssumption DEF Months
  <2>. QED  BY <2>3 DEF m, k, e
<1>. QED  BY <1>3, <1>4, CalendarAssumption

-----------------------------------------------------------------------------
(***************************************************************************)
(* Release days                                                            *)
(***************************************************************************)

LEMMA Quotient ==
  ASSUME NEW x \in Int, NEW d \in Nat \ {0}
  PROVE  /\ x \div d \in Int /\ x % d \in Int
         /\ x = d * (x \div d) + (x % d) /\ 0 <= x % d /\ x % d < d
OBVIOUS

LEMMA ProductStep ==
  ASSUME NEW p \in Int, NEW q \in Int, NEW d \in Nat \ {0}, p < q
  PROVE  d * p \in Int /\ d * q \in Int /\ d * p + d <= d * q
<1>1. p + 1 <= q
  OBVIOUS
<1>2. d * (p + 1) <= d * q
  BY <1>1
<1>3. d * (p + 1) = d * p + d
  OBVIOUS
<1>. QED  BY <1>2, <1>3

\* Multiples that are less than d apart are the same.
LEMMA SameMultiple ==
  ASSUME NEW x \in Int, NEW y \in Int, NEW d \in Nat \ {0},
         x % d = 0, y % d = 0, x <= y, y < x + d
  PROVE  x = y
<1> DEFINE p == x \div d
           q == y \div d
<1>1. p \in Int /\ q \in Int /\ x = d * p /\ y = d * q
  BY Quotient
<1>. HIDE DEF p, q
<1>2. ~(p < q)
  BY <1>1, ProductStep
<1>3. ~(q < p)
  BY <1>1, ProductStep
<1>. QED  BY <1>1, <1>2, <1>3

\* The multiple after x.
LEMMA NextMultiple ==
  ASSUME NEW x \in Int, NEW d \in Nat \ {0}, x % d = 0
  PROVE  (x + d) % d = 0
<1> DEFINE p == x \div d
           y == x + d
           q == y \div d
           e == y % d
<1>1. p \in Int /\ x = d * p
  BY Quotient
<1>2. y \in Int /\ q \in Int /\ e \in Int /\ y = d * q + e /\ 0 <= e /\ e < d
  BY Quotient
<1>3. y = x + d
  OBVIOUS
<1>. HIDE DEF p, q, e, y
<1>4. d * (p + 1) = d * p + d /\ d * p \in Int
  BY <1>1
<1>5. ~(p + 1 < q)
  BY <1>1, <1>2, <1>3, <1>4, ProductStep
<1>6. ~(q < p + 1)
  BY <1>1, <1>2, <1>3, <1>4, ProductStep
<1>7. q = p + 1
  BY <1>1, <1>2, <1>5, <1>6
<1>8. e = 0
  BY <1>1, <1>2, <1>3, <1>4, <1>7
<1>. QED  BY <1>8 DEF e, y

-----------------------------------------------------------------------------
(***************************************************************************)
(* The cache                                                               *)
(***************************************************************************)

LEMMA CachedIs ==
  ASSUME Types, WindowInv, NEW m \in Int
  PROVE  m \in Cached <=> bundles # <<>> /\ Lo <= m /\ m <= Hi
<1>1. bundles \in Seq(Int) /\ DOMAIN bundles = 1 .. Len(bundles) /\ Len(bundles) \in Nat
  BY DEF Types
<1>2. bundles # <<>> => 1 \in DOMAIN bundles /\ bundles[1] \in Int
  BY <1>1
<1>3. ASSUME m \in Cached  PROVE bundles # <<>> /\ Lo <= m /\ m <= Hi
  <2>1. PICK i \in DOMAIN bundles : m = bundles[i]
    BY <1>3 DEF Cached
  <2>2. m = bundles[1] + i - 1 /\ i \in 1 .. Len(bundles) /\ bundles # <<>>
    BY <1>1, <2>1 DEF WindowInv
  <2>. QED  BY <1>1, <1>2, <2>2 DEF Lo, Hi
<1>4. ASSUME bundles # <<>>, Lo <= m, m <= Hi  PROVE m \in Cached
  <2> DEFINE i == m - bundles[1] + 1
  <2>1. i \in DOMAIN bundles
    BY <1>1, <1>2, <1>4 DEF Lo, Hi
  <2>2. bundles[i] = bundles[1] + i - 1
    BY <2>1 DEF WindowInv
  <2>3. bundles[i] = m
    BY <1>2, <1>4, <2>2
  <2>. QED  BY <2>1, <2>3 DEF Cached
<1>. QED  BY <1>3, <1>4

LEMMA NoneBetween == \A x, y \in Int : x <= y /\ x + 1 > y => x = y
OBVIOUS

\* Adding the month behind the window moves it by one month when it is full.
LEMMA EvictIs ==
  ASSUME NEW b \in Seq(Int), Len(b) <= MaxCachedMonths,
         \A i \in DOMAIN b : b[i] = b[1] + i - 1,
         NEW w \in Int, b = <<>> \/ w = b[1] + Len(b)
  PROVE  LET c == Evict(Append(b, w)) IN
         /\ c \in Seq(Int) /\ c # <<>> /\ Len(c) <= MaxCachedMonths
         /\ \A i \in DOMAIN c : c[i] = c[1] + i - 1
         /\ c[1] \in Int /\ c[1] + Len(c) - 1 = w
         /\ \/ b = <<>> /\ c[1] = w
            \/ b # <<>> /\ c[1] = b[1]
            \/ b # <<>> /\ Len(c) = MaxCachedMonths
<1> DEFINE a == Append(b, w)
<1>1. /\ a \in Seq(Int) /\ Len(a) = Len(b) + 1 /\ a # <<>> /\ Len(b) \in Nat
      /\ DOMAIN a = 1 .. Len(a) /\ DOMAIN b = 1 .. Len(b)
      /\ \A i \in 1 .. Len(b) : a[i] = b[i]
      /\ a[Len(a)] = w
  OBVIOUS
<1>2. MaxCachedMonths \in Nat \ {0}
  BY GridAssumption
<1>. HIDE DEF a
<1> DEFINE c == Evict(a)
<1>3. CASE b = <<>>
  <2>1. Len(b) = 0 /\ Len(a) = 1 /\ a[1] = w
    BY <1>1, <1>3
  <2>2. c = a
    BY <1>1, <1>2, <2>1 DEF Evict
  <2>. HIDE DEF c
  <2>3. \A i \in DOMAIN c : c[i] = c[1] + i - 1
    BY <1>1, <2>1, <2>2
  <2>4. c[1] = w /\ Len(c) = 1 /\ c \in Seq(Int) /\ c # <<>>
    BY <1>1, <2>1, <2>2
  <2>. QED  BY <1>2, <1>3, <2>3, <2>4 DEF a, c
<1>4. CASE b # <<>>
  <2>1. Len(b) >= 1 /\ b[1] \in Int /\ a[1] = b[1]
    BY <1>1, <1>4
  <2>2. \A i \in 1 .. Len(a) : a[i] = b[1] + i - 1
    <3>1. \A i \in 1 .. Len(b) : a[i] = b[1] + i - 1
      BY <1>1
    <3>2. a[Len(a)] = b[1] + Len(a) - 1
      BY <1>1, <1>4, <2>1
    <3>3. \A i \in 1 .. Len(a) : i \in 1 .. Len(b) \/ i = Len(a)
      BY <1>1
    <3>. QED  BY <3>1, <3>2, <3>3
  <2>3. CASE Len(a) <= MaxCachedMonths
    <3>1. c = a
      BY <1>1, <1>2, <2>3 DEF Evict
    <3>. HIDE DEF c
    <3>2. c[1] = b[1] /\ Len(c) = Len(b) + 1 /\ c \in Seq(Int) /\ c # <<>>
      BY <1>1, <2>1, <3>1
    <3>3. \A i \in DOMAIN c : c[i] = c[1] + i - 1
      BY <1>1, <2>1, <2>2, <3>1
    <3>4. c[1] + Len(c) - 1 = w
      BY <1>1, <1>4, <2>1, <3>2
    <3>5. Len(c) <= MaxCachedMonths
      BY <2>3, <3>1
    <3>. QED  BY <1>4, <2>1, <3>2, <3>3, <3>4, <3>5 DEF a, c
  <2>4. CASE Len(a) > MaxCachedMonths
    <3>1. c = Tail(a)
      BY <2>4 DEF Evict
    <3>2. /\ Tail(a) \in Seq(Int) /\ Len(Tail(a)) = Len(a) - 1
          /\ \A i \in 1 .. Len(a) - 1 : Tail(a)[i] = a[i + 1]
      BY <1>1
    <3>. HIDE DEF c
    <3>3. /\ c \in Seq(Int) /\ Len(c) = Len(b) /\ DOMAIN c = 1 .. Len(b)
          /\ \A i \in 1 .. Len(b) : c[i] = a[i + 1]
      BY <1>1, <3>1, <3>2
    <3>4. \A i \in 1 .. Len(b) : c[i] = b[1] + i
      BY <1>1, <2>1, <2>2, <3>3
    <3>5. c[1] = b[1] + 1 /\ c # <<>>
      <4>1. 1 \in 1 .. Len(b)
        BY <1>1, <2>1
      <4>. QED  BY <3>3, <3>4, <4>1
    <3>6. Len(b) = MaxCachedMonths
      <4>1. Len(b) <= MaxCachedMonths /\ Len(b) + 1 > MaxCachedMonths
        BY <1>1, <2>4
      <4>2. Len(b) \in Int /\ MaxCachedMonths \in Int
        BY <1>1, <1>2
      <4>. QED  BY <4>1, <4>2, NoneBetween
    <3>7. \A i \in DOMAIN c : c[i] = c[1] + i - 1
      BY <2>1, <3>3, <3>4, <3>5
    <3>8. c[1] + Len(c) - 1 = w
      BY <1>1, <1>4, <2>1, <3>3, <3>5
    <3>9. c[1] \in Int /\ Len(c) = MaxCachedMonths /\ Len(c) <= MaxCachedMonths
      BY <1>2, <2>1, <3>3, <3>5, <3>6
    <3>. QED  BY <1>4, <3>3, <3>5, <3>7, <3>8, <3>9 DEF a, c
  <2>. QED  BY <1>1, <1>2, <2>3, <2>4
<1>. QED  BY <1>3, <1>4

-----------------------------------------------------------------------------
(***************************************************************************)
(* The steps                                                               *)
(***************************************************************************)

LEMMA NStepsIs == NSteps \in Nat /\ NSteps >= 1 /\ Dt * NSteps <= Integration
<1>1. Integration \in Int /\ Dt \in Nat \ {0} /\ Dt <= Integration
  BY GridAssumption
<1> DEFINE q == Integration \div Dt
           e == Integration % Dt
<1>2. q \in Int /\ e \in Int /\ Integration = Dt * q + e /\ 0 <= e /\ e < Dt
  BY <1>1, Quotient
<1>. HIDE DEF q, e
<1>3. ~(q < 1)
  <2>1. q < 1 => Dt * q + Dt <= Dt * 1
    BY <1>1, <1>2, ProductStep
  <2>. QED  BY <1>1, <1>2, <2>1
<1>. QED  BY <1>1, <1>2, <1>3 DEF NSteps, q

\* The months of the current release.
LEMMA FirstIs ==
  ASSUME Types, release <= last
  PROVE  /\ First \in Months /\ First \in Int /\ PrefetchEnd \in Months /\ PrefetchEnd \in Int
         /\ First <= PrefetchEnd
         /\ \A t \in release .. release + Integration :
              MonthOf(t) \in Int /\ First <= MonthOf(t) /\ MonthOf(t) <= PrefetchEnd
<1>1. /\ release \in Int /\ Covered(release) /\ release + Integration \in Int
      /\ Covered(release + Integration)
      /\ \A t \in release .. release + Integration : Covered(t)
  BY ReleaseCovered DEF Types
<1>2. release <= release + Integration
  BY <1>1, GridAssumption
<1>3. \A t \in release .. release + Integration : t \in Int /\ release <= t /\ t <= release + Integration
  BY <1>1
<1>. QED  BY <1>1, <1>2, <1>3, MonthOfIs, MonthOfMono DEF First, PrefetchEnd

LEMMA IsReleaseDay ==
  ASSUME Types, release <= last
  PROVE  release \in ReleaseDays
BY GridAssumption DEF Types, ReleaseDays

LEMMA InitInv == Init => IInv
<1>. SUFFICES ASSUME Init  PROVE IInv
  OBVIOUS
<1>1. Types
  <2>1. (release - StartRelease) % Day = 0
    <3>1. release - StartRelease = 0 /\ Day \in Nat \ {0}
      BY GridAssumption DEF Init
    <3>2. 0 % Day = 0
      BY <3>1, Quotient
    <3>. QED  BY <3>1, <3>2
  <2>2. bundles \in Seq(Int) /\ Len(bundles) <= MaxCachedMonths
    BY GridAssumption DEF Init
  <2>. QED  BY <2>1, <2>2, GridAssumption DEF Init, Types
<1>2. WindowInv
  BY DEF Init, WindowInv
<1>3. CacheInv
  BY DEF Init, CacheInv, CacheCovers
<1>4. FilesInv
  <2>1. \A t \in ReleaseDays : file[t].state = "absent" /\ ~(t < release)
    BY GridAssumption DEF Init, ReleaseDays, Absent
  <2>2. DailyFiles
    BY <2>1 DEF DailyFiles, DailyFile
  <2>3. moved \in [ReleaseDays -> SUBSET Seeds] /\ \A t \in ReleaseDays : moved[t] = {}
    BY DEF Init
  <2>. QED  BY <2>2, <2>3 DEF Init, FilesInv
<1>. QED  BY <1>1, <1>2, <1>3, <1>4 DEF IInv

LEMMA BeginReleaseStep ==
  ASSUME IInv, BeginRelease
  PROVE  IInv'
<1>1. /\ Types /\ pc = "release" /\ release <= last /\ pc' = "prefetch" /\ want' = First
      /\ UNCHANGED <<last, release, bundles, loads, status, steps, moved, file, lost>>
  BY DEF IInv, BeginRelease, First, result, output
<1>2. First' = First /\ PrefetchEnd' = PrefetchEnd /\ Lo' = Lo /\ Hi' = Hi
  BY <1>1 DEF First, PrefetchEnd, Lo, Hi
<1>3. First \in Int /\ PrefetchEnd \in Int /\ First <= PrefetchEnd
  BY <1>1, FirstIs
<1>4. Types'
  BY <1>1, <1>3 DEF Types
<1>5. WindowInv'
  BY <1>1 DEF IInv, WindowInv, Hi
<1>6. bundles # <<>> => Lo <= First /\ First <= Hi + 1 /\ Lo \in Int
  <2>1. bundles # <<>> => bundles[1] \in Int
    BY <1>1 DEF Types
  <2>. QED  BY <1>1, <2>1 DEF IInv, CacheInv, Lo
<1>7. CacheInv'
  BY <1>1, <1>2, <1>3, <1>6 DEF CacheInv, CacheCovers
<1>8. FilesInv'
  BY <1>1 DEF IInv, FilesInv, DailyFiles, DailyFile, ReleaseDays
<1>. QED  BY <1>4, <1>5, <1>7, <1>8 DEF IInv

LEMMA PrefetchStep ==
  ASSUME IInv, Prefetch
  PROVE  IInv'
<1>1. /\ Types /\ WindowInv /\ CacheInv /\ pc = "prefetch" /\ want <= PrefetchEnd /\ want' = want + 1
      /\ UNCHANGED <<last, pc, release, status, steps, moved, file, lost>>
  BY DEF IInv, Prefetch, result, output
<1>2. First' = First /\ PrefetchEnd' = PrefetchEnd
  BY <1>1 DEF First, PrefetchEnd
<1>3. /\ want \in Int /\ First \in Months /\ PrefetchEnd \in Months
      /\ First \in Int /\ PrefetchEnd \in Int /\ First <= want /\ want \in Months
  <2>1. want \in Int /\ release <= last /\ First <= want
    BY <1>1 DEF Types, CacheInv
  <2>2. First \in Months /\ PrefetchEnd \in Months /\ First \in Int /\ PrefetchEnd \in Int
    BY <1>1, <2>1, FirstIs
  <2>3. want \in Months
    BY <1>1, <2>1, <2>2, CalendarAssumption DEF Months
  <2>. QED  BY <2>1, <2>2, <2>3
<1>4. /\ bundles \in Seq(Int) /\ Len(bundles) \in Nat /\ loads \in [Months -> Nat]
      /\ bundles # <<>> => Lo \in Int /\ Hi \in Int
  BY <1>1 DEF Types, Lo, Hi
<1>5. FilesInv'
  BY <1>1 DEF IInv, FilesInv, DailyFiles, DailyFile, ReleaseDays
<1>6. CASE want \in Cached
  <2>1. UNCHANGED <<bundles, loads>>
    BY <1>6 DEF Prefetch
  <2>2. Lo' = Lo /\ Hi' = Hi
    BY <2>1 DEF Lo, Hi
  <2>3. bundles # <<>> /\ Lo <= want /\ want <= Hi
    BY <1>1, <1>3, <1>6, CachedIs
  <2>4. Types'
    BY <1>1, <1>3, <2>1 DEF Types
  <2>5. WindowInv'
    BY <1>1, <2>1 DEF WindowInv, Hi
  <2>6. CacheInv'
    BY <1>1, <1>2, <1>3, <1>4, <2>1, <2>2, <2>3 DEF CacheInv, CacheCovers
  <2>. QED  BY <1>5, <2>4, <2>5, <2>6 DEF IInv
<1>7. CASE want \notin Cached
  <2>1. bundles' = Evict(Append(bundles, want)) /\ loads' = [loads EXCEPT ![want] = @ + 1]
    BY <1>7 DEF Prefetch
  <2>2. bundles = <<>> \/ (Lo <= want /\ want = Hi + 1)
    <3>1. bundles = <<>> \/ (Lo <= want /\ want <= Hi + 1)
      BY <1>1 DEF CacheInv
    <3>2. bundles = <<>> \/ ~(want <= Hi)
      BY <1>1, <1>3, <1>7, <3>1, CachedIs
    <3>. QED  BY <1>3, <1>4, <3>1, <3>2
  <2>3. bundles = <<>> \/ want = bundles[1] + Len(bundles)
    BY <1>4, <2>2 DEF Lo, Hi
  <2>4. /\ bundles' \in Seq(Int) /\ bundles' # <<>> /\ Len(bundles') <= MaxCachedMonths
        /\ \A i \in DOMAIN bundles' : bundles'[i] = bundles'[1] + i - 1
        /\ Lo' \in Int /\ Hi' = want
        /\ \/ bundles = <<>> /\ Lo' = want
           \/ bundles # <<>> /\ Lo' = Lo
           \/ bundles # <<>> /\ Len(bundles') = MaxCachedMonths
    <3>1. Len(bundles) <= MaxCachedMonths /\ \A i \in DOMAIN bundles : bundles[i] = bundles[1] + i - 1
      BY <1>1 DEF Types, WindowInv
    <3>. QED  BY <1>3, <1>4, <2>1, <2>3, <3>1, EvictIs DEF Lo, Hi
  <2>5. loads[want] = 0
    <3>1. bundles = <<>> \/ want > Hi
      BY <1>3, <1>4, <2>2
    <3>. QED  BY <1>1, <1>3, <3>1 DEF WindowInv
  <2>6. loads' \in [Months -> Nat] /\ loads'[want] = 1 /\ \A m \in Months : m # want => loads'[m] = loads[m]
    BY <1>3, <1>4, <2>1, <2>5
  <2>7. Types'
    BY <1>1, <1>3, <2>4, <2>6 DEF Types
  <2>8. \A m \in Months : m > want => loads'[m] = 0
    <3>. SUFFICES ASSUME NEW m \in Months, m > want  PROVE loads'[m] = 0
      OBVIOUS
    <3>1. m \in Int /\ m # want
      BY <1>3, CalendarAssumption DEF Months
    <3>2. bundles = <<>> \/ m > Hi
      BY <1>3, <1>4, <2>2, <3>1
    <3>. QED  BY <1>1, <2>6, <3>1, <3>2 DEF WindowInv
  <2>9. \A m \in Months : loads'[m] <= 1
    BY <1>1, <2>6 DEF WindowInv
  <2>10. WindowInv'
    BY <2>4, <2>8, <2>9 DEF WindowInv
  <2>11. Lo' <= want
    <3>1. Len(bundles') \in Nat /\ Len(bundles') >= 1
      BY <2>4
    <3>. QED  BY <2>4, <3>1 DEF Lo, Hi
  <2>12. First < Lo' => Len(bundles') = MaxCachedMonths /\ Hi' <= PrefetchEnd
    <3>. SUFFICES ASSUME First < Lo'  PROVE Len(bundles') = MaxCachedMonths
      BY <1>1, <2>4
    <3>1. bundles = <<>> => want = First
      BY <1>1 DEF CacheInv
    <3>2. CASE bundles # <<>> /\ Lo' = Lo
      <4>1. Len(bundles) = MaxCachedMonths
        BY <1>1, <3>2 DEF CacheInv
      <4>2. Hi' = Hi + (Len(bundles') - Len(bundles))
        BY <1>4, <2>4, <3>2 DEF Lo, Hi
      <4>3. want = Hi + 1
        BY <2>2, <3>2
      <4>4. Len(bundles') \in Nat /\ Len(bundles') > Len(bundles)
        <5>1. Len(bundles') \in Nat /\ Len(bundles) \in Nat /\ Hi \in Int
          BY <1>4, <2>4, <3>2
        <5>2. Hi + (Len(bundles') - Len(bundles)) = Hi + 1
          BY <2>4, <4>2, <4>3
        <5>. QED  BY <5>1, <5>2
      <4>. QED  BY <1>4, <2>4, <4>1, <4>4
    <3>. QED  BY <1>3, <2>4, <3>1, <3>2
  <2>13. CacheInv'
    <3>1. /\ First' <= want' /\ want' <= PrefetchEnd' + 1 /\ Lo' <= want' /\ want' <= Hi' + 1
      BY <1>1, <1>2, <1>3, <2>4, <2>11
    <3>. QED  BY <1>1, <1>2, <2>4, <2>12, <3>1 DEF CacheInv, CacheCovers
  <2>. QED  BY <1>5, <2>7, <2>10, <2>13 DEF IInv
<1>. QED  BY <1>6, <1>7

LEMMA BeginIntegrationStep ==
  ASSUME IInv, BeginIntegration
  PROVE  IInv'
<1>1. /\ Types /\ CacheInv /\ pc = "prefetch" /\ want > PrefetchEnd /\ pc' = "integrate"
      /\ status' = [s \in Seeds |-> "new"] /\ steps' = [s \in Seeds |-> 0]
      /\ UNCHANGED <<last, release, want, bundles, loads, moved, file, lost>>
  BY DEF IInv, BeginIntegration, cache, output
<1>2. First' = First /\ PrefetchEnd' = PrefetchEnd /\ Lo' = Lo /\ Hi' = Hi
  BY <1>1 DEF First, PrefetchEnd, Lo, Hi
<1>3. want \in Int /\ PrefetchEnd \in Int
  BY <1>1, FirstIs DEF Types
<1>4. want = PrefetchEnd + 1
  BY <1>1, <1>3 DEF CacheInv
<1>5. Types'
  BY <1>1 DEF Types
<1>6. WindowInv'
  BY <1>1 DEF IInv, WindowInv, Hi
<1>7. CacheInv'
  BY <1>1, <1>2, <1>4 DEF CacheInv, CacheCovers
<1>8. FilesInv'
  <2>1. release \in ReleaseDays /\ moved[release] = {}
    BY <1>1, IsReleaseDay DEF IInv, FilesInv, Types
  <2>2. \A s \in Seeds : SeedInv(s)'
    BY <1>1, <2>1, NStepsIs DEF SeedInv
  <2>. QED  BY <1>1, <2>2 DEF IInv, FilesInv, DailyFiles, DailyFile, ReleaseDays
<1>. QED  BY <1>5, <1>6, <1>7, <1>8 DEF IInv

\* What a seed that is still at work looks at is in the release's months.
LEMMA LooksInside ==
  ASSUME IInv, pc = "integrate", NEW s \in Seeds, status[s] \in {"new", "moving"}
  PROVE  /\ First <= MonthOf(NextLook(s)) /\ MonthOf(NextLook(s)) <= PrefetchEnd
         /\ MonthOf(NextLook(s)) \in Int
<1>1. /\ Types /\ release <= last /\ release \in Int /\ steps[s] \in Nat /\ SeedInv(s)
      /\ Dt \in Nat \ {0} /\ Integration \in Nat
  BY GridAssumption DEF IInv, Types, FilesInv
<1> DEFINE d == IF status[s] = "new" THEN 0 ELSE steps[s] + 1
<1>2. d \in Nat /\ d <= NSteps
  BY <1>1, NStepsIs DEF SeedInv
<1>3. NextLook(s) = release + d * Dt
  BY DEF NextLook
<1>. HIDE DEF d
<1>4. d * Dt \in Nat /\ d * Dt <= Integration
  <2>1. d * Dt \in Nat /\ d * Dt = Dt * d
    BY <1>1, <1>2
  <2>2. Dt * d <= Dt * NSteps
    <3>1. d < NSteps => Dt * d + Dt <= Dt * NSteps /\ Dt * d \in Int /\ Dt * NSteps \in Int
      BY <1>1, <1>2, NStepsIs, ProductStep
    <3>2. d < NSteps \/ d = NSteps
      BY <1>2, NStepsIs
    <3>3. Dt * NSteps <= Dt * NSteps
      BY <1>1, NStepsIs
    <3>. QED  BY <1>1, <3>1, <3>2, <3>3
  <2>3. Dt * NSteps \in Int
    BY <1>1, NStepsIs
  <2>. QED  BY <1>1, <2>1, <2>2, <2>3, NStepsIs
<1>5. NextLook(s) \in release .. release + Integration
  BY <1>1, <1>3, <1>4
<1>. QED  BY <1>1, <1>5, FirstIs

\* During the integration the window reaches the last month of the release.
LEMMA WindowReaches ==
  ASSUME IInv, pc \in {"integrate", "write"}
  PROVE  /\ release <= last /\ First \in Int /\ PrefetchEnd \in Int /\ First <= PrefetchEnd
         /\ bundles # <<>> /\ Lo \in Int /\ Hi \in Int /\ PrefetchEnd <= Hi
<1>1. /\ Types /\ CacheInv /\ release <= last /\ want = PrefetchEnd + 1
  BY DEF IInv, Types, CacheInv
<1>2. First \in Int /\ PrefetchEnd \in Int /\ First <= PrefetchEnd
  BY <1>1, FirstIs
<1>3. bundles # <<>>
  BY <1>1, <1>2 DEF CacheInv
<1>4. Lo \in Int /\ Hi \in Int
  BY <1>1, <1>3 DEF Types, Lo, Hi
<1>5. want <= Hi + 1
  BY <1>1, <1>3 DEF CacheInv
<1>. QED  BY <1>1, <1>2, <1>3, <1>4, <1>5

LEMMA MissMonthStep ==
  ASSUME IInv, NEW s \in Seeds, MissMonth(s)
  PROVE  IInv'
<1>1. /\ Types /\ WindowInv /\ CacheInv /\ pc = "integrate" /\ pc' = "missing"
      /\ status[s] \in {"new", "moving"} /\ MonthOf(NextLook(s)) \notin Cached
      /\ UNCHANGED <<last, release, want, bundles, loads, status, steps, moved, file, lost>>
  BY DEF IInv, MissMonth, Lookup, cache, result, output
<1>2. First' = First /\ PrefetchEnd' = PrefetchEnd /\ Lo' = Lo /\ Hi' = Hi /\ Span' = Span
  BY <1>1 DEF First, PrefetchEnd, Lo, Hi, Span
<1>3. /\ First \in Int /\ PrefetchEnd \in Int /\ bundles # <<>> /\ Lo \in Int /\ Hi \in Int
      /\ PrefetchEnd <= Hi
  BY <1>1, WindowReaches
<1>4. First < Lo
  <2> DEFINE m == MonthOf(NextLook(s))
  <2>1. m \in Int /\ First <= m /\ m <= PrefetchEnd
    BY <1>1, LooksInside
  <2>2. ~(Lo <= m /\ m <= Hi)
    BY <1>1, <1>3, <2>1, CachedIs
  <2>. HIDE DEF m
  <2>. QED  BY <1>3, <2>1, <2>2
<1>5. Cardinality(Span) > MaxCachedMonths
  <2>1. Len(bundles) = MaxCachedMonths /\ Hi <= PrefetchEnd /\ Len(bundles) \in Nat
    BY <1>1, <1>3, <1>4 DEF CacheInv, Types
  <2>2. Hi = Lo + Len(bundles) - 1
    BY DEF Hi, Lo
  <2>3. PrefetchEnd - First + 1 > MaxCachedMonths /\ ~(First > PrefetchEnd)
    BY <1>3, <1>4, <2>1, <2>2
  <2>4. Span = First .. PrefetchEnd
    BY DEF Span, First, PrefetchEnd
  <2>. QED  BY <1>3, <2>3, <2>4, FS_Interval
<1>6. \A r \in Seeds : status[r] = "new"
  BY <1>1, <1>3, <1>4 DEF CacheInv
<1>7. CacheCovers'
  BY <1>1, <1>2, <1>5, <1>6 DEF CacheCovers
<1>8. Types'
  BY <1>1 DEF IInv, Types
<1>9. WindowInv'
  BY <1>1 DEF WindowInv, Hi
<1>10. CacheInv'
  BY <1>1, <1>2, <1>7 DEF CacheInv
<1>11. FilesInv'
  BY <1>1 DEF IInv, FilesInv, DailyFiles, DailyFile, ReleaseDays
<1>. QED  BY <1>8, <1>9, <1>10, <1>11 DEF IInv

\* A step of one seed, which has found its first month in the cache.
LEMMA SeedStep ==
  ASSUME IInv, NEW s \in Seeds, StartSeed(s) \/ StrandSeed(s) \/ StepSeed(s)
  PROVE  IInv'
<1>1. /\ Types /\ WindowInv /\ CacheInv /\ pc = "integrate"
      /\ UNCHANGED <<last, pc, release, want, bundles, loads, file, lost>>
      /\ status[s] \in {"new", "moving"}
  BY DEF IInv, StartSeed, StrandSeed, StepSeed, cache, output
<1>2. First' = First /\ PrefetchEnd' = PrefetchEnd /\ Lo' = Lo /\ Hi' = Hi
  BY <1>1 DEF First, PrefetchEnd, Lo, Hi
<1>3. /\ status \in [Seeds -> Statuses \cup {"new", "moving"}] /\ steps \in [Seeds -> Nat]
      /\ \A r \in Seeds : SeedInv(r)
      /\ release \in ReleaseDays /\ moved \in [ReleaseDays -> SUBSET Seeds]
  BY <1>1, IsReleaseDay DEF IInv, Types, FilesInv
<1>4. /\ \E e \in Statuses \cup {"moving"} : status' = [status EXCEPT ![s] = e]
      /\ \E n \in Nat : steps' = [steps EXCEPT ![s] = n]
      /\ moved' \in {moved, [moved EXCEPT ![release] = @ \cup {s}]}
      /\ SeedInv(s)'
  <2>1. CASE StartSeed(s)
    <3>1. PICK e \in {"start_land", "moving"} : status' = [status EXCEPT ![s] = e]
      BY <2>1 DEF StartSeed
    <3>2. status[s] = "new" /\ steps' = steps /\ moved' = moved
      BY <2>1 DEF StartSeed
    <3>3. steps[s] = 0 /\ steps' = [steps EXCEPT ![s] = 0] /\ status'[s] = e /\ steps'[s] = 0
      BY <1>3, <3>1, <3>2 DEF SeedInv
    <3>4. SeedInv(s)'
      BY <1>1, <1>3, <3>1, <3>2, <3>3, NStepsIs DEF SeedInv
    <3>5. e \in Statuses \cup {"moving"} /\ 0 \in Nat
      BY <3>1 DEF Statuses
    <3>. QED  BY <3>1, <3>2, <3>3, <3>4, <3>5
  <2>2. CASE StrandSeed(s)
    <3> DEFINE e == IF steps[s] = 0 THEN "start_no_sea" ELSE "no_sea"
    <3>1. status[s] = "moving" /\ steps' = steps /\ moved' = moved /\ status' = [status EXCEPT ![s] = e]
      BY <2>2 DEF StrandSeed
    <3>2. /\ steps[s] < NSteps /\ steps[s] \in Nat /\ steps' = [steps EXCEPT ![s] = steps[s]]
          /\ status'[s] = e /\ steps'[s] = steps[s]
      BY <1>3, <3>1 DEF SeedInv
    <3>3. e \in Statuses
      BY DEF Statuses
    <3>4. SeedInv(s)'
      BY <1>1, <1>3, <3>1, <3>2 DEF SeedInv
    <3>. QED  BY <3>1, <3>2, <3>3, <3>4
  <2>3. CASE StepSeed(s)
    <3>1. PICK e \in {"landed", IF steps[s] + 1 = NSteps THEN "ok" ELSE "moving"} :
            status' = [status EXCEPT ![s] = e]
      BY <2>3 DEF StepSeed
    <3>2. /\ status[s] = "moving" /\ steps' = [steps EXCEPT ![s] = steps[s] + 1]
          /\ moved' = [moved EXCEPT ![release] = @ \cup {s}]
      BY <2>3 DEF StepSeed
    <3>3. /\ steps[s] < NSteps /\ steps[s] \in Nat /\ steps[s] + 1 \in Nat
          /\ status'[s] = e /\ steps'[s] = steps[s] + 1 /\ s \in moved'[release']
      BY <1>1, <1>3, <3>1, <3>2 DEF SeedInv
    <3>4. SeedInv(s)'
      BY <3>1, <3>3, NStepsIs DEF SeedInv
    <3>. QED  BY <3>1, <3>2, <3>3, <3>4 DEF Statuses
  <2>. QED  BY <2>1, <2>2, <2>3
<1>5. /\ status' \in [Seeds -> Statuses \cup {"new", "moving"}] /\ steps' \in [Seeds -> Nat]
      /\ status'[s] # "new"
      /\ \A r \in Seeds \ {s} : status'[r] = status[r] /\ steps'[r] = steps[r]
  BY <1>3, <1>4 DEF Statuses
<1>6. /\ moved' \in [ReleaseDays -> SUBSET Seeds]
      /\ \A t \in ReleaseDays \ {release} : moved'[t] = moved[t]
      /\ \A r \in Seeds \ {s} : r \in moved'[release] <=> r \in moved[release]
  BY <1>3, <1>4
<1>12. \A r \in Seeds : SeedInv(r)'
  BY <1>1, <1>3, <1>4, <1>5, <1>6 DEF SeedInv
<1>7. Lo <= First
  <2>1. CASE status[s] # "new"
    BY <1>1, <2>1 DEF CacheInv
  <2>2. CASE status[s] = "new"
    <3>1. StartSeed(s)
      BY <2>2 DEF StrandSeed, StepSeed
    <3>2. NextLook(s) = release
      BY <1>1, <2>2, GridAssumption DEF NextLook, Types
    <3>3. First \in Cached
      BY <3>1, <3>2 DEF StartSeed, Lookup, First
    <3>. QED  BY <1>1, <3>3, WindowReaches, CachedIs
  <2>. QED  BY <2>1, <2>2
<1>8. Types'
  BY <1>1, <1>5 DEF Types
<1>9. WindowInv'
  BY <1>1 DEF WindowInv, Hi
<1>10. CacheInv'
  BY <1>1, <1>2, <1>7 DEF CacheInv, CacheCovers
<1>11. FilesInv'
  <2>1. ReleaseDays' = ReleaseDays /\ release \in Int /\ \A t \in ReleaseDays : t \in Int
    BY <1>1, GridAssumption DEF ReleaseDays, Types
  <2>2. FilesInv /\ DailyFiles /\ file[release].state = "absent"
    BY <1>1, <1>3 DEF IInv, FilesInv, DailyFiles, DailyFile
  <2>3. DailyFiles'
    <3>. SUFFICES ASSUME NEW t \in ReleaseDays  PROVE DailyFile(t)'
      BY <2>1 DEF DailyFiles, DailyFile
    <3>1. CASE t = release
      BY <1>1, <2>2, <3>1, <2>1 DEF DailyFile
    <3>2. CASE t # release
      <4>1. moved'[t] = moved[t] /\ DailyFile(t)
        BY <1>6, <2>2, <3>2 DEF DailyFiles
      <4>. QED  BY <1>1, <4>1 DEF DailyFile
    <3>. QED  BY <3>1, <3>2
  <2>4. \A t \in ReleaseDays : t > release => moved'[t] = {}
    BY <1>6, <2>1, <2>2 DEF FilesInv
  <2>. QED  BY <1>1, <1>6, <1>12, <2>1, <2>2, <2>3, <2>4 DEF FilesInv
<1>. QED  BY <1>8, <1>9, <1>10, <1>11 DEF IInv

\* The day's file is created.
LEMMA CreateDayStep ==
  ASSUME IInv, CreateDay
  PROVE  IInv'
<1>1. /\ Types /\ WindowInv /\ CacheInv /\ FilesInv /\ pc = "integrate" /\ pc' = "write"
      /\ \A s \in Seeds : status[s] \in Statuses
      /\ file' = [file EXCEPT ![release] = Partial]
      /\ UNCHANGED <<last, release, want, bundles, loads, status, steps, moved, lost>>
  BY DEF IInv, CreateDay, cache, result
<1>2. First' = First /\ PrefetchEnd' = PrefetchEnd /\ Lo' = Lo /\ Hi' = Hi
  BY <1>1 DEF First, PrefetchEnd, Lo, Hi
<1>3. release \in Int /\ release \in ReleaseDays /\ ReleaseDays' = ReleaseDays
  BY <1>1, IsReleaseDay DEF Types, ReleaseDays
<1>4. Types' /\ WindowInv'
  BY <1>1 DEF Types, WindowInv, Hi
<1>5. CacheInv'
  BY <1>1, <1>2 DEF CacheInv, CacheCovers
<1>6. /\ DOMAIN file' = ReleaseDays /\ file'[release] = Partial
      /\ \A t \in ReleaseDays \ {release} : file'[t] = file[t]
  BY <1>1, <1>3 DEF FilesInv
<1>7. DailyFiles'
  <2>. SUFFICES ASSUME NEW t \in ReleaseDays  PROVE DailyFile(t)'
    BY <1>3 DEF DailyFiles
  <2>1. CASE t = release
    BY <1>1, <1>3, <1>6, <2>1 DEF DailyFile, Partial
  <2>2. CASE t # release
    <3>1. DailyFile(t) /\ file'[t] = file[t]
      BY <1>1, <1>6, <2>2 DEF FilesInv, DailyFiles
    <3>. QED  BY <1>1, <2>2, <3>1 DEF DailyFile
  <2>. QED  BY <2>1, <2>2
<1>8. \A s \in Seeds : SeedInv(s)'
  BY <1>1 DEF FilesInv, SeedInv
<1>9. FilesInv'
  BY <1>1, <1>3, <1>6, <1>7, <1>8 DEF FilesInv, Partial
<1>. QED  BY <1>4, <1>5, <1>9 DEF IInv

\* The file is complete, or nobody knows that it is not, and the next day begins.
LEMMA NextDayStep ==
  ASSUME IInv, FillDay \/ LoseDay
  PROVE  IInv'
<1>1. /\ Types /\ WindowInv /\ CacheInv /\ FilesInv /\ pc = "write" /\ pc' = "release"
      /\ release' = release + Day
      /\ UNCHANGED <<last, want, bundles, loads, status, steps, moved>>
      /\ \/ file' = [file EXCEPT ![release] = Whole(Rows)] /\ lost' = lost
         \/ file' = file /\ lost' = lost \cup {release}
      /\ \A s \in Seeds : status[s] \in Statuses
  BY DEF IInv, FilesInv, FillDay, LoseDay, NextDay, NextRelease, cache, result
<1>2. /\ release \in Int /\ release <= last /\ StartRelease <= release /\ last \in EndReleases
      /\ last \in Int /\ StartRelease \in Int /\ Day \in Nat \ {0}
      /\ (release - StartRelease) % Day = 0
  BY <1>1, GridAssumption DEF Types
<1>3. (release' - StartRelease) % Day = 0
  <2>1. release' - StartRelease = (release - StartRelease) + Day /\ release - StartRelease \in Int
    BY <1>1, <1>2
  <2>. QED  BY <1>2, <2>1, NextMultiple
<1>4. Types'
  <2>1. release' \in Int /\ release' >= StartRelease
    BY <1>1, <1>2
  <2>. QED  BY <1>1, <1>3, <2>1 DEF Types
<1>5. WindowInv'
  BY <1>1 DEF WindowInv, Hi
<1>6. CacheInv'
  <2>1. Lo <= First
    <3>1. PICK s \in Seeds : TRUE
      BY GridAssumption
    <3>2. status[s] # "new"
      BY <1>1 DEF Statuses
    <3>. QED  BY <1>1, <3>2 DEF CacheInv
  <2>2. /\ bundles # <<>> /\ Lo \in Int /\ Hi \in Int /\ PrefetchEnd <= Hi
        /\ First \in Int /\ PrefetchEnd \in Int
    BY <1>1, WindowReaches
  <2>3. release' <= last => First <= First' /\ First' <= PrefetchEnd + 1 /\ First' \in Int
    <3>. SUFFICES ASSUME release + Day <= last  PROVE First <= First' /\ First' <= PrefetchEnd + 1 /\ First' \in Int
      BY <1>1
    <3>1. First' = MonthOf(release + Day)
      BY <1>1 DEF First
    <3>2. release + Day \in Int /\ Covered(release + Day)
      BY <1>2, ReleaseCovered
    <3>. QED  BY <1>2, <3>1, <3>2, NextMonthFollows, MonthOfIs DEF First, PrefetchEnd
  <2>4. Lo' = Lo /\ Hi' = Hi /\ bundles' = bundles
    BY <1>1 DEF Lo, Hi
  <2>5. release' <= last' => Lo' <= First' /\ First' <= Hi' + 1
    BY <1>1, <2>1, <2>2, <2>3, <2>4
  <2>. QED  BY <1>1, <2>5 DEF CacheInv, CacheCovers
<1>7. ReleaseDays' = ReleaseDays /\ release \in ReleaseDays
  BY <1>1, <1>2 DEF ReleaseDays
<1>8. \A t \in ReleaseDays : t \in Int /\ (t < release' <=> t < release \/ t = release)
  <2>. SUFFICES ASSUME NEW t \in ReleaseDays  PROVE t \in Int /\ (t < release' <=> t < release \/ t = release)
    OBVIOUS
  <2>1. t \in Int /\ (t - StartRelease) % Day = 0 /\ t - StartRelease \in Int /\ release - StartRelease \in Int
    BY <1>2 DEF ReleaseDays
  <2>2. t < release' /\ release <= t => t = release
    <3>. SUFFICES ASSUME t < release', release <= t  PROVE t = release
      OBVIOUS
    <3>1. release - StartRelease <= t - StartRelease /\ t - StartRelease < (release - StartRelease) + Day
      BY <1>1, <1>2, <2>1
    <3>2. release - StartRelease = t - StartRelease
      BY <1>2, <2>1, <3>1, SameMultiple
    <3>. QED  BY <1>2, <2>1, <3>2
  <2>. QED  BY <1>1, <1>2, <2>1, <2>2
<1>9. /\ DOMAIN file' = ReleaseDays /\ release \notin lost
      /\ \/ file'[release] = Whole(Rows) /\ release \notin lost'
         \/ file'[release].state = "partial" /\ release \in lost'
      /\ \A t \in ReleaseDays \ {release} : file'[t] = file[t] /\ (t \in lost' <=> t \in lost)
  BY <1>1, <1>2, <1>7 DEF FilesInv
<1>10. \A s \in Seeds : /\ SeedInv(s) /\ steps[s] \in Nat
                        /\ Omitted(s) <=> s \notin moved[release]
                        /\ ~Omitted(s) => status[s] \in {"ok", "landed", "no_sea"}
  BY <1>1, NStepsIs DEF FilesInv, SeedInv, Types, Omitted, Statuses
<1>11. /\ DOMAIN Rows = moved[release]
       /\ \A s \in moved[release] : LET row == Rows[s] IN
            /\ row.steps >= 1
            /\ row.status = "ok" <=> row.steps = NSteps /\ row.status # "landed"
            /\ row.status = "no_sea" => row.steps < NSteps
  <2>1. moved[release] \subseteq Seeds /\ {r \in Seeds : ~Omitted(r)} = moved[release]
    BY <1>1, <1>7, <1>10 DEF FilesInv
  <2>2. Rows = [s \in moved[release] |-> [status |-> status[s], steps |-> steps[s]]]
    BY <2>1 DEF Rows
  <2>3. ASSUME NEW s \in moved[release]
        PROVE  /\ steps[s] >= 1 /\ (status[s] = "no_sea" => steps[s] < NSteps)
               /\ status[s] = "ok" <=> steps[s] = NSteps /\ status[s] # "landed"
    BY <1>10, <2>1, NStepsIs DEF SeedInv
  <2>. QED  BY <2>2, <2>3
<1>12. DailyFiles'
  <2>. SUFFICES ASSUME NEW t \in ReleaseDays  PROVE DailyFile(t)'
    BY <1>7 DEF DailyFiles
  <2>1. CASE t = release
    <3>1. t < release' /\ release' \in Int
      BY <1>1, <1>2, <2>1
    <3>2. CASE file'[release] = Whole(Rows) /\ release \notin lost'
      <4>1. file'[t].state = "whole" /\ file'[t].rows = Rows /\ moved'[t] = moved[release]
        BY <1>1, <2>1, <3>2 DEF Whole
      <4>. QED  BY <1>2, <1>11, <2>1, <3>1, <3>2, <4>1 DEF DailyFile
    <3>3. CASE file'[release].state = "partial" /\ release \in lost'
      BY <1>2, <2>1, <3>1, <3>3 DEF DailyFile
    <3>. QED  BY <1>9, <3>2, <3>3
  <2>2. CASE t # release
    <3>1. /\ DailyFile(t) /\ file'[t] = file[t] /\ (t \in lost' <=> t \in lost) /\ moved' = moved
          /\ (t < release' <=> t < release) /\ (t >= release' => t > release)
          /\ t \in Int /\ release' \in Int
      BY <1>1, <1>2, <1>8, <1>9, <2>2 DEF FilesInv, DailyFiles
    <3>. QED  BY <1>2, <2>2, <3>1 DEF DailyFile
  <2>. QED  BY <2>1, <2>2
<1>13. FilesInv'
  <2>1. \A t \in ReleaseDays : t >= release' => moved[t] = {}
    BY <1>1, <1>2, <1>8 DEF FilesInv
  <2>2. \A t \in lost' : t < release'
    <3>1. \A t \in lost' : t = release \/ t \in lost
      BY <1>1
    <3>2. \A t \in lost : t \in ReleaseDays
      BY <1>1 DEF FilesInv
    <3>. QED  BY <1>1, <1>2, <1>7, <1>8, <3>1, <3>2 DEF FilesInv
  <2>3. release' \in Int
    BY <1>1, <1>2
  <2>. QED  BY <1>1, <1>7, <1>8, <1>9, <1>12, <2>1, <2>2, <2>3 DEF FilesInv
<1>. QED  BY <1>4, <1>5, <1>6, <1>13 DEF IInv

LEMMA StepInv == IInv /\ [Next]_vars => IInv'
<1>. SUFFICES ASSUME IInv, [Next]_vars  PROVE IInv'
  OBVIOUS
<1>1. CASE Finish \/ Die
  <2>1. /\ pc' \in {"done", "dead"}
        /\ UNCHANGED <<last, release, want, bundles, loads, status, steps, moved, file, lost>>
    BY <1>1 DEF Finish, Die, cache, result, output
  <2>2. Types' /\ WindowInv'
    BY <2>1 DEF IInv, Types, WindowInv, Hi
  <2>3. CacheInv'
    BY <2>1 DEF IInv, CacheInv, CacheCovers
  <2>4. DailyFiles'
    <3>1. pc' = "dead" \/ pc = "release"
      BY <1>1 DEF Finish, Die
    <3>2. \A t \in ReleaseDays : DailyFile(t)'
      BY <2>1, <3>1 DEF IInv, FilesInv, DailyFiles, DailyFile
    <3>. QED  BY <2>1, <3>2 DEF DailyFiles, ReleaseDays
  <2>5. FilesInv'
    BY <2>1, <2>4 DEF IInv, FilesInv, ReleaseDays
  <2>. QED  BY <2>2, <2>3, <2>5 DEF IInv
<1>2. CASE UNCHANGED vars
  <2>1. UNCHANGED <<pc, last, release, want, bundles, loads, status, steps, moved, file, lost>>
    BY <1>2 DEF vars, cache, result, output
  <2>2. Types' /\ WindowInv'
    BY <2>1 DEF IInv, Types, WindowInv, Hi
  <2>3. CacheInv'
    BY <2>1 DEF IInv, CacheInv, CacheCovers, Span, First, PrefetchEnd, Lo, Hi
  <2>4. FilesInv'
    <3>1. ReleaseDays' = ReleaseDays
      BY <2>1 DEF ReleaseDays
    <3>2. DailyFiles'
      BY <2>1, <3>1 DEF IInv, FilesInv, DailyFiles, DailyFile
    <3>3. \A s \in Seeds : SeedInv(s)' <=> SeedInv(s)
      BY <2>1 DEF SeedInv
    <3>. QED  BY <2>1, <3>1, <3>2, <3>3 DEF IInv, FilesInv
  <2>. QED  BY <2>2, <2>3, <2>4 DEF IInv
<1>. QED
  BY <1>1, <1>2, BeginReleaseStep, PrefetchStep, BeginIntegrationStep, MissMonthStep, SeedStep,
     CreateDayStep, NextDayStep DEF Next, Work

\* The window of the calendar that the cache is, and how far every seed is.
THEOREM Invariance == Spec => []IInv
BY InitInv, StepInv, PTL DEF Spec

\* No month is read twice and the cache keeps its limit, however long the
\* integration and whatever the months' lengths.
THEOREM NoMonthReadTwice == Spec => []LoadedOnce
<1>1. IInv => LoadedOnce
  <2>. SUFFICES ASSUME IInv  PROVE LoadedOnce
    OBVIOUS
  <2>1. /\ bundles \in Seq(Int) /\ Len(bundles) <= MaxCachedMonths
        /\ \A i \in DOMAIN bundles : bundles[i] = bundles[1] + i - 1
        /\ \A m \in Months : loads[m] <= 1
    BY DEF IInv, Types, WindowInv
  <2>2. ASSUME NEW i \in 1 .. Len(bundles) - 1  PROVE bundles[i + 1] = bundles[i] + 1
    <3>1. i \in DOMAIN bundles /\ i + 1 \in DOMAIN bundles /\ i \in Int /\ bundles[1] \in Int
      BY <2>1
    <3>2. bundles[i] = bundles[1] + i - 1 /\ bundles[i + 1] = bundles[1] + (i + 1) - 1
      BY <2>1, <3>1
    <3>. QED  BY <3>1, <3>2
  <2>. QED  BY <2>1, <2>2 DEF LoadedOnce
<1>. QED  BY <1>1, Invariance, PTL

\* A look-up fails only for a release whose integration touches more months
\* than the cache holds, and then before any seed has moved.
THEOREM MissesAreHopeless == Spec => []CacheCovers
<1>1. IInv => CacheCovers
  BY DEF IInv, CacheInv
<1>. QED  BY <1>1, Invariance, PTL

\* Every finished day has a complete file unless its closing failed unnoticed,
\* a day that is not finished has none but the one being written at the end,
\* and the rows of a complete file are those of the seeds that made a step that
\* day, no fewer, with statuses that fit the number of steps.
THEOREM FilesListMovedSeeds == Spec => []DailyFiles
<1>1. IInv => DailyFiles
  BY DEF IInv, FilesInv
<1>. QED  BY <1>1, Invariance, PTL

=============================================================================
