------------------------ MODULE HpcParticles_proofs -------------------------
(***************************************************************************)
(* Proofs about HpcParticles.  The inductive invariant IInv has five       *)
(* parts beside the types: which months the two slots hold (MonthInv),     *)
(* which days have been released (ReleaseInv), how far the clocks of the   *)
(* particles in RAM have come (ClockInv), which buckets have been cleared  *)
(* of ended particles (RetiredInv) and at what age particles end           *)
(* (FateAges, which is inductive as it stands).                            *)
(*                                                                         *)
(* On it rest the proofs about the books: the totals account for every     *)
(* particle, the files agree with the totals, and the driver implements    *)
(* the ledger of fates.  They need an invariant about files (FileInv),     *)
(* which says what is still to be written while a day's file is behind its *)
(* total.                                                                  *)
(***************************************************************************)
EXTENDS HpcParticles, TLAPS, FiniteSetTheorems

Running == pc \notin {"tally", "done", "dead"}

\* The older slot holds the current month and the newer one the month before
\* it, except in the last window, where nobody will ask for the newer slot.
MonthInv ==
  /\ pc = "load" => cur = EndMonth
  /\ Running => cur >= FirstMonth
  /\ pc = "tally" => cur = FirstMonth - 1
  /\ Running /\ pc # "load" =>
       buf[older] = cur /\ (cur > FirstMonth => buf[1 - older] = cur - 1)

\* A day that has not been released has untouched particles; while the current
\* month has not been released no earlier day has.
ReleaseInv ==
  /\ \A p \in Particles : released[p[1]] = 0 =>
       p \notin ram /\ time[p] = p[1] /\ reason[p] = "none"
  /\ \A d \in ReleaseDays : released[d] # 0 =>
       /\ pc \in {"load", "spawn"} => MonthBegin[cur + 1] <= d
       /\ Running => MonthBegin[cur] <= d

\* Particles enter a window below its end and leave it below its beginning.
ClockInv ==
  \A p \in ram : reason[p] = "none" =>
    /\ pc # "dead" /\ pc # "done" => time[p] < MonthBegin[cur + 1]
    /\ pc = "propagate" /\ p[1] \notin todo => time[p] < MonthBegin[cur]
    /\ pc \in {"retire", "create", "bump", "append", "advance"} =>
         time[p] < MonthBegin[cur]

\* After the second pass over the buckets only moving particles are in RAM.
RetiredInv ==
  /\ pc \in {"load", "spawn", "retire", "advance"} => active = NoDay
  /\ active # NoDay /\ pc = "propagate" => active \in todo
  /\ pc \in {"load", "spawn", "advance", "tally"} => \A p \in ram : reason[p] = "none"
  /\ pc \in {"retire", "create", "bump", "append"} =>
       \A p \in ram : p[1] \notin todo => reason[p] = "none"

IInv == TypeOK /\ MonthInv /\ ReleaseInv /\ ClockInv /\ RetiredInv /\ FateAges

-----------------------------------------------------------------------------
(***************************************************************************)
(* Facts about the constants                                               *)
(***************************************************************************)

\* Cardinalities of sets of particles are numbers, so the totals of a day are.
LEMMA Finiteness ==
  /\ Cardinality(Seeds) \in Nat /\ Cardinality(Seeds) > 0
  /\ IsFiniteSet(Particles)
  /\ \A S : S \subseteq Particles => IsFiniteSet(S) /\ Cardinality(S) \in Nat
<1>1. IsFiniteSet(ReleaseDays)
  <2>1. IsFiniteSet(StartRelease .. EndRelease)
    BY FS_Interval, ReleaseAssumption
  <2>. QED  BY <2>1, FS_Subset DEF ReleaseDays
<1>2. IsFiniteSet(Particles)
  BY <1>1, SeedsAssumption, FS_Product DEF Particles
<1>3. Cardinality(Seeds) \in Nat /\ Cardinality(Seeds) # 0
  BY SeedsAssumption, FS_CardinalityType, FS_EmptySet
<1>4. ASSUME NEW S, S \subseteq Particles
      PROVE  IsFiniteSet(S) /\ Cardinality(S) \in Nat
  <2>1. IsFiniteSet(S)
    BY <1>2, <1>4, FS_Subset
  <2>. QED  BY <2>1, FS_CardinalityType
<1>. QED  BY <1>2, <1>3, <1>4

\* The calendar: consecutive months begin at increasing ticks, releases are
\* ticks, and the horizon begins a lifetime before the first of them.
LEMMA Calendar ==
  /\ StartMonth \in Int /\ EndMonth \in Int /\ StartMonth <= EndMonth
  /\ FirstMonth \in Int /\ FirstMonth < StartMonth
  /\ \A m \in FirstMonth .. EndMonth :
       /\ m \in Int /\ MonthBegin[m] \in Int /\ MonthBegin[m + 1] \in Int
       /\ MonthBegin[m] < MonthBegin[m + 1]
  /\ \A d \in ReleaseDays : d \in Int /\ MonthBegin[FirstMonth] + Life <= d
  /\ \A p \in Particles : p[1] \in ReleaseDays
<1>1. /\ StartMonth \in Int /\ EndMonth \in Int /\ StartMonth <= EndMonth
      /\ FirstMonth \in Int /\ FirstMonth < StartMonth
  BY ReleaseAssumption, TicksAssumption DEF FirstMonth
<1>2. ASSUME NEW m \in FirstMonth .. EndMonth
      PROVE  /\ m \in Int /\ MonthBegin[m] \in Int /\ MonthBegin[m + 1] \in Int
             /\ MonthBegin[m] < MonthBegin[m + 1]
  <2>1. m \in Months /\ m + 1 \in Months
    BY <1>1 DEF Months, FirstMonth
  <2>. QED  BY <2>1, CalendarAssumption DEF FirstMonth
<1>3. ASSUME NEW d \in ReleaseDays
      PROVE  d \in Int /\ MonthBegin[FirstMonth] + Life <= d
  <2>1. d \in Int /\ StartRelease <= d /\ StartRelease \in Int
    BY ReleaseAssumption DEF ReleaseDays
  <2>2. MonthBegin[StartMonth] <= StartRelease
    BY CalendarAssumption DEF InMonth
  <2>3. MonthBegin[FirstMonth] + Life <= MonthBegin[StartMonth]
    BY HorizonAssumption DEF FirstMonth
  <2>4. MonthBegin[StartMonth] \in Int /\ MonthBegin[FirstMonth] \in Int /\ Life \in Int
    BY <1>1, <1>2, TicksAssumption
  <2>. QED  BY <2>1, <2>2, <2>3, <2>4
<1>4. \A p \in Particles : p[1] \in ReleaseDays
  BY DEF Particles
<1>. QED  BY <1>1, <1>2, <1>3, <1>4

\* Adding to one entry of a per-day total leaves it a per-day total, whether
\* or not the entry exists.
LEMMA AddToTotal ==
  ASSUME NEW f \in [ReleaseDays -> Nat], NEW d, NEW n \in Nat
  PROVE  [f EXCEPT ![d] = @ + n] \in [ReleaseDays -> Nat]
<1>1. CASE d \in ReleaseDays
  <2>1. f[d] + n \in Nat
    BY <1>1
  <2>. QED  BY <1>1, <2>1
<1>2. CASE d \notin ReleaseDays
  BY <1>2
<1>. QED  BY <1>1, <1>2

-----------------------------------------------------------------------------
(***************************************************************************)
(* Type correctness together with the months in the buffer                 *)
(***************************************************************************)

LEMMA TypeInit == Init => TypeOK /\ MonthInv
<1>. SUFFICES ASSUME Init PROVE TypeOK /\ MonthInv
  OBVIOUS
<1>1. TypeOK
  <2>1. time \in [Particles -> Int]
    BY Calendar DEF Init
  <2>2. header \in [ReleaseDays -> Nat] /\ body \in [ReleaseDays -> SUBSET Particles]
    BY ReleaseAssumption DEF Init
  <2>3. cur \in FirstMonth - 1 .. EndMonth /\ buf \in [{0, 1} -> (FirstMonth .. EndMonth) \cup {NoMonth}]
    BY Calendar DEF Init
  <2>. QED  BY <2>1, <2>2, <2>3 DEF Init, TypeOK, Phases, EndReasons
<1>2. MonthInv
  BY Calendar DEF Init, MonthInv, Running
<1>. QED  BY <1>1, <1>2

LEMMA TypeStep == TypeOK /\ MonthInv /\ [Next]_vars => TypeOK' /\ MonthInv'
<1>. SUFFICES ASSUME TypeOK, MonthInv, [Next]_vars PROVE TypeOK' /\ MonthInv'
  OBVIOUS
<1>. USE DEF TypeOK, MonthInv, Running, Phases, EndReasons
<1>1. CASE LoadFirst
  <2>1. cur - 1 \in FirstMonth .. EndMonth /\ cur \in FirstMonth .. EndMonth
    BY <1>1, Calendar DEF LoadFirst
  <2>. QED  BY <1>1, <2>1, Calendar DEF LoadFirst, Prefetched, fates, totals, files
<1>2. CASE Spawn
  <2>1. released' \in [ReleaseDays -> Nat]
    BY <1>2, Finiteness DEF Spawn
  <2>2. ram' \subseteq Particles /\ todo' \subseteq ReleaseDays
    BY <1>2 DEF Spawn, DaysOf, Buckets, Particles
  <2>. QED  BY <1>2, <2>1, <2>2 DEF Spawn, month, files
<1>3. CASE LeaveBucket
  BY <1>3 DEF LeaveBucket, month, fates, totals, files
<1>4. CASE EndWindow
  BY <1>4 DEF EndWindow, Buckets, Particles, month, fates, totals, files
<1>5. CASE CreateFile
  <2>1. Cardinality(recs) \in Nat
    BY Finiteness
  <2>2. header' \in [ReleaseDays -> Nat]
    BY <1>5, <2>1 DEF CreateFile
  <2>3. body' \in [ReleaseDays -> SUBSET Particles]
    BY <1>5 DEF CreateFile
  <2>4. /\ pc = "create" /\ pc' = "retire" /\ active' = NoDay /\ recs' = {} /\ todo' = todo
        /\ UNCHANGED month /\ UNCHANGED fates /\ UNCHANGED totals
    BY <1>5 DEF CreateFile
  <2>5. TypeOK'
    BY <2>2, <2>3, <2>4 DEF month, fates, totals
  <2>6. MonthInv'
    BY <2>4 DEF month
  <2>. QED  BY <2>5, <2>6
<1>6. CASE BumpHeader
  <2>0. Cardinality(recs) \in Nat
    BY Finiteness
  <2>1. header' \in [ReleaseDays -> Nat]
    BY <1>6, <2>0, AddToTotal DEF BumpHeader
  <2>2. /\ pc = "bump" /\ pc' = "append" /\ body' = body
        /\ UNCHANGED <<todo, active, recs, month, fates, totals>>
    BY <1>6 DEF BumpHeader
  <2>3. TypeOK'
    BY <2>1, <2>2 DEF month, fates, totals
  <2>4. MonthInv'
    BY <2>2 DEF month
  <2>. QED  BY <2>3, <2>4
<1>7. CASE AppendMember
  <2>1. TypeOK'
    BY <1>7 DEF AppendMember, month, fates, totals
  <2>2. MonthInv'
    BY <1>7 DEF AppendMember, month
  <2>. QED  BY <2>1, <2>2
<1>8. CASE EndRetire
  BY <1>8 DEF EndRetire, month, fates, totals, files
<1>9. CASE Advance
  <2>1. cur \in FirstMonth .. EndMonth /\ cur' = cur - 1
    BY <1>9, Calendar DEF Advance
  <2>2. older' \in {0, 1} /\ older' # older /\ 1 - older' = older /\ older' = 1 - older
    BY <1>9 DEF Advance
  <2>3. CASE cur - 1 > FirstMonth
    BY <1>9, <2>1, <2>2, <2>3, Calendar DEF Advance, Prefetches, Prefetched, fates, totals, files
  <2>4. CASE ~(cur - 1 > FirstMonth)
    BY <1>9, <2>1, <2>2, <2>4, Calendar DEF Advance, Prefetches, fates, totals, files
  <2>. QED  BY <2>3, <2>4
<1>10. CASE Tally
  <2>1. ASSUME NEW d \in ReleaseDays PROVE Cardinality(Ended(d, "none")) \in Nat
    BY Finiteness DEF Ended, Bucket
  <2>2. neverland' \in [ReleaseDays -> Nat]
    BY <1>10, <2>1 DEF Tally
  <2>. QED  BY <1>10, <2>2 DEF Tally, month, files
<1>11. ASSUME NEW d \in ReleaseDays, EnterBucket(d) PROVE TypeOK' /\ MonthInv'
  BY <1>11 DEF EnterBucket, month, fates, totals, files
<1>12. ASSUME NEW d \in ReleaseDays, Retire(d) PROVE TypeOK' /\ MonthInv'
  <2>1. ASSUME NEW why PROVE Cardinality(Ended(d, why)) \in Nat
    BY Finiteness DEF Ended, Bucket
  <2>2. /\ landed' \in [ReleaseDays -> Nat] /\ neverland' \in [ReleaseDays -> Nat]
        /\ boring' \in [ReleaseDays -> Nat]
    BY <1>12, <2>1 DEF Retire
  <2>3. recs' \subseteq Particles /\ ram' \subseteq Particles
    BY <1>12 DEF Retire, Ended, Bucket
  <2>4. pc' \in {"retire", "bump", "create"} /\ active' \in ReleaseDays \cup {NoDay}
    BY <1>12 DEF Retire, WriteMode
  <2>. QED  BY <1>12, <2>2, <2>3, <2>4 DEF Retire, month, files
<1>13. ASSUME NEW p \in Particles, Step(p) PROVE TypeOK' /\ MonthInv'
  <2>1. time' \in [Particles -> Int] /\ reason' \in [Particles -> EndReasons]
    BY <1>13, TicksAssumption DEF Step
  <2>. QED  BY <1>13, <2>1 DEF Step, progress, month, totals, files
<1>14. CASE Die
  BY <1>14 DEF Die, month, fates, totals, files
<1>15. CASE UNCHANGED vars
  BY <1>15 DEF vars, progress, month, fates, totals, files
<1>. QED
  BY <1>1, <1>2, <1>3, <1>4, <1>5, <1>6, <1>7, <1>8, <1>9, <1>10, <1>11, <1>12,
     <1>13, <1>14, <1>15 DEF Next, Work

\* Every reachable state is well typed: in particular the driver never asks
\* for a month outside the simulated span.
THEOREM TypeCorrect == Spec => []TypeOK
<1>1. Spec => [](TypeOK /\ MonthInv)
  BY TypeInit, TypeStep, PTL DEF Spec
<1>. QED  BY <1>1, PTL

-----------------------------------------------------------------------------
(***************************************************************************)
(* Steps that leave the particles, the month and the releases alone        *)
(***************************************************************************)

\* All the others: entering and leaving buckets, changing the phase, writing.
Quiet ==
  \/ LoadFirst \/ LeaveBucket \/ EndWindow \/ CreateFile \/ BumpHeader
  \/ AppendMember \/ EndRetire \/ Die \/ UNCHANGED vars
  \/ \E d \in ReleaseDays : EnterBucket(d)

LEMMA StepCases ==
  [Next]_vars =>
    \/ Quiet \/ Spawn \/ Advance \/ Tally
    \/ \E d \in ReleaseDays : Retire(d)
    \/ \E p \in Particles : Step(p)
BY DEF Next, Work, Quiet

LEMMA QuietFrame ==
  Quiet => /\ UNCHANGED <<cur, ram, time, reason, released>>
           /\ Running' => Running
           /\ pc' = pc \/ (pc' # "load" /\ (pc' = "spawn" => pc = "load"))
<1>. DEFINE Frame ==
       /\ UNCHANGED <<cur, ram, time, reason, released>>
       /\ Running' => Running
       /\ pc' = pc \/ (pc' # "load" /\ (pc' = "spawn" => pc = "load"))
<1>. SUFFICES ASSUME Quiet PROVE Frame
  OBVIOUS
<1>1. CASE LoadFirst
  BY <1>1 DEF LoadFirst, month, fates, totals, Running
<1>2. CASE LeaveBucket
  BY <1>2 DEF LeaveBucket, month, fates, totals, Running
<1>3. CASE EndWindow
  BY <1>3 DEF EndWindow, month, fates, totals, Running
<1>4. CASE CreateFile
  BY <1>4 DEF CreateFile, month, fates, totals, Running
<1>5. CASE BumpHeader
  BY <1>5 DEF BumpHeader, month, fates, totals, Running
<1>6. CASE AppendMember
  BY <1>6 DEF AppendMember, month, fates, totals, Running
<1>7. CASE EndRetire
  BY <1>7 DEF EndRetire, month, fates, totals, Running
<1>8. CASE Die
  BY <1>8 DEF Die, month, fates, totals, Running
<1>9. CASE UNCHANGED vars
  BY <1>9 DEF vars, progress, month, fates, totals, Running
<1>10. ASSUME NEW d \in ReleaseDays, EnterBucket(d) PROVE Frame
  BY <1>10 DEF EnterBucket, month, fates, totals, Running
<1>. QED
  BY <1>1, <1>2, <1>3, <1>4, <1>5, <1>6, <1>7, <1>8, <1>9, <1>10 DEF Quiet

-----------------------------------------------------------------------------
(***************************************************************************)
(* Which days have been released                                           *)
(***************************************************************************)

LEMMA ReleaseInit == Init => ReleaseInv
BY Calendar DEF Init, ReleaseInv

LEMMA ReleaseStep ==
  TypeOK /\ MonthInv /\ ReleaseInv /\ [Next]_vars => ReleaseInv'
<1>. SUFFICES ASSUME TypeOK, MonthInv, ReleaseInv, [Next]_vars PROVE ReleaseInv'
  OBVIOUS
<1>1. CASE Quiet
  BY <1>1, QuietFrame DEF ReleaseInv
<1>2. CASE Spawn
  <2>1. cur \in FirstMonth .. EndMonth
    BY <1>2, Calendar DEF Spawn, TypeOK, MonthInv, Running
  <2>2. ASSUME NEW p \in Particles, released'[p[1]] = 0
        PROVE  p \notin ram' /\ time'[p] = p[1] /\ reason'[p] = "none"
    <3>1. p[1] \in ReleaseDays
      BY Calendar
    <3>2. p[1] \notin DaysOf(cur) /\ released[p[1]] = 0
      BY <1>2, <2>2, <3>1, Finiteness DEF Spawn, TypeOK
    <3>3. p \notin DaysOf(cur) \X Seeds
      BY <3>2
    <3>. QED  BY <1>2, <3>2, <3>3 DEF Spawn, ReleaseInv
  <2>3. ASSUME NEW d \in ReleaseDays, released'[d] # 0
        PROVE  MonthBegin[cur] <= d
    <3>1. CASE d \in DaysOf(cur)
      BY <3>1 DEF DaysOf, InMonth
    <3>2. CASE d \notin DaysOf(cur)
      <4>1. released[d] # 0
        BY <1>2, <2>3, <3>2 DEF Spawn, TypeOK
      <4>. QED  BY <1>2, <4>1 DEF Spawn, ReleaseInv, Running
    <3>. QED  BY <3>1, <3>2
  <2>. QED  BY <1>2, <2>2, <2>3 DEF Spawn, month, ReleaseInv
<1>3. CASE Advance
  <2>1. cur \in FirstMonth .. EndMonth /\ cur' + 1 = cur
    BY <1>3, Calendar DEF Advance, TypeOK, MonthInv, Running
  <2>2. UNCHANGED <<ram, time, reason, released>>
    BY <1>3 DEF Advance, fates, totals
  <2>3. ASSUME NEW d \in ReleaseDays, released'[d] # 0
        PROVE  /\ MonthBegin[cur' + 1] <= d
               /\ Running' => MonthBegin[cur'] <= d
    <3>1. MonthBegin[cur] <= d
      BY <1>3, <2>2, <2>3 DEF Advance, ReleaseInv, Running
    <3>2. Running' => cur' \in FirstMonth .. EndMonth
      BY <1>3, <2>1, Calendar DEF Advance, Running
    <3>3. Running' => MonthBegin[cur'] <= MonthBegin[cur]
      BY <2>1, <3>2, Calendar
    <3>. QED  BY <2>1, <3>1, <3>2, <3>3, Calendar
  <2>. QED  BY <2>2, <2>3 DEF ReleaseInv
<1>4. CASE Tally
  BY <1>4 DEF Tally, month, ReleaseInv, Running
<1>5. ASSUME NEW d \in ReleaseDays, Retire(d) PROVE ReleaseInv'
  <2>1. /\ ram' \subseteq ram /\ UNCHANGED <<time, reason, released, cur>>
        /\ pc = "retire" /\ pc' \notin {"load", "spawn"}
    BY <1>5 DEF Retire, month, WriteMode
  <2>. QED  BY <2>1 DEF ReleaseInv, Running
<1>6. ASSUME NEW p \in Particles, Step(p) PROVE ReleaseInv'
  <2>1. released[p[1]] # 0
    BY <1>6 DEF Step, Bucket, ReleaseInv
  <2>2. /\ UNCHANGED <<pc, cur, ram, released>>
        /\ \A q \in Particles : q # p => time'[q] = time[q] /\ reason'[q] = reason[q]
    BY <1>6 DEF Step, progress, month, totals, TypeOK
  <2>. QED  BY <2>1, <2>2 DEF ReleaseInv, Running
<1>. QED
  BY <1>1, <1>2, <1>3, <1>4, <1>5, <1>6, StepCases


-----------------------------------------------------------------------------
(***************************************************************************)
(* Where the clocks are, and which buckets hold only moving particles      *)
(***************************************************************************)

\* ClockInv for one particle.
ClockOK(p) ==
  /\ pc # "dead" /\ pc # "done" => time[p] < MonthBegin[cur + 1]
  /\ pc = "propagate" /\ p[1] \notin todo => time[p] < MonthBegin[cur]
  /\ pc \in {"retire", "create", "bump", "append", "advance"} => time[p] < MonthBegin[cur]

LEMMA ClockInit == Init => ClockInv /\ RetiredInv
BY DEF Init, ClockInv, RetiredInv

LEMMA ClockStep ==
  TypeOK /\ MonthInv /\ ReleaseInv /\ ClockInv /\ RetiredInv /\ [Next]_vars => ClockInv'
<1>. SUFFICES ASSUME TypeOK, MonthInv, ReleaseInv, ClockInv, RetiredInv, [Next]_vars,
                     NEW p \in ram', reason'[p] = "none"
              PROVE  ClockOK(p)'
  BY DEF ClockInv, ClockOK
<1>a. p \in ram /\ reason[p] = "none" => ClockOK(p)
  BY DEF ClockInv, ClockOK
<1>b. Running => cur \in FirstMonth .. EndMonth /\ MonthBegin[cur] \in Int
                 /\ MonthBegin[cur + 1] \in Int /\ MonthBegin[cur] < MonthBegin[cur + 1]
  BY Calendar DEF TypeOK, MonthInv
<1>1. CASE LoadFirst
  BY <1>1, <1>a DEF LoadFirst, fates, ClockOK
<1>2. CASE Spawn
  <2>1. p[1] \in todo' /\ pc' = "propagate" /\ UNCHANGED <<cur, time, reason>> /\ Running
    BY <1>2 DEF Spawn, Buckets, month, Running
  <2>2. CASE p \in ram
    BY <1>2, <1>a, <2>1, <2>2 DEF Spawn, ClockOK
  <2>3. CASE p \notin ram
    <3>1. p \in Particles /\ p[1] \in DaysOf(cur)
      BY <1>2, <2>3 DEF Spawn, DaysOf, Particles
    <3>2. p[1] \in ReleaseDays /\ p[1] \in Int /\ p[1] < MonthBegin[cur + 1]
      BY <3>1, Calendar DEF DaysOf, InMonth
    <3>3. released[p[1]] = 0
      BY <1>2, <3>2, <1>b, <2>1 DEF Spawn, ReleaseInv
    <3>4. time[p] = p[1]
      BY <3>1, <3>3 DEF ReleaseInv
    <3>. QED  BY <2>1, <3>2, <3>4 DEF ClockOK
  <2>. QED  BY <2>2, <2>3
<1>3. CASE LeaveBucket
  <2>1. /\ p \in ram /\ UNCHANGED <<pc, cur, time, reason>>
        /\ p[1] \notin todo' => p[1] \notin todo \/ p \in Bucket(active)
    BY <1>3 DEF LeaveBucket, month, fates, Bucket
  <2>2. p \in Bucket(active) => time[p] < MonthBegin[cur]
    <3>1. p \in Bucket(active) => ~(time[p] >= MonthBegin[cur])
      BY <1>3, <2>1 DEF LeaveBucket, Moving, WinBeg
    <3>2. time[p] \in Int /\ MonthBegin[cur] \in Int
      BY <1>3, <1>b, <2>1 DEF LeaveBucket, TypeOK, Running
    <3>. QED  BY <3>1, <3>2
  <2>. QED  BY <1>3, <1>a, <2>1, <2>2 DEF LeaveBucket, ClockOK
<1>4. CASE EndWindow
  BY <1>4, <1>a DEF EndWindow, month, fates, ClockOK
<1>5. CASE CreateFile
  BY <1>5, <1>a DEF CreateFile, month, fates, ClockOK
<1>6. CASE BumpHeader
  BY <1>6, <1>a DEF BumpHeader, month, fates, ClockOK
<1>7. CASE AppendMember
  BY <1>7, <1>a DEF AppendMember, month, fates, ClockOK
<1>8. CASE EndRetire
  BY <1>8, <1>a DEF EndRetire, month, fates, ClockOK
<1>9. CASE Advance
  <2>1. cur' + 1 = cur
    BY <1>9, <1>b DEF Advance, Running
  <2>2. p \in ram /\ UNCHANGED <<time, reason>> /\ pc = "advance" /\ pc' \in {"spawn", "tally"}
    BY <1>9 DEF Advance, fates
  <2>. QED  BY <1>a, <2>1, <2>2 DEF ClockOK
<1>10. CASE Tally
  BY <1>10 DEF Tally
<1>11. ASSUME NEW d \in ReleaseDays, EnterBucket(d) PROVE ClockOK(p)'
  BY <1>11, <1>a DEF EnterBucket, month, fates, ClockOK
<1>12. ASSUME NEW d \in ReleaseDays, Retire(d) PROVE ClockOK(p)'
  <2>1. p \in ram /\ pc = "retire" /\ pc' \in {"retire", "bump", "create"}
    BY <1>12 DEF Retire, WriteMode
  <2>. QED  BY <1>12, <1>a, <2>1 DEF Retire, month, ClockOK
<1>13. ASSUME NEW q \in Particles, Step(q) PROVE ClockOK(p)'
  <2>1. p \in ram /\ UNCHANGED <<pc, todo, active, cur>> /\ pc = "propagate"
    BY <1>13 DEF Step, progress, month
  <2>2. CASE p # q
    <3>1. time'[p] = time[p] /\ reason'[p] = reason[p]
      BY <1>13, <2>2 DEF Step, TypeOK
    <3>. QED  BY <1>a, <2>1, <3>1 DEF ClockOK
  <2>3. CASE p = q
    <3>1. active # NoDay /\ p[1] = active
      BY <1>13, <2>3, Calendar, ReleaseAssumption DEF Step, Bucket
    <3>2. p[1] \in todo
      BY <2>1, <3>1 DEF RetiredInv
    <3>3. reason[p] = "none" /\ time[p] \in Int /\ time'[p] \in {time[p], time[p] - Dt}
      BY <1>13, <2>3 DEF Step, Moving, TypeOK
    <3>4. time'[p] <= time[p] /\ time'[p] \in Int
      BY <3>3, TicksAssumption
    <3>5. time[p] < MonthBegin[cur + 1]
      BY <1>a, <2>1, <3>3 DEF ClockOK
    <3>. QED  BY <1>b, <2>1, <3>2, <3>3, <3>4, <3>5 DEF ClockOK, Running
  <2>. QED  BY <2>2, <2>3
<1>14. CASE Die
  BY <1>14 DEF Die, ClockOK
<1>15. CASE UNCHANGED vars
  BY <1>15, <1>a DEF vars, progress, month, fates, ClockOK
<1>. QED
  BY <1>1, <1>2, <1>3, <1>4, <1>5, <1>6, <1>7, <1>8, <1>9, <1>10, <1>11, <1>12,
     <1>13, <1>14, <1>15 DEF Next, Work


LEMMA RetiredStep ==
  TypeOK /\ RetiredInv /\ [Next]_vars => RetiredInv'
<1>. SUFFICES ASSUME TypeOK, RetiredInv, [Next]_vars PROVE RetiredInv'
  OBVIOUS
<1>1. CASE LoadFirst
  BY <1>1 DEF LoadFirst, fates, RetiredInv
<1>2. CASE Spawn
  BY <1>2 DEF Spawn, RetiredInv
<1>3. CASE LeaveBucket
  BY <1>3 DEF LeaveBucket, RetiredInv
<1>4. CASE EndWindow
  BY <1>4 DEF EndWindow, Buckets, fates, RetiredInv
<1>5. CASE CreateFile
  BY <1>5 DEF CreateFile, fates, RetiredInv
<1>6. CASE BumpHeader
  BY <1>6 DEF BumpHeader, fates, RetiredInv
<1>7. CASE AppendMember
  BY <1>7 DEF AppendMember, fates, RetiredInv
<1>8. CASE EndRetire
  BY <1>8 DEF EndRetire, fates, RetiredInv
<1>9. CASE Advance
  BY <1>9 DEF Advance, fates, RetiredInv
<1>10. CASE Tally
  BY <1>10 DEF Tally, RetiredInv
<1>11. ASSUME NEW d \in ReleaseDays, EnterBucket(d) PROVE RetiredInv'
  BY <1>11 DEF EnterBucket, RetiredInv
<1>12. ASSUME NEW d \in ReleaseDays, Retire(d) PROVE RetiredInv'
  <2>1. pc = "retire" /\ pc' \in {"retire", "bump", "create"}
    BY <1>12 DEF Retire, WriteMode
  <2>2. ASSUME NEW p \in ram', p[1] \notin todo' PROVE reason'[p] = "none"
    BY <1>12, <2>1, <2>2 DEF Retire, RetiredInv
  <2>3. pc' = "retire" => active' = NoDay
    BY <1>12 DEF Retire, WriteMode
  <2>. QED  BY <2>1, <2>2, <2>3 DEF RetiredInv
<1>13. ASSUME NEW p \in Particles, Step(p) PROVE RetiredInv'
  BY <1>13 DEF Step, progress, RetiredInv
<1>14. CASE Die
  BY <1>14 DEF Die, RetiredInv
<1>15. CASE UNCHANGED vars
  BY <1>15 DEF vars, progress, fates, RetiredInv
<1>. QED
  BY <1>1, <1>2, <1>3, <1>4, <1>5, <1>6, <1>7, <1>8, <1>9, <1>10, <1>11, <1>12,
     <1>13, <1>14, <1>15 DEF Next, Work

-----------------------------------------------------------------------------
(***************************************************************************)
(* The ages at which particles end                                         *)
(***************************************************************************)

LEMMA AgesInit == Init => FateAges
<1>. SUFFICES ASSUME Init, NEW p \in Particles
              PROVE  reason[p] = "none" /\ Age(p) < Life + Dt
  BY DEF FateAges
<1>1. time[p] = p[1] /\ p[1] \in Int /\ reason[p] = "none"
  BY Calendar DEF Init
<1>. QED  BY <1>1, TicksAssumption DEF Age

LEMMA AgesStep == TypeOK /\ FateAges /\ [Next]_vars => FateAges'
<1>. SUFFICES ASSUME TypeOK, FateAges, [Next]_vars PROVE FateAges'
  OBVIOUS
<1>1. ASSUME NEW p \in Particles, Step(p) PROVE FateAges'
  <2>. SUFFICES ASSUME NEW q \in Particles
                PROVE  /\ reason'[q] = "landed" => Grace <= Age(q)' /\ Age(q)' < Life
                       /\ reason'[q] = "lifetime" => Life <= Age(q)'
                       /\ Age(q)' < Life + Dt
    BY DEF FateAges
  <2>1. CASE q # p
    BY <1>1, <2>1 DEF Step, TypeOK, FateAges, Age
  <2>2. CASE q = p
    <3>1. /\ time[p] \in Int /\ p[1] \in Int /\ Age(p) \in Int /\ Age(p) < Life + Dt
      BY Calendar DEF TypeOK, FateAges, Age
    <3>2. reason[p] = "none"
      BY <1>1 DEF Step, Moving
    <3>3. CASE Expired(p) /\ reason' = [reason EXCEPT ![p] = "lifetime"] /\ UNCHANGED time
      <4>1. reason'[p] = "lifetime" /\ Age(p)' = Age(p)
        BY <3>3 DEF TypeOK, Age
      <4>. QED  BY <2>2, <3>1, <3>3, <4>1 DEF Expired
    <3>4. CASE /\ ~Expired(p) /\ Age(p) >= Grace
               /\ reason' = [reason EXCEPT ![p] = "landed"] /\ UNCHANGED time
      <4>1. reason'[p] = "landed" /\ Age(p)' = Age(p)
        BY <3>4 DEF TypeOK, Age
      <4>. QED  BY <2>2, <3>1, <3>4, <4>1, TicksAssumption DEF Expired
    <3>5. CASE ~Expired(p) /\ time' = [time EXCEPT ![p] = @ - Dt] /\ UNCHANGED reason
      <4>1. time'[p] = time[p] - Dt
        BY <3>5 DEF TypeOK
      <4>2. Age(p)' = Age(p) + Dt
        BY <3>1, <4>1, TicksAssumption DEF Age
      <4>3. Age(p)' < Life + Dt
        BY <3>1, <3>5, <4>2, TicksAssumption DEF Expired
      <4>4. reason'[p] = "none"
        BY <3>2, <3>5
      <4>. QED  BY <2>2, <4>3, <4>4 DEF Age
    <3>. QED  BY <1>1, <3>3, <3>4, <3>5 DEF Step
  <2>. QED  BY <2>1, <2>2
<1>2. CASE UNCHANGED <<time, reason>>
  BY <1>2 DEF FateAges, Age
<1>3. ASSUME NEW d \in ReleaseDays, Retire(d) PROVE UNCHANGED <<time, reason>>
  BY <1>3 DEF Retire
<1>4. Spawn \/ Advance \/ Tally => UNCHANGED <<time, reason>>
  BY DEF Spawn, Advance, Tally, fates
<1>. QED
  BY <1>1, <1>2, <1>3, <1>4, QuietFrame, StepCases

-----------------------------------------------------------------------------
(***************************************************************************)
(* The inductive invariant and what follows from it                        *)
(***************************************************************************)

THEOREM Invariance == Spec => []IInv
<1>1. Init => IInv
  BY TypeInit, ReleaseInit, ClockInit, AgesInit DEF IInv
<1>2. IInv /\ [Next]_vars => IInv'
  BY TypeStep, ReleaseStep, ClockStep, RetiredStep, AgesStep DEF IInv
<1>. QED  BY <1>1, <1>2, PTL DEF Spec

\* Whatever the length of the months and of the time step, no particle is
\* advected with the field of another month than the one its clock is in.
THEOREM FieldOfTheRightMonth == Spec => []RightMonth
<1>1. IInv => RightMonth
  <2>. SUFFICES ASSUME IInv, pc = "propagate", NEW p \in Bucket(active), Moving(p)
                PROVE  InMonth(time[p], PickMonth(time[p]))
    BY DEF RightMonth
  <2>1. buf[older] = cur
    BY DEF IInv, MonthInv, Running
  <2>2. p \in ram /\ reason[p] = "none" /\ MonthBegin[cur] <= time[p]
    <3>1. cur \in FirstMonth .. EndMonth
      BY DEF IInv, TypeOK, MonthInv, Running
    <3>2. p \in Particles /\ time[p] \in Int /\ MonthBegin[cur] \in Int
      BY <3>1, Calendar DEF IInv, TypeOK, Bucket
    <3>. QED  BY <3>2 DEF Bucket, Moving, WinBeg
  <2>3. time[p] < MonthBegin[cur + 1]
    BY <2>2 DEF IInv, ClockInv
  <2>. QED  BY <2>1, <2>2, <2>3 DEF PickMonth, InMonth
<1>. QED  BY <1>1, Invariance, PTL

\* A particle ends on land only between the grace period and the lifetime,
\* and none drifts further than one step beyond its lifetime.
THEOREM EndsAtTheRightAge == Spec => []FateAges
<1>1. IInv => FateAges
  BY DEF IInv
<1>. QED  BY <1>1, Invariance, PTL

\* The particles still in RAM after the last window have all outlived the
\* lifetime, because the first month begins a lifetime before any release.
THEOREM SurvivorsOutlivedTheHorizon == Spec => []SurvivorsExpired
<1>1. IInv => SurvivorsExpired
  <2>. SUFFICES ASSUME IInv, pc = "tally", NEW p \in ram
                PROVE  Age(p) >= Life
    BY DEF SurvivorsExpired
  <2>1. reason[p] = "none" /\ cur + 1 = FirstMonth
    BY Calendar DEF IInv, RetiredInv, MonthInv
  <2>2. time[p] < MonthBegin[FirstMonth]
    BY <2>1 DEF IInv, ClockInv
  <2>3. p \in Particles /\ time[p] \in Int /\ p[1] \in Int
    BY Calendar DEF IInv, TypeOK
  <2>4. MonthBegin[FirstMonth] \in Int /\ MonthBegin[FirstMonth] + Life <= p[1]
    BY <2>3, Calendar
  <2>. QED  BY <2>2, <2>3, <2>4, TicksAssumption DEF Age
<1>. QED  BY <1>1, Invariance, PTL

-----------------------------------------------------------------------------
(***************************************************************************)
(* Every particle is accounted for                                         *)
(***************************************************************************)

\* The size of a disjoint union.
LEMMA DisjointUnion ==
  ASSUME NEW S, NEW T, IsFiniteSet(S), IsFiniteSet(T), S \cap T = {}
  PROVE  /\ IsFiniteSet(S \cup T)
         /\ Cardinality(S \cup T) = Cardinality(S) + Cardinality(T)
<1>1. Cardinality(S) \in Nat /\ Cardinality(T) \in Nat
  BY FS_CardinalityType
<1>2. /\ IsFiniteSet(S \cup T)
      /\ Cardinality(S \cup T) = Cardinality(S) + Cardinality(T) - Cardinality(S \cap T)
  BY FS_Union
<1>3. Cardinality({}) = 0
  BY FS_EmptySet
<1>4. Cardinality(S \cap T) = 0
  BY <1>3
<1>. QED  BY <1>1, <1>2, <1>4

\* A bucket and its parts are finite.
LEMMA BucketsFinite ==
  TypeOK => \A d : /\ IsFiniteSet(Bucket(d)) /\ Cardinality(Bucket(d)) \in Nat
                   /\ \A why : /\ IsFiniteSet(Ended(d, why)) /\ Cardinality(Ended(d, why)) \in Nat
                               /\ Ended(d, why) \subseteq Bucket(d)
BY Finiteness DEF TypeOK, Bucket, Ended

\* The particles of a bucket are those that have ended, for one of three
\* reasons, and those that have not.
LEMMA BucketSplits ==
  ASSUME TypeOK, NEW d
  PROVE  Cardinality(Bucket(d)) =
           Cardinality(Ended(d, "landed")) + Cardinality(Ended(d, "neverleft"))
           + Cardinality(Ended(d, "lifetime")) + Cardinality(Ended(d, "none"))
<1> DEFINE A == Ended(d, "landed")
           B == Ended(d, "neverleft")
           C == Ended(d, "lifetime")
           D == Ended(d, "none")
<1>1. /\ IsFiniteSet(A) /\ IsFiniteSet(B) /\ IsFiniteSet(C) /\ IsFiniteSet(D)
      /\ Cardinality(A) \in Nat /\ Cardinality(B) \in Nat /\ Cardinality(C) \in Nat
      /\ Cardinality(D) \in Nat
  BY BucketsFinite
<1>2. /\ A \cap B = {} /\ (A \cup B) \cap C = {} /\ (A \cup B \cup C) \cap D = {}
  BY DEF Ended
<1>3. Bucket(d) = A \cup B \cup C \cup D
  <2>1. \A p \in Bucket(d) : reason[p] \in EndReasons
    BY DEF TypeOK, Bucket
  <2>. QED  BY <2>1 DEF Ended, EndReasons
<1>. HIDE DEF A, B, C, D
<1>4. Cardinality(A \cup B) = Cardinality(A) + Cardinality(B) /\ IsFiniteSet(A \cup B)
  BY <1>1, <1>2, DisjointUnion
<1>5. /\ Cardinality(A \cup B \cup C) = Cardinality(A) + Cardinality(B) + Cardinality(C)
      /\ IsFiniteSet(A \cup B \cup C)
  BY <1>1, <1>2, <1>4, DisjointUnion
<1>6. Cardinality(A \cup B \cup C \cup D)
        = Cardinality(A) + Cardinality(B) + Cardinality(C) + Cardinality(D)
  BY <1>1, <1>2, <1>5, DisjointUnion
<1>. QED  BY <1>3, <1>6 DEF A, B, C, D

LEMMA AccountedInit == Init => Accounted
<1>. SUFFICES ASSUME Init, NEW d \in ReleaseDays
              PROVE  released[d] = landed[d] + neverland[d] + boring[d] + Cardinality(Bucket(d))
  BY DEF Accounted
<1>1. Bucket(d) = {} /\ Cardinality({}) = 0
  BY FS_EmptySet DEF Init, Bucket
<1>2. Cardinality(Bucket(d)) = 0
  BY <1>1
<1>. QED  BY <1>2 DEF Init

\* A day of the current month that is spawned has not been released before.
LEMMA SpawnedOnce ==
  ASSUME IInv, Spawn, NEW d \in DaysOf(cur)
  PROVE  released[d] = 0 /\ Bucket(d) = {}
<1>1. cur \in FirstMonth .. EndMonth
  BY Calendar DEF Spawn, IInv, TypeOK, MonthInv, Running
<1>2. d \in ReleaseDays /\ d \in Int /\ d < MonthBegin[cur + 1] /\ MonthBegin[cur + 1] \in Int
  BY <1>1, Calendar DEF DaysOf, InMonth
<1>3. released[d] = 0
  BY <1>2 DEF IInv, ReleaseInv, Spawn
<1>4. ASSUME NEW p \in Bucket(d)  PROVE FALSE
  <2>1. p \in Particles /\ p \in ram /\ p[1] = d
    BY DEF IInv, TypeOK, Bucket
  <2>. QED  BY <1>3, <2>1 DEF IInv, ReleaseInv
<1>. QED  BY <1>3, <1>4

LEMMA SpawnAccounted ==
  ASSUME IInv, Accounted, Spawn
  PROVE  Accounted'
<1>. SUFFICES ASSUME NEW d \in ReleaseDays
              PROVE  released'[d] = landed[d] + neverland[d] + boring[d] + Cardinality(Bucket(d)')
  BY DEF Accounted, Spawn
<1>1. released[d] = landed[d] + neverland[d] + boring[d] + Cardinality(Bucket(d))
  BY DEF Accounted
<1>2. /\ released[d] \in Nat /\ landed[d] \in Nat /\ neverland[d] \in Nat /\ boring[d] \in Nat
      /\ Cardinality(Bucket(d)) \in Nat
  BY BucketsFinite DEF IInv, TypeOK
<1>3. CASE d \in DaysOf(cur)
  <2>1. released[d] = 0 /\ Bucket(d) = {}
    BY <1>3, SpawnedOnce
  <2>2. Bucket(d)' = {d} \X Seeds
    <3>1. ASSUME NEW p  PROVE p \in Bucket(d)' <=> p \in {d} \X Seeds
      <4>1. p \in Bucket(d)' <=> (p \in ram \/ p \in DaysOf(cur) \X Seeds) /\ p[1] = d
        BY DEF Bucket, Spawn
      <4>2. ~(p \in ram /\ p[1] = d)
        BY <2>1 DEF Bucket
      <4>3. p \in DaysOf(cur) \X Seeds /\ p[1] = d <=> p \in {d} \X Seeds
        BY <1>3
      <4>. QED  BY <4>1, <4>2, <4>3
    <3>. QED  BY <3>1
  <2>3. Cardinality({d} \X Seeds) = Cardinality(Seeds)
    <3>1. IsFiniteSet({d}) /\ Cardinality({d}) = 1
      BY FS_Singleton
    <3>2. Cardinality({d} \X Seeds) = Cardinality({d}) * Cardinality(Seeds)
      BY <3>1, SeedsAssumption, FS_Product
    <3>. QED  BY <3>1, <3>2, Finiteness
  <2>4. released'[d] = released[d] + Cardinality(Seeds)
    BY <1>3 DEF Spawn
  <2>5. landed[d] = 0 /\ neverland[d] = 0 /\ boring[d] = 0
    BY <1>1, <1>2, <2>1
  <2>. QED  BY <2>1, <2>2, <2>3, <2>4, <2>5, Finiteness
<1>4. CASE d \notin DaysOf(cur)
  <2>1. Bucket(d)' = Bucket(d)
    BY <1>4 DEF Bucket, Spawn
  <2>2. released'[d] = released[d]
    BY <1>2, <1>4 DEF Spawn
  <2>. QED  BY <1>1, <2>1, <2>2
<1>. QED  BY <1>3, <1>4

LEMMA RetireAccounted ==
  ASSUME IInv, Accounted, NEW e \in ReleaseDays, Retire(e)
  PROVE  Accounted'
<1>. SUFFICES ASSUME NEW d \in ReleaseDays
              PROVE  released[d] = landed'[d] + neverland'[d] + boring'[d] + Cardinality(Bucket(d)')
  BY DEF Accounted, Retire
<1>1. released[d] = landed[d] + neverland[d] + boring[d] + Cardinality(Bucket(d))
  BY DEF Accounted
<1>2. /\ released[d] \in Nat /\ landed[d] \in Nat /\ neverland[d] \in Nat /\ boring[d] \in Nat
      /\ landed \in [ReleaseDays -> Nat] /\ neverland \in [ReleaseDays -> Nat]
      /\ boring \in [ReleaseDays -> Nat]
  BY DEF IInv, TypeOK
<1>3. CASE d = e
  <2>1. Bucket(d)' = Ended(d, "none")
    BY <1>3 DEF Retire, Bucket, Ended
  <2>2. /\ landed'[d] = landed[d] + Cardinality(Ended(d, "landed"))
        /\ boring'[d] = boring[d] + Cardinality(Ended(d, "neverleft"))
        /\ neverland'[d] = neverland[d] + Cardinality(Ended(d, "lifetime"))
    BY <1>2, <1>3 DEF Retire
  <2>3. Cardinality(Bucket(d)) =
          Cardinality(Ended(d, "landed")) + Cardinality(Ended(d, "neverleft"))
          + Cardinality(Ended(d, "lifetime")) + Cardinality(Ended(d, "none"))
    BY BucketSplits DEF IInv
  <2>4. \A why : Cardinality(Ended(d, why)) \in Nat
    BY BucketsFinite DEF IInv
  <2>. QED  BY <1>1, <1>2, <2>1, <2>2, <2>3, <2>4
<1>4. CASE d # e
  <2>1. Bucket(d)' = Bucket(d)
    BY <1>4 DEF Retire, Bucket
  <2>2. landed'[d] = landed[d] /\ boring'[d] = boring[d] /\ neverland'[d] = neverland[d]
    BY <1>2, <1>4 DEF Retire
  <2>. QED  BY <1>1, <2>1, <2>2
<1>. QED  BY <1>3, <1>4

LEMMA TallyAccounted ==
  ASSUME IInv, Accounted, Tally
  PROVE  Accounted'
<1>. SUFFICES ASSUME NEW d \in ReleaseDays
              PROVE  released[d] = landed[d] + neverland'[d] + boring[d] + Cardinality(Bucket(d)')
  BY DEF Accounted, Tally
<1>1. released[d] = landed[d] + neverland[d] + boring[d] + Cardinality(Bucket(d))
  BY DEF Accounted
<1>2. /\ landed[d] \in Nat /\ neverland[d] \in Nat /\ boring[d] \in Nat
      /\ Cardinality(Bucket(d)) \in Nat
  BY BucketsFinite DEF IInv, TypeOK
<1>3. Ended(d, "none") = Bucket(d)
  BY DEF Tally, IInv, RetiredInv, Ended, Bucket
<1>4. Cardinality(Bucket(d)') = 0
  <2>1. Bucket(d)' = {}
    BY DEF Tally, Bucket
  <2>. QED  BY <2>1, FS_EmptySet
<1>5. neverland'[d] = neverland[d] + Cardinality(Bucket(d))
  BY <1>3 DEF Tally
<1>. QED  BY <1>1, <1>2, <1>4, <1>5

\* No other step moves a particle into or out of memory or changes a total.
LEMMA OthersAccounted ==
  ASSUME Accounted, UNCHANGED <<ram, released, landed, neverland, boring>>
  PROVE  Accounted'
BY DEF Accounted, Bucket

LEMMA OthersFrame ==
  \/ Quiet \/ Advance \/ \E p \in Particles : Step(p)
  => UNCHANGED <<ram, released, landed, neverland, boring>>
BY DEF Quiet, LoadFirst, LeaveBucket, EndWindow, CreateFile, BumpHeader, AppendMember,
       EndRetire, Die, EnterBucket, Advance, Step, vars, fates, totals

LEMMA AccountedStep == IInv /\ Accounted /\ [Next]_vars => Accounted'
BY SpawnAccounted, RetireAccounted, TallyAccounted, OthersAccounted, OthersFrame, StepCases

\* At any moment the released particles of a day are those counted under some
\* end and those still in RAM: none is lost, and none counted twice.
THEOREM EveryoneAccountedFor == Spec => []Accounted
BY AccountedInit, AccountedStep, Invariance, PTL DEF Spec

-----------------------------------------------------------------------------
(***************************************************************************)
(* The files agree with the totals                                         *)
(***************************************************************************)

\* What is known of the file of day d.  While its records are being written
\* they are exactly what the file lacks, and the header is either still that
\* of the records in the file or already that of the day's total.
FileOK(d) ==
  /\ landed[d] = Cardinality(Beached(d))
  /\ body[d] \subseteq Beached(d)
  /\ header[d] >= Prior[d] + Cardinality(body[d])
  /\ header[d] <= Prior[d] + landed[d]
  /\ ~Writing(d) => body[d] = Beached(d) /\ header[d] = Prior[d] + landed[d]
  /\ active = d /\ pc \in {"create", "bump", "append"} => recs = Beached(d) \ body[d]
  /\ active = d /\ pc \in {"create", "bump"} => header[d] = Prior[d] + Cardinality(body[d])
  /\ active = d /\ pc = "append" => header[d] = Prior[d] + landed[d]
  /\ active = d /\ pc = "create" => header[d] = 0

FileInv == \A d \in ReleaseDays : FileOK(d)

\* The numbers and sets of one day.
LEMMA DayTypes ==
  ASSUME TypeOK, NEW d \in ReleaseDays
  PROVE  /\ IsFiniteSet(Beached(d)) /\ Cardinality(Beached(d)) \in Nat
         /\ IsFiniteSet(body[d]) /\ Cardinality(body[d]) \in Nat
         /\ header[d] \in Nat /\ landed[d] \in Nat /\ Prior[d] \in Nat
<1>1. Beached(d) \subseteq Particles /\ body[d] \subseteq Particles
  BY DEF Beached, TypeOK
<1>. QED  BY <1>1, Finiteness, ReleaseAssumption DEF TypeOK

LEMMA FileInit == Init => FileInv
<1>. SUFFICES ASSUME Init, NEW d \in ReleaseDays PROVE FileOK(d)
  BY DEF FileInv
<1>1. Beached(d) = {} /\ body[d] = {} /\ landed[d] = 0 /\ header[d] = Prior[d] /\ pc = "load"
  BY DEF Init, Beached
<1>2. Cardinality(Beached(d)) = 0 /\ Cardinality(body[d]) = 0
  BY <1>1, FS_EmptySet
<1>. QED  BY <1>1, <1>2, ReleaseAssumption DEF FileOK

\* Only retiring a bucket makes records: the particles that are put to sea or
\* given up in the end have not beached, and those that beach are in RAM.
LEMMA BeachedFrame ==
  ASSUME IInv, NEW d \in ReleaseDays,
         Quiet \/ Spawn \/ Advance \/ Tally \/ \E p \in Particles : Step(p)
  PROVE  Beached(d)' = Beached(d)
<1>1. CASE UNCHANGED <<ram, reason>>
  BY <1>1 DEF Beached
<1>2. CASE Spawn
  <2>1. \A e \in DaysOf(cur) : e \in ReleaseDays
    BY DEF DaysOf
  <2>2. ASSUME NEW p \in DaysOf(cur) \X Seeds  PROVE reason[p] = "none"
    <3>1. p[1] \in DaysOf(cur) /\ p \in Particles
      BY <2>1 DEF Particles
    <3>2. released[p[1]] = 0
      BY <1>2, <3>1, SpawnedOnce
    <3>. QED  BY <3>1, <3>2 DEF IInv, ReleaseInv
  <2>. QED  BY <1>2, <2>2 DEF Spawn, Beached
<1>3. CASE Tally
  BY <1>3 DEF Tally, Beached, IInv, RetiredInv
<1>4. ASSUME NEW p \in Particles, Step(p)  PROVE Beached(d)' = Beached(d)
  <2>1. p \in ram /\ ram' = ram /\ \A q \in Particles : q # p => reason'[q] = reason[q]
    BY <1>4 DEF Step, Bucket, IInv, TypeOK
  <2>. QED  BY <2>1 DEF Beached
<1>5. Quiet \/ Advance => UNCHANGED <<ram, reason>>
  BY QuietFrame DEF Advance, fates
<1>. QED  BY <1>1, <1>2, <1>3, <1>4, <1>5

\* The steps between two writes.
LEMMA BetweenWrites ==
  ASSUME \/ LoadFirst \/ Spawn \/ LeaveBucket \/ EndWindow \/ EndRetire \/ Advance \/ Tally
         \/ \E d \in ReleaseDays : EnterBucket(d)
         \/ \E p \in Particles : Step(p)
  PROVE  /\ UNCHANGED <<landed, header, body>>
         /\ pc \notin {"create", "bump", "append", "dead"}
         /\ pc' \notin {"create", "bump", "append", "dead"}
<1>1. CASE LoadFirst  BY <1>1 DEF LoadFirst, totals, files
<1>2. CASE Spawn  BY <1>2 DEF Spawn, files
<1>3. CASE LeaveBucket  BY <1>3 DEF LeaveBucket, totals, files
<1>4. CASE EndWindow  BY <1>4 DEF EndWindow, totals, files
<1>5. CASE EndRetire  BY <1>5 DEF EndRetire, totals, files
<1>6. CASE Advance  BY <1>6 DEF Advance, totals, files
<1>7. CASE Tally  BY <1>7 DEF Tally, files
<1>8. CASE \E d \in ReleaseDays : EnterBucket(d)
  BY <1>8 DEF EnterBucket, totals, files
<1>9. CASE \E p \in Particles : Step(p)
  BY <1>9 DEF Step, progress, totals, files
<1>. QED  BY <1>1, <1>2, <1>3, <1>4, <1>5, <1>6, <1>7, <1>8, <1>9

\* Retiring a bucket leaves its beached particles to be written.
LEMMA RetireFile ==
  ASSUME IInv, FileInv, NEW e \in ReleaseDays, Retire(e), NEW d \in ReleaseDays
  PROVE  FileOK(d)'
<1>1. FileOK(d) /\ ~Writing(d)
  BY DEF FileInv, Retire, Writing
<1>2. /\ body[d] = Beached(d) /\ header[d] = Prior[d] + landed[d]
      /\ landed[d] = Cardinality(Beached(d))
  BY <1>1 DEF FileOK
<1>3. body' = body /\ header' = header
  BY DEF Retire, files
<1>4. /\ Cardinality(Beached(d)) \in Nat /\ Prior[d] \in Nat /\ IsFiniteSet(Beached(d))
  BY DayTypes DEF IInv
<1>5. CASE d = e
  <2> DEFINE New == Ended(d, "landed")
  <2>1. Beached(d)' = Beached(d) \cup New /\ Beached(d) \cap New = {}
    BY <1>5 DEF Retire, Beached, Ended, Bucket, IInv, TypeOK
  <2>2. IsFiniteSet(New) /\ Cardinality(New) \in Nat
    BY BucketsFinite DEF IInv
  <2>3. landed'[d] = landed[d] + Cardinality(New)
    BY <1>5 DEF Retire, IInv, TypeOK
  <2>4. recs' = New
    BY <1>5 DEF Retire
  <2>5. /\ pc' \in {"retire", "create", "bump"}
        /\ pc' = "create" => header[d] = 0
        /\ pc' = "retire" => New = {}
        /\ pc' # "retire" => active' = d
    <3>1. CASE New = {}
      BY <1>5, <3>1 DEF Retire
    <3>2. CASE New # {}
      <4>1. pc' = WriteMode(d) /\ active' = d
        BY <1>5, <3>2 DEF Retire
      <4>2. header[d] \in Nat
        BY DEF IInv, TypeOK
      <4>. QED  BY <4>1, <4>2 DEF WriteMode
    <3>. QED  BY <3>1, <3>2
  <2>. HIDE DEF New
  <2>6. Cardinality(Beached(d)') = Cardinality(Beached(d)) + Cardinality(New)
    BY <1>4, <2>1, <2>2, DisjointUnion
  <2>7. landed'[d] = Cardinality(Beached(d)')
    BY <1>2, <2>3, <2>6
  <2>8. Beached(d) \cup New = Beached(d) <=> New = {}
    BY <2>1
  <2>9. recs' = Beached(d)' \ body'[d]
    BY <1>2, <1>3, <2>1, <2>4
  <2>10. body'[d] \subseteq Beached(d)'
    BY <1>2, <1>3, <2>1
  <2>11. header'[d] = Prior[d] + Cardinality(body'[d]) /\ header'[d] <= Prior[d] + landed'[d]
    BY <1>2, <1>3, <1>4, <2>2, <2>3
  <2>12. Writing(d)' \/ (body'[d] = Beached(d)' /\ header'[d] = Prior[d] + landed'[d])
    <3>1. CASE New = {}
      <4>1. body'[d] = Beached(d)'
        BY <3>1, <1>2, <1>3, <2>1
      <4>. QED  BY <4>1, <2>7, <2>11
    <3>2. CASE New # {}
      BY <3>2, <2>5 DEF Writing
    <3>. QED  BY <3>1, <3>2
  <2>13. header'[d] >= Prior[d] + Cardinality(body'[d])
    BY <1>2, <1>3, <1>4, <2>11
  <2>. QED
    BY <1>3, <2>5, <2>7, <2>9, <2>10, <2>11, <2>12, <2>13 DEF FileOK
<1>6. CASE d # e
  <2>1. Beached(d)' = Beached(d)
    BY <1>6 DEF Retire, Beached
  <2>2. landed'[d] = landed[d]
    BY <1>6 DEF Retire, IInv, TypeOK
  <2>3. active' # d
    BY <1>6, ReleaseAssumption DEF Retire
  <2>. QED  BY <1>1, <1>2, <1>3, <1>4, <2>1, <2>2, <2>3 DEF FileOK, Writing
<1>. QED  BY <1>5, <1>6

\* The two ways of writing the records of a day.
LEMMA CreateFileOK ==
  ASSUME IInv, FileInv, CreateFile, NEW d \in ReleaseDays
  PROVE  FileOK(d)'
<1>1. FileOK(d) /\ Beached(d)' = Beached(d) /\ landed' = landed
  BY BeachedFrame DEF FileInv, Quiet, CreateFile, totals
<1>2. CASE active = d
  <2>1. /\ recs = Beached(d) \ body[d] /\ header[d] = Prior[d] + Cardinality(body[d])
        /\ header[d] = 0
    BY <1>1, <1>2 DEF FileOK, CreateFile
  <2>2. Prior[d] = 0 /\ Cardinality(body[d]) = 0
    BY <2>1, DayTypes DEF IInv
  <2>3. body[d] = {}
    BY <2>2, DayTypes, FS_EmptySet DEF IInv
  <2>4. recs = Beached(d)
    BY <2>1, <2>3
  <2>5. body'[d] = Beached(d) /\ header'[d] = Cardinality(Beached(d)) /\ pc' = "retire"
    BY <1>2, <2>4 DEF CreateFile, IInv, TypeOK
  <2>6. landed[d] = Cardinality(Beached(d)) /\ Cardinality(Beached(d)) \in Nat
    BY <1>1, DayTypes DEF FileOK, IInv
  <2>. QED  BY <1>1, <2>2, <2>5, <2>6 DEF FileOK
<1>3. CASE active # d
  <2>1. body'[d] = body[d] /\ header'[d] = header[d] /\ ~Writing(d) /\ pc' = "retire"
    BY <1>3 DEF CreateFile, IInv, TypeOK, Writing
  <2>. QED  BY <1>1, <2>1 DEF FileOK
<1>. QED  BY <1>2, <1>3

LEMMA BumpHeaderOK ==
  ASSUME IInv, FileInv, BumpHeader, NEW d \in ReleaseDays
  PROVE  FileOK(d)'
<1>1. FileOK(d) /\ Beached(d)' = Beached(d)
  BY BeachedFrame DEF FileInv, Quiet
<1>2. /\ landed' = landed /\ body' = body /\ active' = active /\ recs' = recs
      /\ pc = "bump" /\ pc' = "append"
  BY DEF BumpHeader, totals
<1>3. CASE active = d
  <2>1. /\ recs = Beached(d) \ body[d] /\ header[d] = Prior[d] + Cardinality(body[d])
        /\ body[d] \subseteq Beached(d) /\ landed[d] = Cardinality(Beached(d))
    BY <1>1, <1>2, <1>3 DEF FileOK
  <2>2. /\ IsFiniteSet(body[d]) /\ Cardinality(body[d]) \in Nat /\ Prior[d] \in Nat
        /\ IsFiniteSet(Beached(d)) /\ Cardinality(Beached(d)) \in Nat
    BY DayTypes DEF IInv
  <2>3. IsFiniteSet(recs) /\ Cardinality(recs) \in Nat
    BY Finiteness DEF IInv, TypeOK
  <2>4. body[d] \cup recs = Beached(d) /\ body[d] \cap recs = {}
    BY <2>1
  <2>5. Cardinality(Beached(d)) = Cardinality(body[d]) + Cardinality(recs)
    BY <2>2, <2>3, <2>4, DisjointUnion
  <2>6. header'[d] = header[d] + Cardinality(recs)
    BY <1>3 DEF BumpHeader, IInv, TypeOK
  <2>7. header'[d] = Prior[d] + landed[d] /\ header'[d] >= Prior[d] + Cardinality(body[d])
    BY <2>1, <2>2, <2>3, <2>5, <2>6
  <2>8. header'[d] <= Prior[d] + landed[d]
    BY <2>1, <2>2, <2>7
  <2>9. Writing(d)'
    BY <1>2, <1>3 DEF Writing
  <2>. QED  BY <1>1, <1>2, <2>1, <2>7, <2>8, <2>9 DEF FileOK
<1>4. CASE active # d
  <2>1. header'[d] = header[d] /\ ~Writing(d)
    BY <1>4 DEF BumpHeader, IInv, TypeOK, Writing
  <2>. QED  BY <1>1, <1>2, <1>4, <2>1 DEF FileOK
<1>. QED  BY <1>3, <1>4

LEMMA AppendMemberOK ==
  ASSUME IInv, FileInv, AppendMember, NEW d \in ReleaseDays
  PROVE  FileOK(d)'
<1>1. FileOK(d) /\ Beached(d)' = Beached(d)
  BY BeachedFrame DEF FileInv, Quiet
<1>2. landed' = landed /\ header' = header /\ pc = "append" /\ pc' = "retire"
  BY DEF AppendMember, totals
<1>3. CASE active = d
  <2>1. /\ recs = Beached(d) \ body[d] /\ header[d] = Prior[d] + landed[d]
        /\ body[d] \subseteq Beached(d) /\ landed[d] = Cardinality(Beached(d))
    BY <1>1, <1>2, <1>3 DEF FileOK
  <2>2. body'[d] = body[d] \cup recs
    BY <1>3 DEF AppendMember, IInv, TypeOK
  <2>3. body'[d] = Beached(d)
    BY <2>1, <2>2
  <2>4. Prior[d] \in Nat /\ landed[d] \in Nat
    BY DayTypes DEF IInv
  <2>. QED  BY <1>1, <1>2, <2>1, <2>3, <2>4 DEF FileOK
<1>4. CASE active # d
  <2>1. body'[d] = body[d] /\ ~Writing(d)
    BY <1>4 DEF AppendMember, IInv, TypeOK, Writing
  <2>. QED  BY <1>1, <1>2, <2>1 DEF FileOK
<1>. QED  BY <1>3, <1>4

LEMMA FileStep == IInv /\ FileInv /\ [Next]_vars => FileInv'
<1>. SUFFICES ASSUME IInv, FileInv, [Next]_vars, NEW d \in ReleaseDays
              PROVE  FileOK(d)'
  BY DEF FileInv
<1>. DEFINE Between ==
       \/ LoadFirst \/ Spawn \/ LeaveBucket \/ EndWindow \/ EndRetire \/ Advance \/ Tally
       \/ \E e \in ReleaseDays : EnterBucket(e)
       \/ \E p \in Particles : Step(p)
<1>1. CASE Between
  <2>1. Quiet \/ Spawn \/ Advance \/ Tally \/ \E p \in Particles : Step(p)
    BY <1>1 DEF Quiet
  <2>2. FileOK(d) /\ Beached(d)' = Beached(d)
    BY <2>1, BeachedFrame DEF FileInv
  <2>3. /\ UNCHANGED <<landed, header, body>>
        /\ pc \notin {"create", "bump", "append", "dead"}
        /\ pc' \notin {"create", "bump", "append", "dead"}
    BY <1>1, BetweenWrites
  <2>. QED  BY <2>2, <2>3 DEF FileOK, Writing
<1>2. CASE Die \/ UNCHANGED vars
  <2>1. FileOK(d) /\ Beached(d)' = Beached(d)
    BY <1>2, BeachedFrame DEF FileInv, Quiet
  <2>2. UNCHANGED <<landed, header, body, active, recs>> /\ (pc' = pc \/ pc' = "dead")
    BY <1>2 DEF Die, totals, files, vars, progress
  <2>. QED  BY <2>1, <2>2 DEF FileOK, Writing
<1>3. ASSUME NEW e \in ReleaseDays, Retire(e)  PROVE FileOK(d)'
  BY <1>3, RetireFile
<1>. QED
  BY <1>1, <1>2, <1>3, CreateFileOK, BumpHeaderOK, AppendMemberOK DEF Next, Work

THEOREM FileInvariance == Spec => []FileInv
BY FileInit, FileStep, Invariance, PTL DEF Spec

\* A day's file holds every beached particle that left the RAM, except while
\* they are being written; should the driver die between raising the count in
\* the header and appending the member, the header promises too much, never
\* too little (while no stream loses bytes, see Pkd1Gzip).
THEOREM FilesMatchTotals == Spec => []FileAgrees
<1>1. FileInv => FileAgrees
  BY DEF FileInv, FileOK, FileAgrees
<1>. QED  BY <1>1, FileInvariance, PTL

-----------------------------------------------------------------------------
(***************************************************************************)
(* The driver implements the ledger of fates                               *)
(***************************************************************************)

\* The fate of one particle, now and after a step.
FateOf(p) ==
  IF reason[p] = "landed" THEN "landed"
  ELSE IF reason[p] = "lifetime" THEN "expired"
  ELSE IF released[p[1]] = 0 THEN "unreleased"
  ELSE IF p \in ram THEN "afloat" ELSE "expired"

LEMMA FateIs ==
  /\ Fate = [p \in Particles |-> FateOf(p)]
  /\ Fate' = [p \in Particles |-> FateOf(p)']
<1>1. ASSUME NEW p \in Particles
      PROVE  FateOf(p) = CASE reason[p] = "landed" -> "landed"
                           [] reason[p] = "lifetime" -> "expired"
                           [] OTHER -> IF released[p[1]] = 0 THEN "unreleased"
                                       ELSE IF p \in ram THEN "afloat" ELSE "expired"
  BY DEF FateOf
<1>2. ASSUME NEW p \in Particles
      PROVE  FateOf(p)' = CASE reason'[p] = "landed" -> "landed"
                            [] reason'[p] = "lifetime" -> "expired"
                            [] OTHER -> IF released'[p[1]] = 0 THEN "unreleased"
                                        ELSE IF p \in ram' THEN "afloat" ELSE "expired"
  BY DEF FateOf
<1>3. Fate = [p \in Particles |-> FateOf(p)]
  BY <1>1, Zenon DEF Fate
<1>4. Fate' = [p \in Particles |-> FateOf(p)']
  BY <1>2, Zenon DEF Fate
<1>. QED  BY <1>3, <1>4

\* A particle in RAM has been released, so it is afloat until it has landed or
\* outlived its life.
LEMMA InRamReleased ==
  ASSUME IInv, NEW p \in ram
  PROVE  p \in Particles /\ released[p[1]] # 0
BY DEF IInv, TypeOK, ReleaseInv

\* Which fates a step changes.
Changes(S, from, to) ==
  /\ S \subseteq Particles
  /\ \A p \in S : FateOf(p) = from /\ FateOf(p)' = to
  /\ \A p \in Particles \ S : FateOf(p)' = FateOf(p)

LEMMA ReleaseStepFates ==
  ASSUME IInv, Spawn
  PROVE  Changes(DaysOf(cur) \X Seeds, "unreleased", "afloat")
<1>1. DaysOf(cur) \X Seeds \subseteq Particles
  BY DEF DaysOf, Particles
<1>2. ASSUME NEW p \in DaysOf(cur) \X Seeds
      PROVE  FateOf(p) = "unreleased" /\ FateOf(p)' = "afloat"
  <2>1. p \in Particles /\ p[1] \in DaysOf(cur) /\ p[1] \in ReleaseDays
    BY <1>1, Calendar
  <2>2. released[p[1]] = 0
    BY <2>1, SpawnedOnce
  <2>3. p \notin ram /\ reason[p] = "none"
    BY <2>1, <2>2 DEF IInv, ReleaseInv
  <2>4. released'[p[1]] = 0 + Cardinality(Seeds) /\ p \in ram' /\ reason' = reason
    BY <2>1, <2>2 DEF Spawn
  <2>5. released'[p[1]] # 0
    BY <2>4, Finiteness
  <2>. QED  BY <2>2, <2>3, <2>4, <2>5 DEF FateOf
<1>3. ASSUME NEW p \in Particles \ (DaysOf(cur) \X Seeds)
      PROVE  FateOf(p)' = FateOf(p)
  <2>1. p[1] \in ReleaseDays /\ p[1] \notin DaysOf(cur)
    BY <1>3, Calendar DEF Particles
  <2>2. released'[p[1]] = released[p[1]]
    BY <2>1 DEF Spawn, IInv, TypeOK
  <2>3. (p \in ram' <=> p \in ram) /\ reason' = reason
    BY <1>3 DEF Spawn
  <2>. QED  BY <2>2, <2>3 DEF FateOf
<1>. QED  BY <1>1, <1>2, <1>3 DEF Changes

LEMMA RetireStepFates ==
  ASSUME IInv, NEW d \in ReleaseDays, Retire(d)
  PROVE  Changes(Ended(d, "neverleft"), "afloat", "expired")
<1>1. UNCHANGED <<reason, released>>
  BY DEF Retire
<1>2. ASSUME NEW p \in Ended(d, "neverleft")
      PROVE  p \in Particles /\ FateOf(p) = "afloat" /\ FateOf(p)' = "expired"
  <2>1. p \in ram /\ p[1] = d /\ reason[p] = "neverleft" /\ p \notin ram'
    BY DEF Ended, Bucket, Retire
  <2>. QED  BY <1>1, <2>1, InRamReleased DEF FateOf
<1>3. ASSUME NEW p \in Particles \ Ended(d, "neverleft")
      PROVE  FateOf(p)' = FateOf(p)
  <2>1. reason[p] \in EndReasons
    BY <1>3 DEF IInv, TypeOK
  <2>2. CASE reason[p] \in {"landed", "lifetime"}
    BY <1>1, <2>2 DEF FateOf
  <2>3. CASE reason[p] \in {"none", "neverleft"}
    <3>1. p \in ram' <=> p \in ram
      BY <1>3, <2>3 DEF Retire, Ended, Bucket
    <3>. QED  BY <1>1, <2>3, <3>1 DEF FateOf
  <2>. QED  BY <2>1, <2>2, <2>3 DEF EndReasons
<1>. QED  BY <1>2, <1>3 DEF Changes

LEMMA TallyStepFates ==
  ASSUME IInv, Tally
  PROVE  Changes(ram, "afloat", "expired")
<1>1. UNCHANGED <<reason, released>> /\ ram' = {} /\ \A p \in ram : reason[p] = "none"
  BY DEF Tally, IInv, RetiredInv
<1>2. \A p \in ram : FateOf(p) = "afloat" /\ FateOf(p)' = "expired" /\ p \in Particles
  BY <1>1, InRamReleased DEF FateOf
<1>3. \A p \in Particles \ ram : FateOf(p)' = FateOf(p)
  BY <1>1 DEF FateOf
<1>. QED  BY <1>2, <1>3 DEF Changes

LEMMA StepFates ==
  ASSUME IInv, NEW p \in Particles, Step(p)
  PROVE  \/ Changes({p}, "afloat", "landed")
         \/ Changes({p}, "afloat", "expired")
         \/ Changes({}, "afloat", "expired")
<1>1. p \in ram /\ reason[p] = "none" /\ released[p[1]] # 0
  BY InRamReleased DEF Step, Bucket, Moving
<1>2. FateOf(p) = "afloat"
  BY <1>1 DEF FateOf
<1>3. UNCHANGED <<ram, released>>
  BY DEF Step, totals
<1>4. ASSUME NEW q \in Particles \ {p}  PROVE FateOf(q)' = FateOf(q)
  <2>1. reason'[q] = reason[q]
    BY DEF Step, IInv, TypeOK
  <2>. QED  BY <1>3, <2>1 DEF FateOf
<1>5. CASE reason' = [reason EXCEPT ![p] = "landed"]
  <2>1. FateOf(p)' = "landed"
    BY <1>5 DEF FateOf, IInv, TypeOK
  <2>. QED  BY <1>2, <1>4, <2>1 DEF Changes
<1>6. CASE reason' = [reason EXCEPT ![p] = "lifetime"]
  <2>1. FateOf(p)' = "expired"
    BY <1>6 DEF FateOf, IInv, TypeOK
  <2>. QED  BY <1>2, <1>4, <2>1 DEF Changes
<1>7. CASE UNCHANGED reason
  BY <1>3, <1>7 DEF FateOf, Changes
<1>. QED  BY <1>5, <1>6, <1>7 DEF Step

\* Changes of fates in the ledger's own terms.
LEMMA LedgerReleases ==
  ASSUME NEW S, Changes(S, "unreleased", "afloat"), Archived' = Archived
  PROVE  Ledger!LedgerNext
<1>1. \A p \in S : Fate[p] = "unreleased"
  BY FateIs DEF Changes
<1>2. Fate' = [p \in Particles |-> IF p \in S THEN "afloat" ELSE Fate[p]]
  BY FateIs DEF Changes
<1>3. Ledger!Release(S)
  BY <1>1, <1>2 DEF Ledger!Release
<1>. QED  BY <1>3 DEF Ledger!LedgerNext, Changes

LEMMA LedgerExpires ==
  ASSUME NEW S, Changes(S, "afloat", "expired"), Archived' = Archived
  PROVE  Ledger!LedgerNext
<1>1. \A p \in S : Fate[p] = "afloat"
  BY FateIs DEF Changes
<1>2. Fate' = [p \in Particles |-> IF p \in S THEN "expired" ELSE Fate[p]]
  BY FateIs DEF Changes
<1>3. Ledger!Expire(S)
  BY <1>1, <1>2 DEF Ledger!Expire
<1>. QED  BY <1>3 DEF Ledger!LedgerNext, Changes

LEMMA LedgerLands ==
  ASSUME NEW p \in Particles, Changes({p}, "afloat", "landed"), Archived' = Archived
  PROVE  Ledger!LedgerNext
<1>1. Fate[p] = "afloat"
  BY FateIs DEF Changes
<1>2. Fate' = [Fate EXCEPT ![p] = "landed"]
  BY FateIs DEF Changes
<1>3. Ledger!Land(p)
  BY <1>1, <1>2 DEF Ledger!Land
<1>. QED  BY <1>3 DEF Ledger!LedgerNext

\* Writing the records of a day makes them durable for the first time.
LEMMA LedgerArchives ==
  ASSUME IInv, FileInv, CreateFile \/ AppendMember
  PROVE  Ledger!LedgerNext \/ UNCHANGED Ledger!ledgerVars
<1>1. UNCHANGED <<reason, released, ram>>
  BY DEF CreateFile, AppendMember, fates, totals
<1>2. Fate' = Fate
  <2>1. \A p \in Particles : FateOf(p)' = FateOf(p)
    BY <1>1 DEF FateOf
  <2>. QED  BY <2>1, FateIs
<1>3. CASE active \in ReleaseDays
  <2>1. /\ recs = Beached(active) \ body[active]
        /\ CreateFile => body[active] = {}
        /\ body'[active] = body[active] \cup recs
        /\ \A d \in ReleaseDays : d # active => body'[d] = body[d]
    <3>1. /\ FileOK(active) /\ pc \in {"create", "append"} /\ (CreateFile => pc = "create")
      BY <1>3 DEF FileInv, CreateFile, AppendMember
    <3>2. recs = Beached(active) \ body[active]
      BY <3>1 DEF FileOK
    <3>3. CreateFile => body[active] = {}
      <4>1. CreateFile => 0 = Prior[active] + Cardinality(body[active])
        BY <3>1 DEF FileOK
      <4>2. CreateFile => Cardinality(body[active]) = 0
        BY <1>3, <4>1, DayTypes DEF IInv
      <4>. QED  BY <1>3, <4>2, DayTypes, FS_EmptySet DEF IInv
    <3>4. body'[active] = body[active] \cup recs
      BY <1>3, <3>3 DEF CreateFile, AppendMember, IInv, TypeOK
    <3>5. \A d \in ReleaseDays : d # active => body'[d] = body[d]
      BY <1>3 DEF CreateFile, AppendMember, IInv, TypeOK
    <3>. QED  BY <3>2, <3>3, <3>4, <3>5
  <2>2. Archived' = Archived \cup recs
    BY <1>3, <2>1 DEF Archived
  <2>3. recs \cap Archived = {}
    <3>1. \A d \in ReleaseDays : \A p \in body[d] : p[1] = d
      BY DEF FileInv, FileOK, Beached
    <3>2. \A p \in recs : p[1] = active /\ p \notin body[active]
      BY <2>1 DEF Beached
    <3>. QED  BY <3>1, <3>2 DEF Archived
  <2>4. \A p \in recs : p \in Particles /\ Fate[p] = "landed"
    <3>1. \A p \in recs : p \in Particles /\ reason[p] = "landed"
      BY <2>1 DEF Beached
    <3>. QED  BY <3>1, FateIs DEF FateOf
  <2>5. Ledger!Archive(recs)
    BY <1>2, <2>2, <2>3, <2>4 DEF Ledger!Archive
  <2>. QED  BY <2>4, <2>5 DEF Ledger!LedgerNext
<1>4. CASE active \notin ReleaseDays
  <2>1. body' = body
    BY <1>4 DEF CreateFile, AppendMember, IInv, TypeOK
  <2>2. Archived' = Archived
    BY <2>1 DEF Archived
  <2>. QED  BY <1>2, <2>2 DEF Ledger!ledgerVars
<1>. QED  BY <1>3, <1>4

LEMMA LedgerStutters ==
  ASSUME Quiet \/ Advance, ~CreateFile, ~AppendMember
  PROVE  UNCHANGED Ledger!ledgerVars
<1>1. UNCHANGED <<reason, released, ram>>
  BY QuietFrame DEF Advance, fates, totals
<1>2. body' = body
  BY DEF Quiet, LoadFirst, LeaveBucket, EndWindow, BumpHeader, EndRetire, Die, EnterBucket,
         Advance, vars, files
<1>3. Fate' = Fate
  <2>1. \A p \in Particles : FateOf(p)' = FateOf(p)
    BY <1>1 DEF FateOf
  <2>. QED  BY <2>1, FateIs
<1>4. Archived' = Archived
  BY <1>2 DEF Archived
<1>. QED  BY <1>3, <1>4 DEF Ledger!ledgerVars

LEMMA LedgerInitial == Init => Ledger!LedgerInit
<1>. SUFFICES ASSUME Init PROVE Ledger!LedgerInit
  OBVIOUS
<1>1. \A p \in Particles : FateOf(p) = "unreleased"
  BY Calendar DEF Init, FateOf
<1>2. Fate = [p \in Particles |-> "unreleased"]
  BY <1>1, FateIs
<1>3. Archived = {}
  BY DEF Init, Archived
<1>. QED  BY <1>2, <1>3 DEF Ledger!LedgerInit

LEMMA LedgerStep ==
  IInv /\ FileInv /\ [Next]_vars => [Ledger!LedgerNext]_(Ledger!ledgerVars)
<1>. SUFFICES ASSUME IInv, FileInv, [Next]_vars
              PROVE  Ledger!LedgerNext \/ UNCHANGED Ledger!ledgerVars
  OBVIOUS
<1>1. CASE Spawn
  <2>1. Archived' = Archived
    BY <1>1 DEF Spawn, files, Archived
  <2>. QED  BY <1>1, <2>1, ReleaseStepFates, LedgerReleases
<1>2. ASSUME NEW d \in ReleaseDays, Retire(d)
      PROVE  Ledger!LedgerNext
  <2>1. Archived' = Archived
    BY <1>2 DEF Retire, files, Archived
  <2>. QED  BY <1>2, <2>1, RetireStepFates, LedgerExpires
<1>3. CASE Tally
  <2>1. Archived' = Archived
    BY <1>3 DEF Tally, files, Archived
  <2>. QED  BY <1>3, <2>1, TallyStepFates, LedgerExpires
<1>4. ASSUME NEW p \in Particles, Step(p)
      PROVE  Ledger!LedgerNext
  <2>1. Archived' = Archived
    BY <1>4 DEF Step, files, Archived
  <2>. QED  BY <1>4, <2>1, StepFates, LedgerLands, LedgerExpires
<1>. QED
  BY <1>1, <1>2, <1>3, <1>4, LedgerArchives, LedgerStutters, StepCases

\* The driver implements the ledger: every particle is released at most once
\* and gets one final fate, and only beached ones are archived, each once.
THEOREM LedgerImplemented == Spec => ImplementsLedger
BY LedgerInitial, LedgerStep, Invariance, FileInvariance, PTL
   DEF Spec, ImplementsLedger, Ledger!LedgerSpec

=============================================================================
