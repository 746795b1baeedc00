-------------------------- MODULE Pkd1Gzip_proofs ---------------------------
(***************************************************************************)
(* Proofs about Pkd1Gzip, for batches of any size and any number of writes *)
(* and runs: what a reader gets from a file that can be read, and what the *)
(* count in its header tells about that.                                   *)
(***************************************************************************)
EXTENDS Pkd1Gzip, TLAPS, FiniteSetTheorems

-----------------------------------------------------------------------------
(***************************************************************************)
(* FlattenSeq                                                              *)
(***************************************************************************)

\* Every set of natural numbers has a least one, the induction used below.
LEMMA Smallest ==
  ASSUME NEW S \in SUBSET Nat, S # {}
  PROVE  \E n \in S : \A m \in S : n <= m
<1> DEFINE R == {p \in Nat \X Nat : p[1] < p[2]}
<1>1. IsWellFoundedOn(R, Nat)
  BY NatLessThanWellFounded DEF OpToRel
<1>2. \A m, n \in Nat : m < n => <<m, n>> \in R
  OBVIOUS
<1>. HIDE DEF R
<1>3. PICK n \in S : \A m \in S : <<m, n>> \notin R
  BY <1>1, WFMin
<1>4. \A m \in S : ~(m < n)
  BY <1>2, <1>3
<1>5. \A m \in S : n <= m
  BY <1>4
<1>. QED  BY <1>5

\* Flattening unfolds one sequence after the other, and gives a sequence.
Unfolds(f, s) == f = [i \in 1 .. Len(s) |-> IF i = 1 THEN s[i] ELSE f[i - 1] \o s[i]]

LEMMA UnfoldingExists ==
  ASSUME NEW R, NEW s \in Seq(Seq(R))
  PROVE  \E f \in [1 .. Len(s) -> Seq(R)] : Unfolds(f, s)
<1> DEFINE Upto(f, n) == \A i \in 1 .. n : f[i] = IF i = 1 THEN s[i] ELSE f[i - 1] \o s[i]
           Bad == {n \in Nat : n <= Len(s) /\ ~ \E f \in [1 .. n -> Seq(R)] : Upto(f, n)}
<1>1. Bad = {}
  <2>. SUFFICES ASSUME Bad # {}  PROVE FALSE
    OBVIOUS
  <2>1. PICK n \in Bad : \A m \in Bad : n <= m
    <3>1. Bad \in SUBSET Nat
      OBVIOUS
    <3>. HIDE DEF Bad
    <3>. QED  BY <3>1, Smallest
  <2>2. n \in Nat /\ n <= Len(s)
    OBVIOUS
  <2>3. n # 0
    <3>1. [i \in 1 .. 0 |-> <<>>] \in [1 .. 0 -> Seq(R)] /\ Upto([i \in 1 .. 0 |-> <<>>], 0)
      OBVIOUS
    <3>. QED  BY <3>1
  <2>4. n - 1 \in Nat /\ n - 1 <= Len(s) /\ n - 1 \notin Bad
    <3>1. n - 1 \in Nat /\ n - 1 <= Len(s) /\ ~(n <= n - 1)
      BY <2>2, <2>3
    <3>. HIDE DEF Bad
    <3>. QED  BY <2>1, <3>1
  <2>5. PICK f \in [1 .. n - 1 -> Seq(R)] : Upto(f, n - 1)
    BY <2>4
  <2> DEFINE g == [i \in 1 .. n |-> IF i = n THEN (IF i = 1 THEN s[i] ELSE f[i - 1] \o s[i]) ELSE f[i]]
  <2>6. g \in [1 .. n -> Seq(R)]
    <3>. SUFFICES ASSUME NEW i \in 1 .. n
                  PROVE  (IF i = n THEN (IF i = 1 THEN s[i] ELSE f[i - 1] \o s[i]) ELSE f[i]) \in Seq(R)
      OBVIOUS
    <3>1. s[i] \in Seq(R)
      BY <2>2
    <3>2. i # n => f[i] \in Seq(R)
      BY <2>2, <2>5
    <3>3. i = n /\ i # 1 => f[i - 1] \in Seq(R)
      BY <2>2, <2>5
    <3>. QED  BY <3>1, <3>2, <3>3
  <2>7. Upto(g, n)
    <3>. SUFFICES ASSUME NEW i \in 1 .. n
                  PROVE  g[i] = IF i = 1 THEN s[i] ELSE g[i - 1] \o s[i]
      OBVIOUS
    <3>1. i # 1 => i - 1 \in 1 .. n /\ g[i - 1] = f[i - 1]
      BY <2>2
    <3>2. CASE i = n
      BY <2>2, <3>1, <3>2
    <3>3. CASE i # n
      <4>1. i \in 1 .. n - 1
        BY <2>2, <3>3
      <4>2. f[i] = IF i = 1 THEN s[i] ELSE f[i - 1] \o s[i]
        BY <2>5, <4>1
      <4>. QED  BY <3>1, <3>3, <4>2
    <3>. QED  BY <3>2, <3>3
  <2>. HIDE DEF g
  <2>8. n \notin Bad
    BY <2>6, <2>7
  <2>. QED  BY <2>8
<1>2. Len(s) \in Nat
  OBVIOUS
<1>3. PICK f \in [1 .. Len(s) -> Seq(R)] : Upto(f, Len(s))
  <2>. SUFFICES ASSUME ~ \E f \in [1 .. Len(s) -> Seq(R)] : Upto(f, Len(s))  PROVE FALSE
    OBVIOUS
  <2>1. Len(s) \in Bad
    <3>. HIDE DEF Upto
    <3>. QED  BY <1>2
  <2>. QED  BY <1>1, <2>1
<1>4. Unfolds(f, s)
  BY <1>3 DEF Unfolds
<1>. QED  BY <1>4

Begins(s, t) ==
  /\ Len(s) \in Nat /\ Len(t) \in Nat /\ Len(s) <= Len(t)
  /\ \A i \in 1 .. Len(s) : s[i] = t[i]

\* The unfolding of a sequence does not depend on what follows it.
LEMMA UnfoldingAgrees ==
  ASSUME NEW s, NEW t, NEW f, NEW g, Unfolds(f, s), Unfolds(g, t), Begins(s, t)
  PROVE  \A i \in 1 .. Len(s) : f[i] = g[i]
<1>. USE DEF Begins
<1> DEFINE Bad == {i \in Nat : i \in 1 .. Len(s) /\ f[i] # g[i]}
<1>1. \A i \in 1 .. Len(s) : /\ f[i] = IF i = 1 THEN s[i] ELSE f[i - 1] \o s[i]
                             /\ g[i] = IF i = 1 THEN s[i] ELSE g[i - 1] \o s[i]
  <2>1. \A i \in 1 .. Len(s) : f[i] = IF i = 1 THEN s[i] ELSE f[i - 1] \o s[i]
    BY DEF Unfolds
  <2>2. \A i \in 1 .. Len(t) : g[i] = IF i = 1 THEN t[i] ELSE g[i - 1] \o t[i]
    BY DEF Unfolds
  <2>3. \A i \in 1 .. Len(s) : i \in 1 .. Len(t)
    OBVIOUS
  <2>. QED  BY <2>1, <2>2, <2>3
<1>2. Bad = {}
  <2>. SUFFICES ASSUME Bad # {}  PROVE FALSE
    OBVIOUS
  <2>1. PICK n \in Bad : \A m \in Bad : n <= m
    <3>1. Bad \in SUBSET Nat
      OBVIOUS
    <3>. HIDE DEF Bad
    <3>. QED  BY <3>1, Smallest
  <2>2. n \in 1 .. Len(s) /\ f[n] # g[n]
    OBVIOUS
  <2>3. n # 1
    BY <1>1, <2>2
  <2>4. n - 1 \in Nat /\ n - 1 \in 1 .. Len(s) /\ ~(n <= n - 1)
    BY <2>2, <2>3
  <2>5. n - 1 \notin Bad
    <3>. HIDE DEF Bad
    <3>. QED  BY <2>1, <2>4
  <2>6. f[n - 1] = g[n - 1]
    BY <2>4, <2>5
  <2>. QED  BY <1>1, <2>2, <2>3, <2>6
<1>3. \A i \in 1 .. Len(s) : i \in Nat
  OBVIOUS
<1>. QED  BY <1>2, <1>3

LEMMA FlattenIs ==
  ASSUME NEW R, NEW s \in Seq(Seq(R)), NEW f, Unfolds(f, s)
  PROVE  FlattenSeq(s) = IF s = <<>> THEN <<>> ELSE f[Len(s)]
<1>1. CASE s = <<>>
  BY <1>1 DEF FlattenSeq
<1>2. CASE s # <<>>
  <2> DEFINE g == CHOOSE h : h = [i \in 1 .. Len(s) |-> IF i = 1 THEN s[i] ELSE h[i - 1] \o s[i]]
  <2>1. Len(s) # 0 /\ Len(s) \in Nat /\ Len(s) \in 1 .. Len(s)
    BY <1>2
  <2>2. FlattenSeq(s) = g[Len(s)]
    BY <2>1 DEF FlattenSeq
  <2>3. Unfolds(g, s)
    BY DEF Unfolds
  <2>. HIDE DEF g
  <2>4. f[Len(s)] = g[Len(s)]
    <3>1. \A i \in 1 .. Len(s) : f[i] = g[i]
      <4>1. Begins(s, s)
        BY <2>1 DEF Begins
      <4>. QED  BY <2>3, <4>1, UnfoldingAgrees
    <3>. QED  BY <2>1, <3>1
  <2>. QED  BY <1>2, <2>2, <2>4
<1>. QED  BY <1>1, <1>2

\* What FlattenSeq does with one more sequence.
LEMMA FlattenAppend ==
  ASSUME NEW R, NEW s \in Seq(Seq(R)), NEW x \in Seq(R)
  PROVE  /\ FlattenSeq(s) \in Seq(R)
         /\ FlattenSeq(Append(s, x)) = FlattenSeq(s) \o x
<1> DEFINE t == Append(s, x)
<1>1. /\ t \in Seq(Seq(R)) /\ t # <<>> /\ Len(s) \in Nat /\ Len(t) = Len(s) + 1
      /\ t[Len(t)] = x /\ \A i \in 1 .. Len(s) : s[i] = t[i]
  <2>1. t \in Seq(Seq(R)) /\ Len(s) \in Nat /\ Len(t) = Len(s) + 1
    OBVIOUS
  <2>2. t[Len(t)] = x /\ \A i \in 1 .. Len(s) : s[i] = t[i]
    OBVIOUS
  <2>3. t # <<>>
    <3>. HIDE DEF t
    <3>. QED  BY <2>1
  <2>. QED  BY <2>1, <2>2, <2>3
<1>. HIDE DEF t
<1>2. PICK f \in [1 .. Len(s) -> Seq(R)] : Unfolds(f, s)
  BY UnfoldingExists
<1>3. PICK g \in [1 .. Len(t) -> Seq(R)] : Unfolds(g, t)
  BY <1>1, UnfoldingExists
<1>4. \A i \in 1 .. Len(s) : f[i] = g[i]
  <2>1. Len(t) \in Nat /\ Len(s) <= Len(t)
    BY <1>1
  <2>2. \A i \in 1 .. Len(s) : s[i] = t[i]
    BY <1>1
  <2>3. Begins(s, t)
    BY <1>1, <2>1, <2>2 DEF Begins
  <2>. QED  BY <1>2, <1>3, <2>3, UnfoldingAgrees
<1>5. FlattenSeq(s) = IF s = <<>> THEN <<>> ELSE f[Len(s)]
  BY <1>2, FlattenIs
<1>6. FlattenSeq(t) = g[Len(t)]
  BY <1>1, <1>3, FlattenIs
<1>7. g[Len(t)] = IF Len(t) = 1 THEN x ELSE g[Len(s)] \o x
  <2>1. Len(t) \in 1 .. Len(t) /\ Len(t) - 1 = Len(s)
    BY <1>1
  <2>2. g[Len(t)] = IF Len(t) = 1 THEN t[Len(t)] ELSE g[Len(t) - 1] \o t[Len(t)]
    BY <1>3, <2>1 DEF Unfolds
  <2>. QED  BY <1>1, <2>1, <2>2
<1>8. CASE s = <<>>
  <2>1. Len(t) = 1
    BY <1>1, <1>8
  <2>2. <<>> \o x = x
    OBVIOUS
  <2>. QED  BY <1>5, <1>6, <1>7, <1>8, <2>1, <2>2 DEF t
<1>9. CASE s # <<>>
  <2>1. Len(s) \in 1 .. Len(s) /\ Len(t) # 1
    BY <1>1, <1>9
  <2>2. f[Len(s)] = g[Len(s)] /\ f[Len(s)] \in Seq(R)
    BY <1>2, <1>4, <2>1
  <2>. QED  BY <1>5, <1>6, <1>7, <1>9, <2>1, <2>2 DEF t
<1>. QED  BY <1>8, <1>9

-----------------------------------------------------------------------------
(***************************************************************************)
(* The inductive invariant                                                 *)
(***************************************************************************)

Record == Nat \X Nat
Member == [recs : Seq(Record), got : Nat, ragged : BOOLEAN, whole : BOOLEAN]

\* The records of a call are numbered.
IsBatch(b) == b \in Seq(Record) /\ \E w \in Nat : \A i \in DOMAIN b : b[i] = <<w, i>>

\* What members were meant to hold.
Recs(ms) == [i \in DOMAIN ms |-> ms[i].recs]
All(ms)  == FlattenSeq(Recs(ms))

Types ==
  /\ pc \in {"idle", "create", "bump", "append", "dead"}
  /\ batch \in Seq(Record) /\ writes \in Nat /\ kept \in Seq(Record) /\ lossy \in BOOLEAN
  /\ head \in {"absent", "cut", "whole"} /\ count \in Nat /\ missed \in Nat
  /\ members \in Seq(Member)

BatchInv == pc \in {"create", "bump", "append"} => IsBatch(batch) /\ Len(batch) > 0

MembersInv ==
  \A i \in DOMAIN members :
    /\ IsBatch(members[i].recs) /\ members[i].got <= Len(members[i].recs)
    /\ members[i].whole => members[i].got = Len(members[i].recs)

\* A file is created once.  A damaged header stays and keeps members out.
HeadInv ==
  /\ pc = "create" => head = "absent"
  /\ pc = "bump" => head # "absent"
  /\ pc = "append" => head = "whole"
  /\ head = "absent" => kept = <<>> /\ ~lossy /\ missed = 0
  /\ head # "whole" => members = <<>>

\* Only the last member may be cut, so that all others can be inflated.
Orderly == \A i \in DOMAIN members : ~members[i].whole => i = Len(members)
Intact  == \A i \in DOMAIN members : members[i].whole

\* The last member belongs to a call that did not return.
CutShort ==
  \E f \in Seq(Member), l \in Member : members = Append(f, l) /\ ~l.whole /\ kept = All(f)

\* Whole members are those of the calls that returned, unless a stream lost
\* something.
KeptInv == Orderly /\ ~lossy => (Intact /\ kept = All(members)) \/ CutShort

\* The header and the rewrites of it that were lost count all members and the
\* one being appended.  If they count nothing else, no member was lost.
Pending  == IF pc = "append" THEN Len(batch) ELSE 0
CountInv ==
  head = "whole" =>
    /\ Len(All(members)) + Pending <= count + missed
    /\ Orderly /\ Len(All(members)) + Pending = count + missed =>
         kept = All(members) \/ CutShort

IInv == Types /\ BatchInv /\ MembersInv /\ HeadInv /\ KeptInv /\ CountInv

\* One more member.
LEMMA InRecords ==
  ASSUME NEW ms \in Seq(Member), NEW m \in Member
  PROVE  /\ All(ms) \in Seq(Record) /\ m.recs \in Seq(Record)
         /\ Append(ms, m) \in Seq(Member)
         /\ All(Append(ms, m)) = All(ms) \o m.recs
         /\ Len(All(Append(ms, m))) = Len(All(ms)) + Len(m.recs)
<1>1. m.recs \in Seq(Record) /\ Append(ms, m) \in Seq(Member)
  BY DEF Member
<1>2. Recs(ms) \in Seq(Seq(Record))
  <2>1. \A i \in 1 .. Len(ms) : ms[i] \in Member
    OBVIOUS
  <2>3. \A l \in Member : l.recs \in Seq(Record)
    BY DEF Member
  <2>4. \A i \in 1 .. Len(ms) : ms[i].recs \in Seq(Record)
    BY <2>1, <2>3
  <2>2. Recs(ms) = [i \in 1 .. Len(ms) |-> ms[i].recs] /\ Len(ms) \in Nat
    BY DEF Recs
  <2>. QED  BY <2>2, <2>4
<1>3. Recs(Append(ms, m)) = Append(Recs(ms), m.recs)
  <2>. DEFINE r == Append(Recs(ms), m.recs)
              a == Append(ms, m)
  <2>1. Len(Recs(ms)) = Len(ms) /\ Len(ms) \in Nat /\ \A i \in 1 .. Len(ms) : Recs(ms)[i] = ms[i].recs
    BY DEF Recs
  <2>2. r \in Seq(Seq(Record)) /\ Len(r) = Len(ms) + 1
    BY <1>1, <1>2, <2>1
  <2>3. DOMAIN a = 1 .. Len(ms) + 1
    BY <1>1
  <2>4. \A i \in 1 .. Len(ms) + 1 : r[i] = a[i].recs
    <3>. TAKE i \in 1 .. Len(ms) + 1
    <3>1. CASE i = Len(ms) + 1
      BY <1>2, <2>1, <3>1
    <3>2. CASE i # Len(ms) + 1
      <4>1. i \in 1 .. Len(ms)
        BY <2>1, <3>2
      <4>. QED  BY <1>2, <2>1, <4>1
    <3>. QED  BY <3>1, <3>2
  <2>5. DOMAIN r = 1 .. Len(ms) + 1
    BY <2>1, <2>2
  <2>6. r = [i \in 1 .. Len(ms) + 1 |-> r[i]]
    BY <2>2, <2>5
  <2>. HIDE DEF r, a
  <2>7. r = [i \in 1 .. Len(ms) + 1 |-> a[i].recs]
    BY <2>4, <2>6
  <2>. QED  BY <2>3, <2>7 DEF Recs, r, a
<1>4. All(ms) \in Seq(Record) /\ All(Append(ms, m)) = All(ms) \o m.recs
  BY <1>1, <1>2, <1>3, FlattenAppend DEF All
<1>5. Len(All(ms) \o m.recs) = Len(All(ms)) + Len(m.recs)
  BY <1>1, <1>4
<1>. QED  BY <1>1, <1>4, <1>5

LEMMA NoMembers == All(<<>>) = <<>> /\ <<>> \in Seq(Member)
<1>1. Recs(<<>>) = <<>>
  BY DEF Recs
<1>. QED  BY <1>1 DEF All, FlattenSeq

\* A member written in full or cut.
LEMMA MembersAre ==
  ASSUME NEW b \in Seq(Record), NEW m \in {Whole(b)} \cup Pieces(b)
  PROVE  /\ m \in Member /\ m.recs = b /\ m.got <= Len(b)
         /\ m.whole => m.got = Len(b)
         /\ m.whole <=> m = Whole(b)
<1>1. Len(b) \in Nat
  OBVIOUS
<1>2. CASE m = Whole(b)
  BY <1>1, <1>2 DEF Whole, Member
<1>3. CASE m \in Pieces(b)
  <2>1. PICK g \in 0 .. Len(b), r \in BOOLEAN :
          m = [recs |-> b, got |-> g, ragged |-> g < Len(b) /\ r, whole |-> FALSE]
    BY <1>3 DEF Pieces
  <2>2. (g < Len(b) /\ r) \in BOOLEAN
    OBVIOUS
  <2>3. m \in Member
    BY <1>1, <2>1, <2>2 DEF Member
  <2>. QED  BY <1>1, <2>1, <2>3 DEF Whole
<1>. QED  BY <1>2, <1>3

\* A file with a cut last member is not intact.
LEMMA CutIsNotIntact == members \in Seq(Member) /\ Intact => ~CutShort
<1>. SUFFICES ASSUME members \in Seq(Member), Intact, CutShort  PROVE FALSE
  OBVIOUS
<1>1. PICK f \in Seq(Member), l \in Member : members = Append(f, l) /\ ~l.whole
  BY DEF CutShort
<1>2. Len(f) + 1 \in DOMAIN members /\ members[Len(f) + 1] = l
  BY <1>1
<1>. QED  BY <1>1, <1>2 DEF Intact

LEMMA InitInv == Init => IInv
<1>. SUFFICES ASSUME Init  PROVE IInv
  OBVIOUS
<1>1. Types
  <2>1. <<>> \in Seq(Record)
    OBVIOUS
  <2>. QED  BY <2>1, NoMembers DEF Init, Types
<1>2. BatchInv /\ MembersInv /\ HeadInv /\ CountInv
  BY DEF Init, BatchInv, MembersInv, HeadInv, CountInv
<1>3. KeptInv
  BY NoMembers DEF Init, KeptInv, Intact
<1>. QED  BY <1>1, <1>2, <1>3 DEF IInv

\* A member has been written, in full or cut.
LEMMA MemberWritten ==
  ASSUME IInv, pc \in {"create", "append"},
         NEW m \in {Whole(batch)} \cup Pieces(batch), members' = Append(members, m),
         head' = "whole", count' \in Nat, missed' \in Nat,
         Len(All(members)) + Len(batch) <= count' + missed',
         Orderly /\ Len(All(members)) + Len(batch) = count' + missed' =>
           kept = All(members) \/ CutShort,
         \/ Return /\ lossy' \in BOOLEAN /\ (~lossy' => ~lossy /\ m.whole)
         \/ Stop /\ ~m.whole
  PROVE  IInv'
<1>1. /\ batch \in Seq(Record) /\ members \in Seq(Member) /\ kept \in Seq(Record) /\ writes \in Nat
      /\ lossy \in BOOLEAN /\ IsBatch(batch)
  BY DEF IInv, Types, BatchInv
<1>2. /\ m \in Member /\ m.recs = batch /\ m.got <= Len(batch)
      /\ m.whole => m.got = Len(batch)
  BY <1>1, MembersAre
<1>3. /\ All(members) \in Seq(Record) /\ members' \in Seq(Member)
      /\ All(members') = All(members) \o batch
      /\ Len(All(members')) = Len(All(members)) + Len(batch)
  BY <1>1, <1>2, InRecords
<1>4. /\ Len(members) \in Nat /\ Len(members') = Len(members) + 1
      /\ DOMAIN members = 1 .. Len(members) /\ DOMAIN members' = 1 .. Len(members) + 1
      /\ members'[Len(members) + 1] = m
      /\ \A i \in 1 .. Len(members) : members'[i] = members[i]
  BY <1>1, <1>2
<1>5. /\ pc' \in {"idle", "dead"} /\ batch' \in Seq(Record) /\ writes' = writes
      /\ kept' \in Seq(Record) /\ lossy' \in BOOLEAN
  <2>1. <<>> \in Seq(Record) /\ kept \o batch \in Seq(Record)
    BY <1>1
  <2>. QED  BY <1>1, <2>1 DEF Return, Stop
<1>6. Types'
  BY <1>1, <1>3, <1>5 DEF Types
<1>7. BatchInv' /\ HeadInv'
  BY <1>5 DEF BatchInv, HeadInv
<1>8. MembersInv'
  <2>. SUFFICES ASSUME NEW i \in DOMAIN members'
                PROVE  /\ IsBatch(members'[i].recs) /\ members'[i].got <= Len(members'[i].recs)
                       /\ members'[i].whole => members'[i].got = Len(members'[i].recs)
    BY DEF MembersInv, IsBatch
  <2>1. CASE i = Len(members) + 1
    BY <1>1, <1>2, <1>4, <2>1
  <2>2. CASE i # Len(members) + 1
    <3>1. i \in DOMAIN members /\ members'[i] = members[i]
      BY <1>4, <2>2
    <3>. QED  BY <3>1 DEF IInv, MembersInv
  <2>. QED  BY <2>1, <2>2
<1>9. Orderly' => Intact /\ Orderly /\ (m.whole => Intact')
  <2>1. Orderly' => Intact
    <3>. SUFFICES ASSUME Orderly', NEW i \in DOMAIN members  PROVE members[i].whole
      BY DEF Intact
    <3>1. i \in DOMAIN members' /\ i # Len(members') /\ members'[i] = members[i]
      BY <1>4
    <3>. QED  BY <3>1 DEF Orderly
  <2>2. Intact => Orderly
    BY DEF Intact, Orderly
  <2>3. Intact /\ m.whole => Intact'
    <3>. SUFFICES ASSUME Intact, m.whole, NEW i \in DOMAIN members'  PROVE members'[i].whole
      BY DEF Intact
    <3>1. i = Len(members) + 1 \/ (i \in DOMAIN members /\ members'[i] = members[i])
      BY <1>4
    <3>. QED  BY <1>4, <3>1 DEF Intact
  <2>. QED  BY <2>1, <2>2, <2>3
<1>10. Intact => ~CutShort
  BY <1>1, CutIsNotIntact
<1>11. Return => kept' = kept \o batch
  BY DEF Return
<1>12. Stop /\ kept = All(members) => CutShort'
  <2>. SUFFICES ASSUME Stop, kept = All(members)
                PROVE  \E f \in Seq(Member), l \in Member :
                         members' = Append(f, l) /\ ~l.whole /\ kept' = All(f)
    BY DEF CutShort, All, Recs
  <2>1. ~m.whole /\ kept' = All(members)
    BY DEF Stop, Return
  <2>. QED  BY <1>1, <1>2, <2>1
<1>13. All(members)' = All(members')
  BY DEF All, Recs
<1>14. KeptInv'
  <2>. SUFFICES ASSUME Orderly', ~lossy'
                PROVE  (Intact /\ kept = All(members))' \/ CutShort'
    BY DEF KeptInv
  <2>1. Intact /\ Orderly /\ ~lossy
    BY <1>9 DEF Stop
  <2>2. kept = All(members)
    BY <1>10, <2>1 DEF IInv, KeptInv
  <2>3. CASE Return /\ m.whole
    BY <1>3, <1>9, <1>11, <1>13, <2>2, <2>3
  <2>4. CASE Stop
    BY <1>12, <2>2, <2>4
  <2>. QED  BY <2>3, <2>4
<1>15. CountInv'
  <2>1. Pending' = 0
    BY <1>5 DEF Pending
  <2>2. Len(All(members))' + Pending' = Len(All(members)) + Len(batch)
    BY <1>1, <1>3, <1>13, <2>1
  <2>3. ASSUME Orderly', Len(All(members)) + Len(batch) = count' + missed'
        PROVE  (kept = All(members))' \/ CutShort'
    <3>1. kept = All(members)
      BY <1>9, <1>10, <2>3
    <3>2. CASE Return
      BY <1>3, <1>11, <1>13, <3>1, <3>2
    <3>3. CASE Stop
      BY <1>12, <3>1, <3>3
    <3>. QED  BY <3>2, <3>3
  <2>. QED  BY <2>2, <2>3 DEF CountInv
<1>. QED  BY <1>6, <1>7, <1>8, <1>14, <1>15 DEF IInv

\* Steps that leave the file and the records of the calls alone.
LEMMA FileUntouched ==
  ASSUME IInv, UNCHANGED <<members, head, count, missed>>, Types', BatchInv', HeadInv',
         \/ kept' = kept /\ lossy' = lossy
         \/ lossy' /\ pc = "append",
         \/ Pending' = Pending /\ kept' = kept
         \/ Pending' = 0 /\ pc = "append"
  PROVE  IInv'
<1>1. /\ batch \in Seq(Record) /\ members \in Seq(Member)
      /\ All(members) \in Seq(Record) /\ All(members)' = All(members)
      /\ Len(All(members)) \in Nat
  <2>1. batch \in Seq(Record) /\ members \in Seq(Member)
    BY DEF IInv, Types
  <2>2. \A m \in Member : All(members) \in Seq(Record)
    BY <2>1, InRecords
  <2>3. [recs |-> <<>>, got |-> 0, ragged |-> FALSE, whole |-> FALSE] \in Member
    BY DEF Member
  <2>4. All(members) \in Seq(Record)
    BY <2>2, <2>3
  <2>. QED  BY <2>1, <2>4 DEF All, Recs
<1>2. MembersInv'
  BY DEF IInv, MembersInv, IsBatch
<1>3. (Orderly' <=> Orderly) /\ (Intact' <=> Intact) /\ (kept' = kept => (CutShort' <=> CutShort))
  BY DEF Orderly, Intact, CutShort, All, Recs
<1>4. KeptInv'
  BY <1>1, <1>3 DEF IInv, KeptInv
<1>5. CountInv'
  <2>1. CASE Pending' = Pending /\ kept' = kept
    BY <1>1, <1>3, <2>1 DEF IInv, CountInv
  <2>2. CASE Pending' = 0 /\ pc = "append"
    <3>1. Pending = Len(batch) /\ Len(batch) \in Nat /\ Len(batch) > 0
          /\ count \in Nat /\ missed \in Nat
      BY <1>1, <2>2 DEF Pending, IInv, BatchInv, Types
    <3>2. head = "whole" => Len(All(members)) + 0 < count + missed
      BY <1>1, <3>1 DEF IInv, CountInv
    <3>. QED  BY <1>1, <2>2, <3>1, <3>2 DEF CountInv
  <2>. QED  BY <2>1, <2>2
<1>. QED  BY <1>2, <1>4, <1>5 DEF IInv

\* Every step keeps the invariant, action by action.
LEMMA StepInv == IInv /\ [Next]_vars => IInv'
<1>. SUFFICES ASSUME IInv, [Next]_vars  PROVE IInv'
  OBVIOUS
<1>1. Types /\ BatchInv /\ HeadInv /\ (Pending = 0 \/ pc = "append")
  BY DEF IInv, Pending
<1>2. <<>> \in Seq(Record) /\ Len(batch) \in Nat /\ All(<<>>) = <<>> /\ <<>> \in Seq(Member)
  BY <1>1, NoMembers DEF Types
<1>3. ASSUME Return \/ Stop, head' \in {"cut", "whole"}, count' \in Nat, missed' \in Nat,
             lossy' \in BOOLEAN,
             members' \in Seq(Member), head' = "whole" \/ members' = <<>>
      PROVE  Types' /\ BatchInv' /\ HeadInv' /\ Pending' = 0
  <2>1. kept' \in Seq(Record)
    <3>1. kept \in Seq(Record) /\ kept \o batch \in Seq(Record)
      BY <1>1 DEF Types
    <3>. QED  BY <1>3, <3>1 DEF Return, Stop
  <2>2. pc' \in {"idle", "dead"} /\ batch' \in Seq(Record) /\ writes' = writes
    BY <1>1, <1>2, <1>3 DEF Types, Return, Stop
  <2>3. Types'
    BY <1>1, <1>3, <2>1, <2>2 DEF Types
  <2>. QED  BY <1>3, <2>2, <2>3 DEF BatchInv, HeadInv, Pending
<1>4. ASSUME NEW n \in Sizes, Write(n)  PROVE IInv'
  <2>1. n \in Nat /\ n > 0 /\ writes' \in Nat
    BY <1>1, <1>4, GzipAssumption DEF Types, Write
  <2>2. IsBatch(batch') /\ Len(batch') > 0
    <3>1. \A k \in 1 .. n : <<writes', k>> \in Record
      BY <2>1 DEF Record
    <3>2. batch' = [k \in 1 .. n |-> <<writes', k>>]
      BY <1>4 DEF Write
    <3>. HIDE DEF Record
    <3>3. batch' \in Seq(Record) /\ Len(batch') = n /\ DOMAIN batch' = 1 .. n
      BY <2>1, <3>1, <3>2
    <3>. QED  BY <2>1, <3>2, <3>3 DEF IsBatch
  <2>3. /\ pc' = (IF head = "absent" THEN "create" ELSE "bump")
        /\ UNCHANGED <<kept, lossy, head, count, missed, members>> /\ pc = "idle"
    BY <1>4 DEF Write, Mode, disk
  <2>4. Types'
    BY <1>1, <2>1, <2>2, <2>3 DEF Types, IsBatch
  <2>5. HeadInv'
    BY <1>1, <2>3 DEF HeadInv
  <2>6. BatchInv' /\ Pending = 0 /\ Pending' = 0
    BY <2>2, <2>3 DEF BatchInv, IsBatch, Pending
  <2>. QED  BY <2>3, <2>4, <2>5, <2>6, FileUntouched
<1>5. ASSUME pc = "create", NEW m \in {Whole(batch)} \cup Pieces(batch), members' = <<m>>,
             head' = "whole", count' = Len(batch), missed' = missed,
             \/ Return /\ lossy' \in BOOLEAN /\ (~lossy' => ~lossy /\ m.whole)
             \/ Stop /\ ~m.whole
      PROVE  IInv'
  <2>1. members = <<>> /\ kept = <<>> /\ missed' = 0 /\ missed' \in Nat
    BY <1>1, <1>5 DEF HeadInv
  <2>2. members' = Append(members, m)
    BY <1>5, <2>1
  <2>3. Len(All(members)) = 0 /\ kept = All(members)
    BY <1>2, <2>1
  <2>4. Len(All(members)) + Len(batch) <= count' + missed' /\ count' \in Nat
    BY <1>2, <1>5, <2>1, <2>3
  <2>. QED  BY <1>5, <2>1, <2>2, <2>3, <2>4, MemberWritten
<1>6. CASE Create
  <2>1. lossy = FALSE /\ lossy' = FALSE /\ Whole(batch).whole
    BY <1>1, <1>6 DEF Create, HeadInv, Whole
  <2>. QED  BY <1>5, <1>6, <2>1 DEF Create
<1>7. ASSUME NEW m \in Pieces(batch)  PROVE ~m.whole
  BY DEF Pieces
<1>8. CASE CreateCut
  <2>1. pc = "create" /\ Leave /\ missed' = missed /\ missed' \in Nat
    BY <1>1, <1>8 DEF CreateCut, Types
  <2>2. (Return /\ lossy' = TRUE) \/ (Stop /\ lossy' = lossy)
    BY <2>1 DEF Leave, Stop
  <2>3. CASE head' = "whole" /\ count' = Len(batch) /\ \E m \in Pieces(batch) : members' = <<m>>
    BY <1>5, <1>7, <2>1, <2>2, <2>3
  <2>4. CASE head' = "cut" /\ count' = 0 /\ members' = <<>>
    <3>1. kept = <<>> /\ lossy' \in BOOLEAN
      BY <1>1, <2>1, <2>2 DEF HeadInv, Types
    <3>2. Types' /\ BatchInv' /\ HeadInv'
      BY <1>2, <1>3, <2>1, <2>2, <2>4, <3>1
    <3>3. MembersInv' /\ CountInv'
      BY <2>4 DEF MembersInv, CountInv
    <3>4. All(members)' = <<>>
      BY <1>2, <2>4 DEF All, Recs
    <3>5. KeptInv'
      <4>1. Intact'
        BY <2>4 DEF Intact
      <4>2. lossy' = TRUE \/ kept' = <<>>
        BY <2>2, <3>1 DEF Stop
      <4>. QED  BY <3>4, <4>1, <4>2 DEF KeptInv
    <3>. QED  BY <3>2, <3>3, <3>5 DEF IInv
  <2>. QED  BY <1>8, <2>3, <2>4 DEF CreateCut
<1>9. ASSUME pc = "bump", pc' = "append", head = "whole", count' \in Nat, missed' \in Nat,
             count' + missed' = count + missed + Len(batch),
             UNCHANGED <<batch, writes, kept, lossy, head, members>>
      PROVE  IInv'
  <2>1. Types' /\ HeadInv'
    BY <1>1, <1>2, <1>9 DEF Types, HeadInv
  <2>2. BatchInv' /\ MembersInv'
    BY <1>1, <1>9 DEF BatchInv, IInv, MembersInv, IsBatch
  <2>3. /\ All(members)' = All(members) /\ (Orderly' <=> Orderly) /\ (Intact' <=> Intact)
        /\ (CutShort' <=> CutShort)
    BY <1>9 DEF All, Recs, Orderly, Intact, CutShort
  <2>4. KeptInv'
    BY <1>9, <2>3 DEF IInv, KeptInv
  <2>5. CountInv'
    <3>1. Pending = 0 /\ Pending' = Len(batch) /\ count \in Nat /\ missed \in Nat
      BY <1>1, <1>9 DEF Pending, Types
    <3>2. Len(All(members)) \in Nat
      <4>1. Whole(batch) \in Member /\ members \in Seq(Member)
        BY <1>1, MembersAre DEF Types
      <4>2. All(members) \in Seq(Record)
        BY <4>1, InRecords
      <4>. QED  BY <4>2
    <3>3. Len(All(members)) <= count + missed
      BY <1>9, <3>1, <3>2 DEF IInv, CountInv
    <3>4. Orderly /\ Len(All(members)) = count + missed => kept = All(members) \/ CutShort
      BY <1>9, <3>1, <3>2 DEF IInv, CountInv
    <3>5. (kept = All(members))' <=> kept = All(members)
      BY <1>9, <2>3
    <3>. QED  BY <1>2, <1>9, <2>3, <3>1, <3>2, <3>3, <3>4, <3>5 DEF CountInv
  <2>. QED  BY <2>1, <2>2, <2>4, <2>5 DEF IInv
<1>10. CASE Bump
  <2>1. count \in Nat /\ missed \in Nat
    BY <1>1 DEF Types
  <2>. QED  BY <1>2, <1>9, <1>10, <2>1 DEF Bump, Bumped
<1>11. CASE BumpLost
  <2>1. count \in Nat /\ missed \in Nat
    BY <1>1 DEF Types
  <2>. QED  BY <1>2, <1>9, <1>11, <2>1 DEF BumpLost
<1>12. ASSUME Stop, UNCHANGED disk  PROVE IInv'
  <2>1. UNCHANGED <<kept, lossy, head, count, missed, members, batch, writes>> /\ pc' = "dead"
    BY <1>12 DEF Stop, disk
  <2>2. Types' /\ HeadInv' /\ BatchInv' /\ Pending' = 0
    BY <1>1, <2>1 DEF Types, HeadInv, BatchInv, Pending
  <2>. QED  BY <1>1, <2>1, <2>2, FileUntouched
<1>13. CASE BumpFails
  BY <1>12, <1>13 DEF BumpFails
<1>14. ASSUME pc = "append", UNCHANGED <<head, count, missed>>,
              NEW m \in {Whole(batch)} \cup Pieces(batch), members' = Append(members, m),
              \/ Return /\ lossy' \in BOOLEAN /\ (~lossy' => ~lossy /\ m.whole)
              \/ Stop /\ ~m.whole
       PROVE  IInv'
  <2>1. /\ head' = "whole" /\ head = "whole" /\ Pending = Len(batch)
        /\ count' = count /\ count' \in Nat /\ missed' = missed /\ missed' \in Nat
    BY <1>1, <1>14 DEF HeadInv, Types, Pending
  <2>2. /\ Len(All(members)) + Len(batch) <= count' + missed'
        /\ Orderly /\ Len(All(members)) + Len(batch) = count' + missed' =>
             kept = All(members) \/ CutShort
    BY <2>1 DEF IInv, CountInv
  <2>. QED  BY <1>14, <2>1, <2>2, MemberWritten
<1>15. CASE AppendMember
  <2>1. lossy' = lossy /\ lossy' \in BOOLEAN /\ Whole(batch).whole
    BY <1>1, <1>15 DEF AppendMember, Types, Whole
  <2>. QED  BY <1>14, <1>15, <2>1 DEF AppendMember
<1>16. CASE AppendCut
  <2>1. pc = "append" /\ Leave /\ UNCHANGED <<head, count, missed>>
    BY <1>16 DEF AppendCut
  <2>2. (Return /\ lossy' = TRUE) \/ (Stop /\ lossy' = lossy /\ kept' = kept)
    BY <2>1 DEF Leave, Stop
  <2>3. CASE \E m \in Pieces(batch) : members' = Append(members, m)
    BY <1>7, <1>14, <2>1, <2>2, <2>3
  <2>4. CASE UNCHANGED members
    <3>1. Types' /\ BatchInv' /\ HeadInv' /\ Pending' = 0
      <4>1. /\ head = "whole" /\ count \in Nat /\ missed \in Nat
            /\ members \in Seq(Member) /\ lossy' \in BOOLEAN
        BY <1>1, <2>1, <2>2 DEF HeadInv, Types
      <4>. QED  BY <1>3, <2>1, <2>2, <2>4, <4>1
    <3>. QED  BY <2>1, <2>2, <2>4, <3>1, FileUntouched
  <2>. QED  BY <1>16, <2>3, <2>4 DEF AppendCut
<1>17. CASE Die
  BY <1>12, <1>17 DEF Die
<1>18. CASE Restart
  <2>1. /\ UNCHANGED <<kept, lossy, head, count, missed, members, writes>>
        /\ pc = "dead" /\ pc' = "idle" /\ batch' = <<>>
    BY <1>18 DEF Restart, disk
  <2>2. Types' /\ HeadInv' /\ BatchInv' /\ Pending' = 0 /\ Pending = 0
    BY <1>1, <1>2, <2>1 DEF Types, HeadInv, BatchInv, Pending
  <2>. QED  BY <2>1, <2>2, FileUntouched
<1>19. CASE UNCHANGED vars
  <2>1. UNCHANGED <<pc, batch, writes, kept, lossy, head, count, missed, members>>
    BY <1>19 DEF vars, process, disk
  <2>2. Types' /\ HeadInv' /\ BatchInv' /\ Pending' = Pending
    BY <1>1, <2>1 DEF Types, HeadInv, BatchInv, IsBatch, Pending
  <2>. QED  BY <2>1, <2>2, FileUntouched
<1>. QED
  BY <1>4, <1>6, <1>8, <1>10, <1>11, <1>13, <1>15, <1>16, <1>17, <1>18, <1>19 DEF Next

\* Whatever dies or is lost where, the file holds the batches of the calls in
\* the order they came in, and all of them are counted by its header or by a
\* rewrite of the header that was lost.
THEOREM Invariance == Spec => []IInv
<1>1. Init => IInv
  BY InitInv
<1>2. IInv /\ [Next]_vars => IInv'
  BY StepInv
<1>. QED  BY <1>1, <1>2, PTL DEF Spec

-----------------------------------------------------------------------------
(***************************************************************************)
(* What the reader gets                                                    *)
(***************************************************************************)

\* A sequence that starts with another one.
LEMMA Piece ==
  ASSUME NEW R, NEW a \in Seq(R), NEW p \in Seq(R)
  PROVE  /\ IsPrefix(a, a \o p)
         /\ SubSeq(a \o p, Len(a) + 1, Len(a \o p)) = p
<1>. DEFINE s == a \o p
<1>1. /\ s \in Seq(R) /\ Len(a) \in Nat /\ Len(p) \in Nat /\ Len(s) = Len(a) + Len(p)
      /\ \A i \in 1 .. Len(a) : s[i] = a[i]
      /\ \A i \in 1 .. Len(p) : s[Len(a) + i] = p[i]
  OBVIOUS
<1>. HIDE DEF s
<1>2. SubSeq(s, 1, Len(a)) = SubSeq(a, 1, Len(a))
  <2>1. SubSeq(s, 1, Len(a)) = [i \in 1 .. Len(a) |-> s[i]]
    BY <1>1
  <2>2. SubSeq(a, 1, Len(a)) = [i \in 1 .. Len(a) |-> a[i]]
    BY <1>1
  <2>. QED  BY <1>1, <2>1, <2>2
<1>3. SubSeq(s, Len(a) + 1, Len(s)) = p
  <2>1. SubSeq(s, Len(a) + 1, Len(s)) = [i \in 1 .. Len(p) |-> s[Len(a) + i]]
    BY <1>1
  <2>2. p = [i \in 1 .. Len(p) |-> p[i]]
    OBVIOUS
  <2>. QED  BY <1>1, <2>1, <2>2
<1>4. IsPrefix(a, s)
  BY <1>1, <1>2 DEF IsPrefix
<1>. QED  BY <1>3, <1>4 DEF s

\* The beginning of a sequence, for the records that can be decoded.
LEMMA Beginning ==
  ASSUME NEW R, NEW s \in Seq(R), NEW g \in Nat, g <= Len(s)
  PROVE  /\ SubSeq(s, 1, g) \in Seq(R) /\ Len(SubSeq(s, 1, g)) = g
         /\ \A i \in 1 .. g : SubSeq(s, 1, g)[i] = s[i]
         /\ g = Len(s) => SubSeq(s, 1, g) = s
<1>1. SubSeq(s, 1, g) = [i \in 1 .. g |-> s[i]]
  OBVIOUS
<1>2. s = [i \in 1 .. Len(s) |-> s[i]]
  OBVIOUS
<1>3. SubSeq(s, 1, g) \in Seq(R) /\ Len(SubSeq(s, 1, g)) = g
  OBVIOUS
<1>. QED  BY <1>1, <1>2, <1>3

\* The last member and those before it.
LEMMA SplitLast ==
  ASSUME NEW ms \in Seq(Member), ms # <<>>
  PROVE  \E f \in Seq(Member), l \in Member : ms = Append(f, l)
<1>1. Len(ms) \in Nat /\ Len(ms) > 0
  OBVIOUS
<1>. DEFINE f == SubSeq(ms, 1, Len(ms) - 1)
<1>2. f \in Seq(Member) /\ Len(f) = Len(ms) - 1 /\ \A i \in 1 .. Len(ms) - 1 : f[i] = ms[i]
  <2>1. Len(ms) - 1 \in Nat /\ Len(ms) - 1 <= Len(ms)
    BY <1>1
  <2>. QED  BY <2>1, Beginning
<1>3. ms[Len(ms)] \in Member
  BY <1>1
<1>. HIDE DEF f
<1>4. ms = Append(f, ms[Len(ms)])
  BY <1>1, <1>2, <1>3
<1>. QED  BY <1>2, <1>3, <1>4

LEMMA SameSplit ==
  ASSUME NEW f \in Seq(Member), NEW g \in Seq(Member), NEW l, NEW k, Append(f, l) = Append(g, k)
  PROVE  f = g /\ l = k
<1>1. Len(f) = Len(g) /\ Len(f) \in Nat
  <2>1. Len(Append(f, l)) = Len(f) + 1 /\ Len(Append(g, k)) = Len(g) + 1
    OBVIOUS
  <2>. QED  BY <2>1
<1>2. \A h \in Seq(Member) : \A x : \A i \in 1 .. Len(h) : Append(h, x)[i] = h[i]
  OBVIOUS
<1>3. \A h \in Seq(Member) : \A x : Append(h, x)[Len(h) + 1] = x
  OBVIOUS
<1>4. \A i \in 1 .. Len(f) : f[i] = g[i]
  BY <1>1, <1>2
<1>5. f = g
  BY <1>1, <1>4
<1>6. l = k
  BY <1>1, <1>3
<1>. QED  BY <1>5, <1>6

\* All members but the last are decoded in full.
LEMMA ContentsAre ==
  ASSUME MembersInv, Orderly,
         NEW f \in Seq(Member), NEW l \in Member, members = Append(f, l)
  PROVE  /\ IsBatch(l.recs) /\ l.got \in Nat /\ l.got <= Len(l.recs)
         /\ l.whole => l.got = Len(l.recs)
         /\ Contents = All(f) \o SubSeq(l.recs, 1, l.got)
         /\ All(f) \in Seq(Record) /\ All(members) = All(f) \o l.recs
<1>1. /\ Len(f) \in Nat /\ DOMAIN members = 1 .. Len(f) + 1 /\ DOMAIN f = 1 .. Len(f)
      /\ Len(members) = Len(f) + 1 /\ members[Len(f) + 1] = l
      /\ \A i \in 1 .. Len(f) : members[i] = f[i]
  OBVIOUS
<1>2. IsBatch(l.recs) /\ l.got \in Nat /\ l.got <= Len(l.recs) /\ (l.whole => l.got = Len(l.recs))
  <2>1. Len(f) + 1 \in DOMAIN members
    BY <1>1
  <2>2. l.got \in Nat
    BY DEF Member
  <2>. QED  BY <1>1, <2>1, <2>2 DEF MembersInv
<1>3. SubSeq(l.recs, 1, l.got) \in Seq(Record)
  BY <1>2, Beginning DEF IsBatch
<1>4. \A i \in 1 .. Len(f) : SubSeq(f[i].recs, 1, f[i].got) = f[i].recs /\ f[i].recs \in Seq(Record)
  <2>. TAKE i \in 1 .. Len(f)
  <2>1. i \in DOMAIN members /\ i # Len(members) /\ members[i] = f[i]
    BY <1>1
  <2>2. f[i].got = Len(f[i].recs) /\ IsBatch(f[i].recs)
    BY <2>1 DEF MembersInv, Orderly
  <2>3. f[i].recs \in Seq(Record) /\ Len(f[i].recs) \in Nat
    BY <2>2 DEF IsBatch
  <2>. QED  BY <2>2, <2>3, Beginning
<1>5. Recs(f) \in Seq(Seq(Record)) /\ Len(Recs(f)) = Len(f) /\ \A i \in 1 .. Len(f) : Recs(f)[i] = f[i].recs
  <2>1. Recs(f) = [i \in 1 .. Len(f) |-> f[i].recs]
    BY <1>1 DEF Recs
  <2>. QED  BY <1>1, <1>4, <2>1
<1>6. Decoded = Append(Recs(f), SubSeq(l.recs, 1, l.got))
  <2>. DEFINE a == Append(Recs(f), SubSeq(l.recs, 1, l.got))
  <2>1. a \in Seq(Seq(Record)) /\ Len(a) = Len(f) + 1
    BY <1>3, <1>5
  <2>2. \A i \in 1 .. Len(f) : a[i] = SubSeq(members[i].recs, 1, members[i].got)
    <3>1. \A i \in 1 .. Len(f) : a[i] = Recs(f)[i]
      BY <1>1, <1>3, <1>5
    <3>. HIDE DEF a
    <3>. QED  BY <1>1, <1>4, <1>5, <3>1
  <2>3. a[Len(f) + 1] = SubSeq(members[Len(f) + 1].recs, 1, members[Len(f) + 1].got)
    <3>1. a[Len(f) + 1] = SubSeq(l.recs, 1, l.got)
      BY <1>1, <1>3, <1>5
    <3>. HIDE DEF a
    <3>. QED  BY <1>1, <3>1
  <2>. HIDE DEF a
  <2>4. \A i \in 1 .. Len(f) + 1 : a[i] = SubSeq(members[i].recs, 1, members[i].got)
    <3>1. \A i \in 1 .. Len(f) + 1 : i \in 1 .. Len(f) \/ i = Len(f) + 1
      BY <1>1
    <3>. QED  BY <2>2, <2>3, <3>1
  <2>5. a = [i \in 1 .. Len(f) + 1 |-> a[i]]
    BY <2>1
  <2>6. a = [i \in 1 .. Len(f) + 1 |-> SubSeq(members[i].recs, 1, members[i].got)]
    BY <2>4, <2>5
  <2>. QED  BY <1>1, <2>6 DEF Decoded, a
<1>7. Contents = All(f) \o SubSeq(l.recs, 1, l.got)
  BY <1>3, <1>5, <1>6, FlattenAppend DEF Contents, All
<1>. QED  BY <1>2, <1>7, InRecords

\* What can be read is what the members were meant to hold, less the end of the
\* last one.
LEMMA ReaderGets ==
  ASSUME IInv, Readable
  PROVE  /\ Orderly /\ head = "whole" /\ Len(All(members)) \in Nat /\ Len(Contents) \in Nat
         /\ Len(Contents) <= Len(All(members))
         /\ Len(Contents) = Len(All(members)) => Contents = All(members)
         /\ Intact => Contents = All(members)
         /\ All(members) \in Seq(Record)
         /\ CutShort => \E p : /\ IsBatch(p) /\ kept \in Seq(Record) /\ Contents = kept \o p
<1>1. Orderly /\ head = "whole" /\ members \in Seq(Member) /\ MembersInv /\ kept \in Seq(Record)
  BY DEF Readable, Orderly, IInv, Types
<1>2. CASE members = <<>>
  <2>1. Contents = <<>> /\ All(members) = <<>>
    <3>1. Decoded = <<>>
      BY <1>2 DEF Decoded
    <3>. QED  BY <1>2, <3>1, NoMembers DEF Contents, FlattenSeq
  <2>2. Intact
    BY <1>2 DEF Intact
  <2>3. ~CutShort
    BY <1>1, <2>2, CutIsNotIntact
  <2>4. <<>> \in Seq(Record) /\ Len(<<>>) = 0
    OBVIOUS
  <2>. QED  BY <1>1, <2>1, <2>3, <2>4
<1>3. CASE members # <<>>
  <2>1. PICK f \in Seq(Member), l \in Member : members = Append(f, l)
    BY <1>1, <1>3, SplitLast
  <2>. DEFINE p == SubSeq(l.recs, 1, l.got)
  <2>2. /\ IsBatch(l.recs) /\ l.got \in Nat /\ l.got <= Len(l.recs)
        /\ l.whole => l.got = Len(l.recs)
        /\ Contents = All(f) \o p
        /\ All(f) \in Seq(Record) /\ All(members) = All(f) \o l.recs
    BY <1>1, <2>1, ContentsAre
  <2>3. l.recs \in Seq(Record) /\ Len(l.recs) \in Nat
    BY <2>2 DEF IsBatch
  <2>4. /\ p \in Seq(Record) /\ Len(p) = l.got /\ \A i \in 1 .. l.got : p[i] = l.recs[i]
        /\ l.got = Len(l.recs) => p = l.recs
    BY <2>2, <2>3, Beginning
  <2>. HIDE DEF p
  <2>5. /\ Len(All(members)) = Len(All(f)) + Len(l.recs) /\ Len(Contents) = Len(All(f)) + l.got
        /\ Len(All(f)) \in Nat /\ All(members) \in Seq(Record)
    <3>1. \A a, b \in Seq(Record) : a \o b \in Seq(Record) /\ Len(a \o b) = Len(a) + Len(b)
      OBVIOUS
    <3>2. \A a \in Seq(Record) : Len(a) \in Nat
      OBVIOUS
    <3>. HIDE DEF Record
    <3>. QED  BY <2>2, <2>3, <2>4, <3>1, <3>2
  <2>6. Intact => l.whole
    <3>1. Len(f) + 1 \in DOMAIN members /\ members[Len(f) + 1] = l
      BY <2>1
    <3>. QED  BY <3>1 DEF Intact
  <2>7. l.got = Len(l.recs) => Contents = All(members)
    BY <2>2, <2>4
  <2>8. IsBatch(p)
    <3>1. DOMAIN p = 1 .. l.got /\ DOMAIN l.recs = 1 .. Len(l.recs)
      BY <2>2, <2>3, <2>4
    <3>2. PICK w \in Nat : \A i \in DOMAIN l.recs : l.recs[i] = <<w, i>>
      BY <2>2 DEF IsBatch
    <3>3. \A i \in DOMAIN p : i \in DOMAIN l.recs /\ p[i] = l.recs[i]
      BY <2>2, <2>3, <2>4, <3>1
    <3>4. \A i \in DOMAIN p : p[i] = <<w, i>>
      BY <3>2, <3>3
    <3>. QED  BY <2>4, <3>4 DEF IsBatch
  <2>9. CutShort => kept = All(f)
    <3>. SUFFICES ASSUME CutShort  PROVE kept = All(f)
      OBVIOUS
    <3>1. PICK g \in Seq(Member), k \in Member : members = Append(g, k) /\ kept = All(g)
      BY DEF CutShort
    <3>2. f = g
      BY <2>1, <3>1, SameSplit
    <3>. QED  BY <3>1, <3>2
  <2>10. Len(All(members)) \in Nat /\ Len(Contents) \in Nat /\ Len(Contents) <= Len(All(members))
    BY <2>2, <2>3, <2>5
  <2>11. Len(Contents) = Len(All(members)) => Contents = All(members)
    BY <2>2, <2>3, <2>5, <2>7
  <2>12. CutShort => \E q : IsBatch(q) /\ kept \in Seq(Record) /\ Contents = kept \o q
    BY <1>1, <2>2, <2>8, <2>9
  <2>. QED  BY <1>1, <2>2, <2>5, <2>6, <2>7, <2>10, <2>11, <2>12
<1>. QED  BY <1>2, <1>3

\* Unless a stream lost bytes unnoticed, a file that can be read yields every
\* record of every call that returned, in order, and besides at most the
\* beginning of one batch whose process died.
THEOREM NothingReturnedIsLost == Spec => []ReadsBack
<1>1. IInv => ReadsBack
  <2>. SUFFICES ASSUME IInv, Readable, ~lossy
                PROVE  LET extra == SubSeq(Contents, Len(kept) + 1, Len(Contents)) IN
                       /\ IsPrefix(kept, Contents)
                       /\ \A i \in DOMAIN extra : extra[i] = <<extra[1][1], i>>
    BY DEF ReadsBack
  <2>1. PICK p : IsBatch(p) /\ kept \in Seq(Record) /\ Contents = kept \o p
    <3>1. CASE CutShort
      BY <3>1, ReaderGets
    <3>2. CASE Intact /\ kept = All(members)
      <4>1. kept \in Seq(Record) /\ Contents = kept
        BY <3>2, ReaderGets
      <4>2. Contents = kept \o <<>> /\ <<>> \in Seq(Record) /\ DOMAIN <<>> = {}
        BY <4>1
      <4>3. IsBatch(<<>>)
        BY <4>2 DEF IsBatch
      <4>. QED  BY <4>1, <4>2, <4>3
    <3>. QED  BY <3>1, <3>2, ReaderGets DEF IInv, KeptInv
  <2>2. p \in Seq(Record)
    BY <2>1 DEF IsBatch
  <2>3. IsPrefix(kept, Contents) /\ SubSeq(Contents, Len(kept) + 1, Len(Contents)) = p
    BY <2>1, <2>2, Piece
  <2>4. PICK w \in Nat : \A i \in DOMAIN p : p[i] = <<w, i>>
    BY <2>1 DEF IsBatch
  <2>5. \A i \in DOMAIN p : 1 \in DOMAIN p
    BY <2>2
  <2>6. \A i \in DOMAIN p : p[i] = <<p[1][1], i>>
    BY <2>4, <2>5
  <2>. QED  BY <2>3, <2>6
<1>. QED  BY <1>1, Invariance, PTL

\* The count in the header falls short of what can be read only by the batches
\* whose rewrite of it was lost.  Counting these in, a reader that gets as many
\* records as there should be has every record whose write returned, even if a
\* stream lost some unnoticed.
THEOREM CountIsACheck == Spec => []CountTells
<1>1. IInv => CountTells
  <2>. SUFFICES ASSUME IInv, Readable
                PROVE  /\ Len(Contents) <= count + missed
                       /\ Len(Contents) = count + missed => IsPrefix(kept, Contents)
    BY DEF CountTells
  <2>1. /\ Orderly /\ head = "whole" /\ Len(All(members)) \in Nat /\ Len(Contents) \in Nat
        /\ Len(Contents) <= Len(All(members))
        /\ Len(Contents) = Len(All(members)) => Contents = All(members)
        /\ All(members) \in Seq(Record)
    BY ReaderGets
  <2>2. Pending \in Nat /\ count \in Nat /\ missed \in Nat
    BY DEF IInv, Types, Pending
  <2>3. Len(All(members)) + Pending <= count + missed
    BY <2>1 DEF IInv, CountInv
  <2>4. ASSUME Len(Contents) = count + missed  PROVE IsPrefix(kept, Contents)
    <3>1. Contents = All(members) /\ Len(All(members)) + Pending = count + missed
      BY <2>1, <2>2, <2>3, <2>4
    <3>2. \E p : IsBatch(p) /\ kept \in Seq(Record) /\ Contents = kept \o p
      <4>1. CASE CutShort
        BY <4>1, ReaderGets
      <4>2. CASE kept = All(members)
        <5>1. kept \in Seq(Record) /\ Contents = kept \o <<>> /\ <<>> \in Seq(Record) /\ DOMAIN <<>> = {}
          BY <2>1, <3>1, <4>2
        <5>2. IsBatch(<<>>)
          BY <5>1 DEF IsBatch
        <5>. QED  BY <5>1, <5>2
      <4>. QED  BY <2>1, <3>1, <4>1, <4>2 DEF IInv, CountInv
    <3>3. \A p : IsBatch(p) => p \in Seq(Record)
      BY DEF IsBatch
    <3>. QED  BY <3>2, <3>3, Piece
  <2>. QED  BY <2>1, <2>2, <2>3, <2>4
<1>. QED  BY <1>1, Invariance, PTL

=============================================================================
