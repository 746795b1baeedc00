----------------------------- MODULE Pkd2_proofs -----------------------------
(***************************************************************************)
(* Proofs about PKD2 trajectory files.                                     *)
(*                                                                         *)
(* Of the file, for any seeds and any number of trajectories: whatever     *)
(* fails, a reader never gets a trajectory that has been replaced, and     *)
(* unless a write fails the file is a WriteOnceFile.                       *)
(*                                                                         *)
(* Of a block, of any length: a reader's sums drift by half a tick per     *)
(* sample at most, although each difference is rounded by itself, and the  *)
(* writer's longitude takes the short way.                                 *)
(***************************************************************************)
EXTENDS Pkd2File, Pkd2Codec, TLAPS


Entry  == [id : Ids, at : Nat, version : Nat]
Chunks == {Cut} \cup {Block(v) : v \in Nat} \cup {Table(t) : t \in Seq(Entry)}

Types ==
  /\ pc \in {"open", "idle", "toc", "flush", "header", "closed", "dead"}
  /\ retried \in BOOLEAN /\ failed \in BOOLEAN
  /\ toc \in Seq(Entry) /\ Len(toc) <= MaxAdds
  /\ stream \in Seq(Chunks) /\ flushed \in 0 .. Len(stream)
  /\ tocAt \in Nat /\ header \in [n : Int, at : Nat]

\* The positions of a seed in the table.
Mine(i) == {k \in DOMAIN toc : toc[k].id = i}

\* Entries are numbered, and the latest one of a seed is defined.
TocInv ==
  /\ \A k \in DOMAIN toc : toc[k].version = k
  /\ \A i \in Ids : Mine(i) # {} => \E k \in Mine(i) : \A j \in Mine(i) : k >= j

\* Once there is a table nothing is added any more: every table in the file,
\* also one that a failed close has left, is the whole table.  Only the last
\* write of all makes the header point to one.
TableInv ==
  /\ \A k \in DOMAIN stream : stream[k].kind = "toc" =>
       pc \notin {"open", "idle"} /\ stream[k] = Table(toc)
  /\ header.n > 0 => pc = "closed" /\ header.n = Len(toc)
  /\ pc = "open" => toc = <<>> /\ header = NoHeader

\* As long as no write has failed: blocks are where the table says, the table
\* is where the header is going to say, and both are on disk before it is.
SoundInv ==
  ~failed =>
    /\ \A k \in DOMAIN toc : toc[k].at \in DOMAIN stream /\ stream[toc[k].at] = Block(k)
    /\ pc \notin {"open", "dead"} => header.n >= 0
    /\ pc \in {"flush", "header", "closed"} /\ toc # <<>> =>
         tocAt \in DOMAIN stream /\ stream[tocAt] = Table(toc)
    /\ pc \in {"header", "closed"} => flushed = Len(stream)
    /\ pc = "closed" => header = [n |-> Len(toc), at |-> tocAt]

IInv == Types /\ TocInv /\ TableInv /\ SoundInv

-----------------------------------------------------------------------------
(***************************************************************************)
(* The invariant                                                           *)
(***************************************************************************)

LEMMA InitInv == Init => IInv
<1>. SUFFICES ASSUME Init PROVE IInv
  OBVIOUS
<1>1. Types
  <2>1. toc \in Seq(Entry) /\ Len(toc) <= MaxAdds /\ stream \in Seq(Chunks)
    BY Pkd2Assumption DEF Init
  <2>2. flushed \in 0 .. Len(stream) /\ header \in [n : Int, at : Nat]
    BY DEF Init, NoHeader
  <2>. QED  BY <2>1, <2>2 DEF Init, Types
<1>2. TocInv
  BY DEF Init, TocInv, Mine
<1>3. TableInv /\ SoundInv
  BY DEF Init, TableInv, SoundInv, NoHeader
<1>. QED  BY <1>1, <1>2, <1>3 DEF IInv

\* A position behind k, in a sequence with at most one item behind k.
LEMMA OneBehind ==
  \A j, k, m \in Int : (m = 0 \/ m = 1) /\ ~(j <= k) /\ j <= k + m => j - k = 1 /\ m = 1
OBVIOUS

\* What losing output leaves of the stream.
LEMMA LoseOutputStream ==
  ASSUME Types, LoseOutput
  PROVE  /\ failed' = TRUE /\ header' = header
         /\ stream' \in Seq(Chunks) /\ flushed' \in 0 .. Len(stream')
         /\ \A j \in DOMAIN stream' : stream'[j] = Cut \/ (j \in DOMAIN stream /\ stream'[j] = stream[j])
<1>1. PICK k, piece :
        /\ k \in flushed .. Len(stream) /\ piece \in {<<>>, <<Cut>>}
        /\ stream' = SubSeq(stream, 1, k) \o piece
        /\ flushed' = Len(stream')
  BY DEF LoseOutput
<1>2. /\ SubSeq(stream, 1, k) \in Seq(Chunks) /\ Len(SubSeq(stream, 1, k)) = k
      /\ \A j \in 1 .. k : SubSeq(stream, 1, k)[j] = stream[j] /\ j \in DOMAIN stream
      /\ k \in Nat
  BY <1>1 DEF Types
<1>3. piece \in Seq(Chunks) /\ Len(piece) \in {0, 1} /\ (Len(piece) = 1 => piece[1] = Cut)
  <2>1. Cut \in Chunks /\ piece \in {<<>>, <<Cut>>}
    BY <1>1 DEF Chunks
  <2>2. CASE piece = <<>>
    BY <2>2
  <2>3. CASE piece = <<Cut>>
    BY <2>1, <2>3
  <2>. QED  BY <2>1, <2>2, <2>3
<1>4. stream' \in Seq(Chunks) /\ Len(stream') = k + Len(piece)
  BY <1>1, <1>2, <1>3
<1>5. \A j \in 1 .. Len(stream') :
        stream'[j] = IF j <= k THEN SubSeq(stream, 1, k)[j] ELSE piece[j - k]
  BY <1>1, <1>2, <1>3, <1>4
<1>6. ASSUME NEW j \in DOMAIN stream'
      PROVE  stream'[j] = Cut \/ (j \in DOMAIN stream /\ stream'[j] = stream[j])
  <2>1. j \in 1 .. Len(stream')
    BY <1>4
  <2>2. CASE j <= k
    BY <1>2, <1>5, <2>1, <2>2
  <2>3. CASE ~(j <= k)
    <3>0. j \in Int /\ j <= k + Len(piece) /\ k \in Int /\ Len(piece) \in Int
      BY <1>2, <1>3, <1>4, <2>1
    <3>1. j - k = 1 /\ Len(piece) = 1
      <4>1. Len(piece) = 0 \/ Len(piece) = 1
        BY <1>3
      <4>. QED  BY <2>3, <3>0, <4>1, OneBehind
    <3>. QED  BY <1>3, <1>5, <2>1, <2>3, <3>1
  <2>. QED  BY <2>2, <2>3
<1>7. flushed' \in 0 .. Len(stream')
  BY <1>1, <1>4
<1>. QED  BY <1>4, <1>6, <1>7 DEF LoseOutput

\* The table is unchanged by every step but Add.
LEMMA TocFrame ==
  ASSUME TocInv, toc' = toc  PROVE TocInv'
BY DEF TocInv, Mine

LEMMA LoseStep ==
  ASSUME IInv, LoseOutput, toc' = toc, tocAt' \in Nat, retried' \in BOOLEAN,
         \/ pc \in {"idle", "toc"} /\ pc' \in {"toc", "dead"}
         \/ pc = "flush" /\ pc' = "header"
  PROVE  IInv'
<1>1. /\ failed' = TRUE /\ header' = header
      /\ stream' \in Seq(Chunks) /\ flushed' \in 0 .. Len(stream')
      /\ \A j \in DOMAIN stream' : stream'[j] = Cut \/ (j \in DOMAIN stream /\ stream'[j] = stream[j])
  BY LoseOutputStream DEF IInv
<1>2. Types'
  BY <1>1 DEF IInv, Types
<1>3. TableInv'
  <2>1. header.n > 0 => FALSE
    BY DEF IInv, TableInv
  <2>2. ASSUME NEW k \in DOMAIN stream', stream'[k].kind = "toc"
        PROVE  stream'[k] = Table(toc)
    <3>1. stream'[k] # Cut
      BY <2>2 DEF Cut
    <3>. QED  BY <1>1, <2>2, <3>1 DEF IInv, TableInv
  <2>. QED  BY <1>1, <2>1, <2>2 DEF TableInv
<1>4. SoundInv'
  BY <1>1 DEF SoundInv
<1>. QED  BY <1>2, <1>3, <1>4, TocFrame DEF IInv

LEMMA AddStep ==
  ASSUME IInv, NEW i \in Ids, Add(i)
  PROVE  IInv'
<1> DEFINE v == Len(toc) + 1
           e == [id |-> i, at |-> Offset, version |-> v]
<1>1. /\ pc = "idle" /\ pc' = "idle" /\ Len(toc) < MaxAdds
      /\ stream' = Append(stream, Block(v)) /\ toc' = Append(toc, e)
      /\ UNCHANGED <<retried, tocAt, flushed, header, failed>>
  BY DEF Add
<1>2. v \in Nat /\ e \in Entry /\ Block(v) \in Chunks /\ Offset = Len(stream) + 1
  BY DEF IInv, Types, Entry, Chunks, Offset
<1>3. toc \in Seq(Entry) /\ stream \in Seq(Chunks)
  BY DEF IInv, Types
<1>. HIDE DEF e
<1>4. /\ toc' \in Seq(Entry) /\ Len(toc') = v /\ DOMAIN toc' = 1 .. v /\ toc'[v] = e
      /\ \A k \in 1 .. v : k # v => toc'[k] = toc[k] /\ k \in DOMAIN toc
  BY <1>1, <1>2, <1>3
<1>5. /\ stream' \in Seq(Chunks) /\ Len(stream') = Len(stream) + 1
      /\ stream'[Len(stream) + 1] = Block(v)
      /\ DOMAIN stream' = 1 .. Len(stream) + 1 /\ DOMAIN stream = 1 .. Len(stream)
      /\ \A k \in DOMAIN stream : stream'[k] = stream[k]
  BY <1>1, <1>2, <1>3
<1>6. e.id = i /\ e.version = v /\ e.at = Len(stream) + 1
  BY <1>2 DEF e
<1>7. Types'
  <2>1. Len(toc') <= MaxAdds
    BY <1>1, <1>3, <1>4, Pkd2Assumption
  <2>2. flushed' \in 0 .. Len(stream')
    BY <1>1, <1>3, <1>5 DEF IInv, Types
  <2>. QED  BY <1>1, <1>4, <1>5, <2>1, <2>2 DEF IInv, Types
<1>8. TocInv'
  <2>1. \A k \in DOMAIN toc' : toc'[k].version = k
    BY <1>4, <1>6 DEF IInv, TocInv
  <2>2. ASSUME NEW j \in Ids, Mine(j)' # {}
        PROVE  \E k \in Mine(j)' : \A m \in Mine(j)' : k >= m
    <3>1. CASE j = i
      <4>1. v \in Mine(j)' /\ \A m \in Mine(j)' : v >= m
        BY <1>2, <1>4, <1>6, <3>1 DEF Mine
      <4>. QED  BY <4>1
    <3>2. CASE j # i
      <4>1. Mine(j)' = Mine(j)
        <5>1. DOMAIN toc = 1 .. Len(toc)
          BY <1>3
        <5>. QED  BY <1>3, <1>4, <1>6, <3>2, <5>1 DEF Mine
      <4>. QED  BY <2>2, <4>1 DEF IInv, TocInv
    <3>. QED  BY <3>1, <3>2
  <2>. QED  BY <2>1, <2>2 DEF TocInv
<1>9. TableInv'
  <2>1. \A k \in DOMAIN stream' : stream'[k].kind # "toc"
    <3>1. \A k \in DOMAIN stream : stream[k].kind # "toc"
      BY <1>1 DEF IInv, TableInv
    <3>2. Block(v).kind = "block"
      BY DEF Block
    <3>. QED  BY <1>3, <1>5, <3>1, <3>2
  <2>. QED  BY <1>1, <2>1 DEF IInv, TableInv
<1>10. SoundInv'
  <2>. SUFFICES ASSUME ~failed
                PROVE  \A k \in DOMAIN toc' : toc'[k].at \in DOMAIN stream' /\ stream'[toc'[k].at] = Block(k)
    BY <1>1 DEF SoundInv, IInv
  <2>1. ASSUME NEW k \in DOMAIN toc', k # v
        PROVE  toc'[k].at \in DOMAIN stream' /\ stream'[toc'[k].at] = Block(k)
    <3>1. toc'[k] = toc[k] /\ toc[k].at \in DOMAIN stream /\ stream[toc[k].at] = Block(k)
      BY <1>4, <2>1 DEF IInv, SoundInv
    <3>. QED  BY <1>3, <1>5, <3>1
  <2>2. toc'[v].at \in DOMAIN stream' /\ stream'[toc'[v].at] = Block(v)
    BY <1>3, <1>4, <1>5, <1>6
  <2>. QED  BY <2>1, <2>2
<1>. QED  BY <1>7, <1>8, <1>9, <1>10 DEF IInv

\* Steps after which the stream is as before, or only more of it is on disk,
\* and no trajectory is accepted.
LEMMA WriteTocStep ==
  ASSUME IInv, WriteToc
  PROVE  IInv'
<1>1. /\ pc = "toc" /\ pc' = "flush" /\ tocAt' = Len(stream) + 1
      /\ stream' = IF toc = <<>> THEN stream ELSE Append(stream, Table(toc))
      /\ UNCHANGED <<retried, toc, flushed, header, failed>>
  BY DEF WriteToc, Offset
<1>2. stream \in Seq(Chunks) /\ Len(stream) \in Nat /\ DOMAIN stream = 1 .. Len(stream)
      /\ toc \in Seq(Entry)
  BY DEF IInv, Types
<1>3. Table(toc) \in Chunks
  BY <1>2 DEF Chunks
<1>4. /\ stream' \in Seq(Chunks) /\ Len(stream') >= Len(stream)
      /\ \A k \in DOMAIN stream : k \in DOMAIN stream' /\ stream'[k] = stream[k]
      /\ \A k \in DOMAIN stream' : k \in DOMAIN stream \/ stream'[k] = Table(toc)
      /\ toc # <<>> => Len(stream) + 1 \in DOMAIN stream'
                       /\ stream'[Len(stream) + 1] = Table(toc)
  <2>1. CASE toc = <<>>
    BY <1>1, <1>2, <2>1
  <2>2. CASE toc # <<>>
    <3>1. stream' = Append(stream, Table(toc))
      BY <1>1, <2>2
    <3>2. /\ stream' \in Seq(Chunks) /\ Len(stream') = Len(stream) + 1
          /\ DOMAIN stream' = 1 .. Len(stream) + 1
          /\ \A k \in 1 .. Len(stream) : stream'[k] = stream[k]
          /\ stream'[Len(stream) + 1] = Table(toc)
      BY <1>2, <1>3, <3>1
    <3>. QED  BY <1>2, <3>2
  <2>. QED  BY <2>1, <2>2
<1>5. Types'
  <2>1. flushed' \in 0 .. Len(stream') /\ tocAt' \in Nat
    BY <1>1, <1>2, <1>4 DEF IInv, Types
  <2>. QED  BY <1>1, <1>4, <2>1 DEF IInv, Types
<1>6. TableInv'
  BY <1>1, <1>4 DEF IInv, TableInv
<1>7. SoundInv'
  <2>. SUFFICES ASSUME ~failed
                PROVE  /\ \A k \in DOMAIN toc : toc[k].at \in DOMAIN stream' /\ stream'[toc[k].at] = Block(k)
                       /\ header.n >= 0
                       /\ toc # <<>> => tocAt' \in DOMAIN stream' /\ stream'[tocAt'] = Table(toc)
    BY <1>1 DEF SoundInv
  <2>. QED  BY <1>1, <1>4 DEF IInv, SoundInv
<1>. QED  BY <1>1, <1>5, <1>6, <1>7, TocFrame DEF IInv

LEMMA WriteHeaderStep ==
  ASSUME IInv, WriteHeader
  PROVE  IInv'
<1>1. /\ pc = "header" /\ pc' = "closed"
      /\ UNCHANGED <<retried, toc, tocAt, stream, flushed>>
      /\ \/ header' = [n |-> Len(toc), at |-> tocAt] /\ failed' = failed
         \/ failed' = TRUE /\ header' = header
  BY DEF WriteHeader, WriteAtFront
<1>2. Len(toc) \in Nat /\ toc \in Seq(Entry)
  BY DEF IInv, Types
<1>3. Types'
  <2>1. header' \in [n : Int, at : Nat] /\ failed' \in BOOLEAN
    <3>1. [n |-> Len(toc), at |-> tocAt] \in [n : Int, at : Nat]
      BY <1>2 DEF IInv, Types
    <3>2. header \in [n : Int, at : Nat] /\ failed \in BOOLEAN
      BY DEF IInv, Types
    <3>. QED  BY <1>1, <3>1, <3>2, Zenon
  <2>. QED  BY <1>1, <2>1 DEF IInv, Types
<1>4. TableInv'
  <2>1. header'.n > 0 => header'.n = Len(toc)
    BY <1>1 DEF IInv, TableInv
  <2>. QED  BY <1>1, <2>1 DEF IInv, TableInv
<1>5. SoundInv'
  <2>. SUFFICES ASSUME ~failed'  PROVE SoundInv'
    BY DEF SoundInv
  <2>1. header' = [n |-> Len(toc), at |-> tocAt] /\ ~failed
    BY <1>1
  <2>2. header'.n >= 0
    BY <1>2, <2>1
  <2>. QED  BY <1>1, <2>1, <2>2 DEF IInv, SoundInv
<1>. QED  BY <1>1, <1>3, <1>4, <1>5, TocFrame DEF IInv

LEMMA OpenStep ==
  ASSUME IInv, Open
  PROVE  IInv'
<1>1. /\ pc = "open" /\ pc' = "idle"
      /\ UNCHANGED <<retried, toc, tocAt, stream, flushed>>
      /\ \/ header' = [n |-> 0, at |-> 0] /\ failed' = failed
         \/ failed' = TRUE /\ header' = header
  BY DEF Open, WriteAtFront
<1>2. Types'
  <2>1. header' \in [n : Int, at : Nat] /\ failed' \in BOOLEAN
    <3>1. [n |-> 0, at |-> 0] \in [n : Int, at : Nat]
      OBVIOUS
    <3>2. header \in [n : Int, at : Nat] /\ failed \in BOOLEAN
      BY DEF IInv, Types
    <3>. QED  BY <1>1, <3>1, <3>2, Zenon
  <2>. QED  BY <1>1, <2>1 DEF IInv, Types
<1>3. header'.n <= 0 /\ (~failed' => header'.n = 0 /\ ~failed)
  BY <1>1 DEF IInv, TableInv, NoHeader
<1>4. TableInv' /\ SoundInv'
  BY <1>1, <1>3, Pkd2Assumption DEF IInv, TableInv, SoundInv, Types
<1>. QED  BY <1>1, <1>2, <1>4, TocFrame DEF IInv

LEMMA FlushStep ==
  ASSUME IInv, Flush \/ Drain
  PROVE  IInv'
<1>1. /\ UNCHANGED <<retried, toc, tocAt, stream, header, failed>>
      /\ \/ pc = "flush" /\ pc' = "header" /\ flushed' = Len(stream)
         \/ pc \in {"idle", "toc", "flush"} /\ pc' = pc /\ flushed' = flushed + 1
            /\ flushed < Len(stream)
  BY DEF Flush, FlushedAll, Drain, writer
<1>2. Types'
  <2>1. Len(stream) \in Nat /\ flushed \in Nat
    BY DEF IInv, Types
  <2>2. flushed' \in 0 .. Len(stream')
    BY <1>1, <2>1
  <2>. QED  BY <1>1, <2>2 DEF IInv, Types
<1>3. TableInv' /\ SoundInv'
  BY <1>1 DEF IInv, TableInv, SoundInv
<1>. QED  BY <1>1, <1>2, <1>3, TocFrame DEF IInv

LEMMA EndStep ==
  ASSUME IInv, Close \/ FlushFails \/ Die \/ UNCHANGED vars
  PROVE  IInv'
<1>1. UNCHANGED <<toc, tocAt, stream, flushed, header>>
  BY DEF Close, FlushFails, Fail, Die, vars, writer, disk
<1>2. /\ retried' \in BOOLEAN
      /\ \/ failed' = failed \/ failed' = TRUE
      /\ \/ pc = "idle" /\ pc' = "toc" /\ failed' = failed
         \/ pc = "flush" /\ pc' \in {"toc", "dead"} /\ failed' = TRUE
         \/ pc \notin {"closed", "dead"} /\ pc' = "dead" /\ failed' = failed
         \/ pc' = pc /\ failed' = failed
  BY DEF Close, FlushFails, Fail, Die, vars, writer, disk, IInv, Types
<1>3. Types'
  BY <1>1, <1>2 DEF IInv, Types
<1>4. TableInv' /\ SoundInv'
  BY <1>1, <1>2 DEF IInv, TableInv, SoundInv
<1>. QED  BY <1>1, <1>3, <1>4, TocFrame DEF IInv

LEMMA StepInv == IInv /\ [Next]_vars => IInv'
<1>. SUFFICES ASSUME IInv, [Next]_vars PROVE IInv'
  OBVIOUS
<1>1. CASE AddFails \/ WriteTocFails
  <2>1. /\ LoseOutput /\ toc' = toc /\ pc \in {"idle", "toc"} /\ pc' \in {"toc", "dead"}
        /\ retried' \in BOOLEAN /\ tocAt' \in {tocAt, Len(stream) + 1}
    BY <1>1 DEF AddFails, WriteTocFails, Fail, Offset
  <2>2. tocAt' \in Nat
    BY <2>1 DEF IInv, Types
  <2>. QED  BY <2>1, <2>2, LoseStep
<1>2. CASE FlushLoses
  <2>1. /\ LoseOutput /\ toc' = toc /\ pc = "flush" /\ pc' = "header"
        /\ retried' \in BOOLEAN /\ tocAt' \in Nat
    BY <1>2 DEF FlushLoses, IInv, Types
  <2>. QED  BY <2>1, LoseStep
<1>. QED
  BY <1>1, <1>2, AddStep, WriteTocStep, WriteHeaderStep, OpenStep, FlushStep, EndStep DEF Next

\* Blocks, tables and header fit as long as no write fails, and no table is ever
\* a partial one.
THEOREM Invariance == Spec => []IInv
BY InitInv, StepInv, PTL DEF Spec

\* Types hold, and without a failed write the table points to its blocks.
THEOREM TypeCorrect == Spec => []TypeOK
<1>1. IInv => TypeOK
  <2>. SUFFICES ASSUME IInv PROVE TypeOK
    OBVIOUS
  <2>1. \A k \in DOMAIN toc : toc[k].id \in Ids
    <3>1. \A k \in DOMAIN toc : toc[k] \in Entry
      BY DEF IInv, Types
    <3>. QED  BY <3>1 DEF Entry
  <2>. QED  BY <2>1 DEF IInv, Types, TocInv, SoundInv, TypeOK, Chunk
<1>. QED  BY <1>1, Invariance, PTL

-----------------------------------------------------------------------------
(***************************************************************************)
(* What a reader finds                                                     *)
(***************************************************************************)

\* A header without entries is that of a file not yet closed.
LEMMA ReadsNothing ==
  header.n <= 0 /\ header.n \in Int =>
    Contents = IF header.n = 0 THEN File!Empty ELSE Unreadable
<1>1. ASSUME header.n = 0
      PROVE  Contents = File!Empty
  <2>1. Opens /\ Entries = <<>>
    BY <1>1 DEF Opens, Entries
  <2>2. \A i \in Ids : Positions(i) = {}
    BY <2>1 DEF Positions
  <2>3. \A i \in Ids : Trajectory(i) = None
    BY <2>2 DEF Trajectory
  <2>. QED  BY <2>1, <2>3 DEF Contents, File!Empty
<1>2. ASSUME header.n < 0, header.n \in Int
      PROVE  Contents = Unreadable
  BY <1>2 DEF Contents, Opens
<1>. QED  BY <1>1, <1>2

\* If the header has entries and there is a table where it points, it is the
\* table of everything that was added.
LEMMA ReadsTheTable ==
  ASSUME IInv, Opens, header.n > 0
  PROVE  Entries = toc
<1>1. TableRead.kind = "toc"
  BY DEF Opens, IInv, Types
<1>2. header.at \in DOMAIN stream /\ TableRead = stream[header.at]
  BY <1>1 DEF TableRead, OnDisk, Chunk, Cut
<1>3. TableRead = Table(toc)
  BY <1>1, <1>2 DEF IInv, TableInv
<1>. QED  BY <1>3 DEF Entries, Table

\* The latest entry of a seed.
LEMMA Latest ==
  ASSUME IInv, Opens, header.n > 0, NEW i \in Ids
  PROVE  /\ Positions(i) = Mine(i)
         /\ Mine(i) = {} => Accepted[i] = None /\ Trajectory(i) = None
         /\ Mine(i) # {} => /\ Accepted[i] \in Mine(i)
                            /\ Trajectory(i) =
                                 IF OnDisk(toc[Accepted[i]].at) = Block(Accepted[i])
                                 THEN Accepted[i] ELSE Unreadable
<1> DEFINE last == CHOOSE k \in Mine(i) : \A j \in Mine(i) : k >= j
<1>1. Entries = toc
  BY ReadsTheTable
<1>2. Positions(i) = Mine(i)
  BY <1>1 DEF Positions, Mine
<1>3. Accepted[i] = IF Mine(i) = {} THEN None ELSE last
  BY DEF Accepted, Mine
<1>4. Mine(i) # {} => last \in Mine(i)
  BY DEF IInv, TocInv
<1>5. Index(i) = last
  BY <1>2 DEF Index
<1>. HIDE DEF last
<1>6. Mine(i) # {} => Entries[Index(i)].version = last /\ Entries[Index(i)].at = toc[last].at
  BY <1>1, <1>4, <1>5 DEF Mine, IInv, TocInv
<1>7. Mine(i) # {} => Trajectory(i) = IF OnDisk(toc[last].at) = Block(last) THEN last ELSE Unreadable
  BY <1>2, <1>6 DEF Trajectory
<1>8. Mine(i) = {} => Trajectory(i) = None
  BY <1>2 DEF Trajectory
<1>. QED  BY <1>2, <1>3, <1>4, <1>7, <1>8

\* Even when writes fail, a reader gets for a seed the last trajectory accepted
\* for it, or none: never one that has been replaced, nor another seed's.
THEOREM NothingStale == Spec => []NeverStale
<1>1. IInv => NeverStale
  <2>. SUFFICES ASSUME IInv, Opens, NEW i \in Ids
                PROVE  Trajectory(i) \in {None, Unreadable, Accepted[i]}
    BY DEF NeverStale
  <2>1. CASE header.n = 0
    <3>1. Positions(i) = {}
      BY <2>1 DEF Positions, Entries
    <3>. QED  BY <3>1 DEF Trajectory
  <2>2. CASE header.n > 0
    BY <2>2, Latest
  <2>3. header.n = 0 \/ header.n > 0
    BY DEF Opens
  <2>. QED  BY <2>1, <2>2, <2>3
<1>. QED  BY <1>1, Invariance, PTL

-----------------------------------------------------------------------------
(***************************************************************************)
(* The file is written once                                                *)
(***************************************************************************)

\* The file the abstract specification sees.
Seen == IF failed THEN Spoilt ELSE Contents

\* A file that was closed without a failure holds everything.
LEMMA ReadsEverything ==
  IInv /\ ~failed /\ pc = "closed" => Contents = Accepted
<1>. SUFFICES ASSUME IInv, ~failed, pc = "closed" PROVE Contents = Accepted
  OBVIOUS
<1>1. header = [n |-> Len(toc), at |-> tocAt] /\ flushed = Len(stream)
  BY DEF IInv, SoundInv
<1>2. Len(toc) \in Nat /\ DOMAIN stream = 1 .. Len(stream) /\ Len(stream) \in Nat
  BY DEF IInv, Types
<1>3. Accepted = [i \in Ids |-> Accepted[i]]
  BY DEF Accepted
<1>4. CASE toc = <<>>
  <2>1. Contents = File!Empty
    BY <1>1, <1>4, ReadsNothing
  <2>2. \A i \in Ids : Mine(i) = {}
    BY <1>4 DEF Mine
  <2>3. \A i \in Ids : Accepted[i] = None
    BY <2>2 DEF Accepted, Mine
  <2>. QED  BY <1>3, <2>1, <2>3 DEF File!Empty
<1>5. CASE toc # <<>>
  <2>1. header.n > 0 /\ header.n = Len(toc) /\ header.at = tocAt
    BY <1>1, <1>2, <1>5 DEF IInv, Types
  <2>2. tocAt \in 1 .. flushed /\ stream[tocAt] = Table(toc)
    BY <1>1, <1>2, <1>5 DEF IInv, SoundInv
  <2>3. TableRead = Table(toc)
    BY <1>1, <1>2, <2>1, <2>2 DEF TableRead, OnDisk, Chunk
  <2>4. Opens
    BY <2>1, <2>3 DEF Opens, Table
  <2>5. ASSUME NEW i \in Ids  PROVE Trajectory(i) = Accepted[i]
    <3>1. CASE Mine(i) = {}
      BY <2>1, <2>4, <3>1, Latest
    <3>2. CASE Mine(i) # {}
      <4> DEFINE v == Accepted[i]
      <4>1. v \in DOMAIN toc
        BY <2>1, <2>4, <3>2, Latest DEF Mine
      <4>. HIDE DEF v
      <4>2. toc[v].at \in 1 .. flushed /\ stream[toc[v].at] = Block(v)
        BY <1>1, <1>2, <4>1 DEF IInv, SoundInv
      <4>3. OnDisk(toc[v].at) = Block(v)
        BY <1>1, <1>2, <4>2 DEF OnDisk, Chunk
      <4>. QED  BY <2>1, <2>4, <3>2, <4>3, Latest DEF v
    <3>. QED  BY <3>1, <3>2
  <2>. QED  BY <1>3, <2>4, <2>5 DEF Contents
<1>. QED  BY <1>4, <1>5

\* Until then it is unreadable or empty.
LEMMA ReadsLittle ==
  IInv /\ ~failed /\ pc # "closed" => Contents = IF header.n = 0 THEN File!Empty ELSE Unreadable
<1>1. IInv /\ pc # "closed" => header.n <= 0 /\ header.n \in Int
  BY DEF IInv, TableInv, Types
<1>. QED  BY <1>1, ReadsNothing

LEMMA FileInitial == Init => File!FileInit
<1>. SUFFICES ASSUME Init PROVE File!FileInit
  OBVIOUS
<1>1. Contents = Unreadable /\ ~failed
  BY ReadsNothing DEF Init, NoHeader
<1>2. Accepted = File!Empty
  BY DEF Init, Accepted, File!Empty
<1>. QED  BY <1>1, <1>2 DEF File!FileInit

LEMMA AddAccepts ==
  ASSUME IInv, NEW i \in Ids, Add(i)
  PROVE  File!FileNext
<1> DEFINE v == Len(toc) + 1
<1>1. /\ pc = "idle" /\ Len(toc) < MaxAdds /\ header' = header /\ failed' = failed /\ pc' = pc
      /\ toc' = Append(toc, [id |-> i, at |-> Offset, version |-> v])
  BY DEF Add
<1>2. toc \in Seq(Entry) /\ v \in 1 .. MaxAdds
  BY <1>1, Pkd2Assumption DEF IInv, Types
<1>3. /\ DOMAIN toc' = 1 .. v /\ toc'[v].id = i /\ DOMAIN toc = 1 .. Len(toc)
      /\ \A k \in 1 .. v : k # v => toc'[k] = toc[k]
  BY <1>1, <1>2
<1>4. ASSUME NEW j \in Ids
      PROVE  Accepted'[j] = IF j = i THEN v ELSE Accepted[j]
  <2>1. /\ Accepted'[j] = IF Mine(j)' = {} THEN None
                          ELSE CHOOSE k \in Mine(j)' : \A m \in Mine(j)' : k >= m
        /\ Accepted[j] = IF Mine(j) = {} THEN None
                         ELSE CHOOSE k \in Mine(j) : \A m \in Mine(j) : k >= m
    BY DEF Accepted, Mine
  <2>2. CASE j # i
    <3>1. Mine(j)' = Mine(j)
      BY <1>2, <1>3, <2>2 DEF Mine
    <3>. QED  BY <2>1, <2>2, <3>1
  <2>3. CASE j = i
    <3>1. v \in Mine(j)' /\ \A m \in Mine(j)' : m \in Int /\ v >= m
      BY <1>2, <1>3, <2>3 DEF Mine
    <3>2. \A k \in Mine(j)' : (\A m \in Mine(j)' : k >= m) => k = v
      BY <1>2, <3>1
    <3>3. (CHOOSE k \in Mine(j)' : \A m \in Mine(j)' : k >= m) = v
      BY <3>1, <3>2
    <3>. QED  BY <2>1, <2>3, <3>1, <3>3
  <2>. QED  BY <2>2, <2>3
<1>5. Accepted' = [Accepted EXCEPT ![i] = v]
  <2>1. Accepted = [j \in Ids |-> Accepted[j]] /\ Accepted' = [j \in Ids |-> Accepted'[j]]
    BY DEF Accepted
  <2>. QED  BY <1>4, <2>1, Zenon
<1>6. Seen \in {File!Empty, Spoilt} /\ Seen' = Seen
  <2>1. CASE failed
    BY <1>1, <2>1 DEF Seen
  <2>2. CASE ~failed
    <3>1. header.n = 0 /\ pc # "closed"
      BY <1>1, <2>2 DEF IInv, SoundInv, TableInv, Types
    <3>2. Contents = File!Empty
      BY <2>2, <3>1, ReadsLittle
    <3>3. IInv'
      BY AddStep
    <3>4. Contents' = File!Empty
      <4>1. (IInv /\ ~failed /\ pc # "closed" =>
                Contents = IF header.n = 0 THEN File!Empty ELSE Unreadable)'
        BY ReadsLittle, PTL
      <4>. QED  BY <1>1, <2>2, <3>1, <3>3, <4>1
    <3>. QED  BY <1>1, <2>2, <3>2, <3>4 DEF Seen
  <2>. QED  BY <2>1, <2>2
<1>7. File!Accept(i, v)
  BY <1>5, <1>6 DEF File!Accept, Seen
<1>. QED  BY <1>2, <1>7 DEF File!FileNext

\* A step that accepts nothing spoils the file, creates it, publishes it, or
\* changes nothing a reader sees.
LEMMA OthersPublish ==
  ASSUME IInv, IInv', [Next]_vars, toc' = toc
  PROVE  File!FileNext \/ UNCHANGED File!fileVars
<1>1. Accepted' = Accepted
  BY DEF Accepted
<1>2. CASE failed'
  <2>1. Seen' = Spoilt
    BY <1>2 DEF Seen
  <2>2. File!Spoil
    BY <1>1, <2>1 DEF File!Spoil, Seen
  <2>. QED  BY <2>2 DEF File!FileNext
<1>3. CASE ~failed'
  <2>0. ~failed
    BY <1>3 DEF Next, Open, WriteAtFront, AddFails, LoseOutput, Close, WriteToc, WriteTocFails,
      Flush, FlushLoses, FlushFails, WriteHeader, Drain, Die, Add, vars, writer, disk
  <2>1. /\ IInv /\ ~failed /\ pc # "closed" =>
             Contents = IF header.n = 0 THEN File!Empty ELSE Unreadable
        /\ (IInv /\ ~failed /\ pc # "closed" =>
              Contents = IF header.n = 0 THEN File!Empty ELSE Unreadable)'
        /\ (IInv /\ ~failed /\ pc = "closed" => Contents = Accepted)'
    BY ReadsLittle, ReadsEverything, PTL
  <2>2. CASE UNCHANGED vars
    <3>1. Contents' = Contents
      BY <2>2 DEF vars, writer, disk, Contents, Opens, Trajectory, Positions, Index, Entries,
                  TableRead, OnDisk, Chunk
    <3>. QED  BY <1>1, <1>3, <2>0, <3>1 DEF File!fileVars
  <2>3. CASE Open
    <3>1. pc = "open" /\ pc' = "idle" /\ header.n = -1 /\ header'.n = 0
      BY <1>3, <2>3 DEF Open, WriteAtFront, IInv, TableInv, NoHeader
    <3>2. Contents = Unreadable /\ Contents' = File!Empty
      BY <1>3, <2>0, <2>1, <3>1
    <3>3. File!Create
      BY <1>1, <1>3, <2>0, <3>2 DEF File!Create, File!Empty
    <3>. QED  BY <3>3 DEF File!FileNext
  <2>4. CASE WriteHeader
    <3>1. pc = "header" /\ pc' = "closed" /\ header.n = 0
      BY <2>0, <2>4 DEF WriteHeader, IInv, SoundInv, TableInv, Types
    <3>2. Contents = File!Empty /\ Contents' = Accepted
      BY <1>1, <1>3, <2>0, <2>1, <3>1
    <3>3. File!Publish
      BY <1>1, <1>3, <2>0, <3>2 DEF File!Publish, File!Empty
    <3>. QED  BY <3>3 DEF File!FileNext
  <2>5. CASE Close \/ WriteToc \/ Flush \/ Drain \/ Die
    <3>1. header' = header /\ pc # "closed" /\ pc' # "closed"
      BY <2>5 DEF Close, WriteToc, Flush, Drain, Die, disk, writer
    <3>2. Contents' = Contents
      BY <1>3, <2>0, <2>1, <3>1
    <3>. QED  BY <1>1, <1>3, <2>0, <3>2 DEF File!fileVars
  <2>6. \A i \in Ids : ~Add(i)
    <3>1. toc \in Seq(Entry)
      BY DEF IInv, Types
    <3>2. \A e : Len(Append(toc, e)) = Len(toc) + 1 /\ Len(toc) \in Nat
      BY <3>1
    <3>. QED  BY <3>2 DEF Add
  <2>7. ~AddFails /\ ~WriteTocFails /\ ~FlushLoses /\ ~FlushFails
    BY <1>3 DEF AddFails, WriteTocFails, FlushLoses, FlushFails, LoseOutput
  <2>. QED  BY <2>2, <2>3, <2>4, <2>5, <2>6, <2>7 DEF Next
<1>. QED  BY <1>2, <1>3

LEMMA FileStep ==
  IInv /\ [Next]_vars => [File!FileNext]_(File!fileVars)
<1>. SUFFICES ASSUME IInv, [Next]_vars
              PROVE  File!FileNext \/ UNCHANGED File!fileVars
  OBVIOUS
<1>1. CASE \E i \in Ids : Add(i)
  BY <1>1, AddAccepts
<1>2. CASE ~\E i \in Ids : Add(i)
  <2>1. toc' = toc
    BY <1>2 DEF Next, Open, AddFails, Close, WriteToc, WriteTocFails, Flush, FlushLoses,
      FlushFails, Fail, WriteHeader, Drain, Die, vars, writer
  <2>. QED  BY <2>1, StepInv, OthersPublish
<1>. QED  BY <1>1, <1>2

\* Unless a write has failed, whoever opens the file, at any moment and also
\* after its writer died, finds it unreadable, empty, or with everything.
THEOREM WrittenAtOnce == Spec => WholeOrEmpty
BY FileInitial, FileStep, Invariance, PTL DEF Spec, WholeOrEmpty, File!FileSpec

-----------------------------------------------------------------------------
(***************************************************************************)
(* A block                                                                 *)
(***************************************************************************)


\* Positions within a turn of the interval that longitudes are kept in.
ArePositions == Lons \subseteq (-2 * Pi) .. (2 * Pi) /\ Lats \subseteq Int

Half == Pi \div 2

\* The writer's angles are those of the sample, up to turns and clamping, and
\* the reader's are close to the writer's.
BlockInv ==
  /\ n \in Nat /\ L \in Int /\ B \in Int /\ prevL \in Int /\ prevB \in Int
  /\ n > 0 =>
       /\ lon \in Int /\ lat \in Int
       /\ -3 * Pi <= prevL /\ prevL <= 3 * Pi
       /\ -Half <= prevB /\ prevB <= Half /\ prevB = ClampLat(lat)
       /\ \E k \in -2 .. 2 : prevL = lon + k * (2 * Pi)
       /\ 2 * Abs(L * Sub - prevL) <= n * Sub
       /\ 2 * Abs(B * Sub - prevB) <= n * Sub

-----------------------------------------------------------------------------
(***************************************************************************)
(* Rounding and unwrapping                                                 *)
(***************************************************************************)

LEMMA Quantities ==
  /\ Sub \in Nat \ {0} /\ Pi \in Nat \ {0} /\ Half \in Nat /\ 2 * Half = Pi
  /\ MinTick \in Int /\ MaxTick \in Int
  /\ MinTick * Sub < -6 * Pi /\ 6 * Pi < MaxTick * Sub
  /\ NaN \notin Int
BY CodecAssumption DEF Half

\* What division leaves.
LEMMA Quotient ==
  ASSUME NEW x \in Int, NEW m \in Nat \ {0}
  PROVE  /\ x \div m \in Int /\ x % m \in Int
         /\ x = m * (x \div m) + (x % m) /\ 0 <= x % m /\ x % m < m
OBVIOUS

\* Rounding to ticks costs half a tick at most.
LEMMA RoundedClose ==
  ASSUME NEW x \in Int
  PROVE  /\ Rounded(x, Sub) \in Int
         /\ 2 * (Rounded(x, Sub) * Sub) <= 2 * x + Sub
         /\ 2 * x - Sub <= 2 * (Rounded(x, Sub) * Sub)
<1>1. Sub \in Nat \ {0} /\ 2 * Sub \in Nat \ {0}
  BY Quantities
<1>2. ASSUME NEW y \in Int
      PROVE  \E q \in Int : y \div (2 * Sub) = q /\ 2 * (q * Sub) <= y /\ y < 2 * (q * Sub) + 2 * Sub
  <2> DEFINE m == 2 * Sub
             q == y \div m
  <2>1. q \in Int /\ y % m \in Int /\ y = m * q + (y % m) /\ 0 <= y % m /\ y % m < m
    BY <1>1, Quotient
  <2>. HIDE DEF q
  <2>2. m * q = 2 * (q * Sub) /\ q * Sub \in Int
    BY <1>1, <2>1
  <2>3. 2 * (q * Sub) <= y /\ y < 2 * (q * Sub) + 2 * Sub
    BY <1>1, <2>1, <2>2
  <2>. QED  BY <2>1, <2>3 DEF q
<1>3. CASE x >= 0
  <2>1. 2 * x + Sub \in Int
    BY <1>1
  <2>2. PICK q \in Int : /\ (2 * x + Sub) \div (2 * Sub) = q
                         /\ 2 * (q * Sub) <= 2 * x + Sub /\ 2 * x + Sub < 2 * (q * Sub) + 2 * Sub
    BY <1>2, <2>1
  <2>3. Rounded(x, Sub) = q
    BY <1>3, <2>2 DEF Rounded
  <2>. QED  BY <1>1, <2>2, <2>3
<1>4. CASE x < 0
  <2>1. Sub - 2 * x \in Int
    BY <1>1
  <2>2. PICK q \in Int : /\ (Sub - 2 * x) \div (2 * Sub) = q
                         /\ 2 * (q * Sub) <= Sub - 2 * x /\ Sub - 2 * x < 2 * (q * Sub) + 2 * Sub
    BY <1>2, <2>1
  <2>3. Rounded(x, Sub) = -q
    BY <1>4, <2>2 DEF Rounded
  <2>4. q * Sub \in Int /\ (-q) * Sub = -(q * Sub)
    BY <1>1, <2>2
  <2>. QED  BY <1>1, <2>2, <2>3, <2>4
<1>. QED  BY <1>3, <1>4

\* No difference within six half turns is clamped to the range of a tick.
LEMMA TicksAre ==
  ASSUME NEW x \in Int, -6 * Pi <= x, x <= 6 * Pi, NEW q \in Ticks(x)
  PROVE  q \in Int /\ 2 * Abs(q * Sub - x) <= Sub
<1>1. x # NaN
  BY Quantities
<1> DEFINE r == Rounded(x, Sub)
<1>2. r \in Int /\ 2 * (r * Sub) <= 2 * x + Sub /\ 2 * x - Sub <= 2 * (r * Sub)
  BY RoundedClose
<1>3. q = IF r > MaxTick THEN MaxTick ELSE IF r < MinTick THEN MinTick ELSE r
  BY <1>1 DEF Ticks
<1>. HIDE DEF r
<1>4. ~(r > MaxTick)
  <2>1. r > MaxTick => r * Sub >= MaxTick * Sub + Sub
    BY <1>2, Quantities
  <2>. QED  BY <1>2, <2>1, Quantities
<1>5. ~(r < MinTick)
  <2>1. r < MinTick => r * Sub + Sub <= MinTick * Sub
    BY <1>2, Quantities
  <2>. QED  BY <1>2, <2>1, Quantities
<1>6. q = r /\ r * Sub \in Int
  BY <1>2, <1>3, <1>4, <1>5, Quantities
<1>. QED  BY <1>2, <1>6, Quantities DEF Abs

LEMMA UnwrapPiIs ==
  ASSUME NEW r \in Int, -2 * Pi <= r, r <= 2 * Pi
  PROVE  /\ UnwrapPi(r) \in Int /\ -Pi < UnwrapPi(r) /\ UnwrapPi(r) <= Pi
         /\ UnwrapPi(r) = r - 2 * Pi \/ UnwrapPi(r) = r \/ UnwrapPi(r) = r + 2 * Pi
<1> DEFINE m == 2 * Pi
           x == r + Pi - 1
<1>1. m \in Nat \ {0} /\ x \in Int /\ -m <= x /\ x < 2 * m
  BY Quantities
<1>2. UnwrapPi(r) = (x % m) - Pi + 1
  BY Quantities DEF UnwrapPi
<1>3. x % m \in 0 .. m - 1
  BY <1>1
<1>4. x % m = x - m \/ x % m = x \/ x % m = x + m
  <2> DEFINE d == x \div m
             e == x % m
  <2>1. d \in Int /\ e \in Int /\ x = m * d + e /\ 0 <= e /\ e < m
    BY <1>1, Quotient
  <2>. HIDE DEF m, x, d, e
  <2>2. d <= 1
    <3>1. d >= 2 => m * d >= 2 * m
      BY <1>1, <2>1
    <3>. QED  BY <1>1, <2>1, <3>1
  <2>3. d >= -1
    <3>1. d <= -2 => m * d <= -2 * m
      BY <1>1, <2>1
    <3>. QED  BY <1>1, <2>1, <3>1
  <2>4. d = -1 \/ d = 0 \/ d = 1
    BY <2>1, <2>2, <2>3
  <2>5. e = x - m \/ e = x \/ e = x + m
    BY <1>1, <2>1, <2>4
  <2>. QED  BY <2>5 DEF e
<1>. QED  BY <1>2, <1>3, <1>4, Quantities

\* Following turns at most once, so that longitudes stay within three half
\* turns; it takes the short way unless that is beyond them.
LEMMA UnwrapFollowIs ==
  ASSUME NEW prev \in Int, -3 * Pi <= prev, prev <= 3 * Pi,
         NEW r \in Int, -2 * Pi <= r, r <= 2 * Pi
  PROVE  LET s == UnwrapFollow(prev, r) IN
         /\ s \in Int /\ -3 * Pi <= s /\ s <= 3 * Pi
         /\ \E k \in -2 .. 2 : s = r + k * (2 * Pi)
         /\ \/ Abs(s - prev) <= Pi
            \/ \E t \in {-2 * Pi, 2 * Pi} : Abs(s + t - prev) <= Pi /\ Abs(s + t) >= 3 * Pi
<1> DEFINE u == UnwrapPi(r)
           s == UnwrapFollow(prev, r)
<1>1. /\ u \in Int /\ -Pi < u /\ u <= Pi
      /\ u = r - 2 * Pi \/ u = r \/ u = r + 2 * Pi
  BY UnwrapPiIs
<1>2. Minus(u, prev) = u - prev /\ u - prev # NaN
  BY <1>1, Quantities DEF Minus
<1>3. s = IF u - prev > Pi THEN u - 2 * Pi ELSE IF u - prev < -Pi THEN u + 2 * Pi ELSE u
  BY <1>2 DEF UnwrapFollow
<1>. HIDE DEF u, s
<1>4. s \in Int /\ -3 * Pi <= s /\ s <= 3 * Pi
  BY <1>1, <1>3, Quantities
<1>5. \E k \in -2 .. 2 : s = r + k * (2 * Pi)
  <2>1. \/ s = r + (-2) * (2 * Pi) \/ s = r + (-1) * (2 * Pi) \/ s = r + 0 * (2 * Pi)
        \/ s = r + 1 * (2 * Pi) \/ s = r + 2 * (2 * Pi)
    BY <1>1, <1>3, Quantities
  <2>. QED  BY <2>1
<1>6. \/ Abs(s - prev) <= Pi
      \/ \E t \in {-2 * Pi, 2 * Pi} : Abs(s + t - prev) <= Pi /\ Abs(s + t) >= 3 * Pi
  BY <1>1, <1>3, Quantities DEF Abs
<1>. QED  BY <1>4, <1>5, <1>6 DEF s

LEMMA ClampLatIs ==
  ASSUME NEW r \in Int
  PROVE  ClampLat(r) \in Int /\ -Half <= ClampLat(r) /\ ClampLat(r) <= Half
BY Quantities DEF ClampLat, Half

-----------------------------------------------------------------------------
(***************************************************************************)
(* The drift                                                               *)
(***************************************************************************)

\* One more rounded difference costs half a tick more.
LEMMA OneMoreSample ==
  ASSUME NEW k \in Nat, NEW S \in Int, NEW p \in Int, NEW p2 \in Int, NEW q \in Int,
         2 * Abs(S * Sub - p) <= k * Sub, 2 * Abs(q * Sub - (p2 - p)) <= Sub
  PROVE  2 * Abs((S + q) * Sub - p2) <= (k + 1) * Sub
<1>1. /\ (S + q) * Sub = S * Sub + q * Sub /\ (k + 1) * Sub = k * Sub + Sub
      /\ S * Sub \in Int /\ q * Sub \in Int /\ k * Sub \in Int /\ Sub \in Int
  BY Quantities
<1>. QED  BY <1>1 DEF Abs

\* Latitudes are half a turn apart at most.
LEMMA LatitudeSpan ==
  ASSUME NEW x \in Int, -Half <= x, x <= Half, NEW y \in Int, -Half <= y, y <= Half
  PROVE  x - y \in Int /\ -Pi <= x - y /\ x - y <= Pi
<1>1. ASSUME NEW h \in Int, NEW p \in Int, 2 * h = p, -h <= x, x <= h, -h <= y, y <= h
      PROVE  -p <= x - y /\ x - y <= p
  BY <1>1
<1>. QED  BY <1>1, Quantities

LEMMA FirstStep ==
  ASSUME ArePositions, BlockInv, NEW l \in Lons, NEW b \in Lats, First(l, b)
  PROVE  BlockInv'
<1>1. l \in Int /\ -2 * Pi <= l /\ l <= 2 * Pi /\ b \in Int
  BY Quantities DEF ArePositions
<1>2. /\ prevL' = UnwrapPi(l) /\ prevB' = ClampLat(b) /\ L' \in Ticks(prevL') /\ B' \in Ticks(prevB')
      /\ lon' = l /\ lat' = b /\ n' = 1
  BY DEF First
<1>3. /\ prevL' \in Int /\ -Pi < prevL' /\ prevL' <= Pi
      /\ \E k \in -2 .. 2 : prevL' = l + k * (2 * Pi)
  <2>1. /\ prevL' \in Int /\ -Pi < prevL' /\ prevL' <= Pi
        /\ prevL' = l - 2 * Pi \/ prevL' = l \/ prevL' = l + 2 * Pi
    BY <1>1, <1>2, UnwrapPiIs
  <2>2. prevL' = l + (-1) * (2 * Pi) \/ prevL' = l + 0 * (2 * Pi) \/ prevL' = l + 1 * (2 * Pi)
    BY <1>1, <2>1, Quantities
  <2>. QED  BY <2>1, <2>2
<1>4. prevB' \in Int /\ -Half <= prevB' /\ prevB' <= Half /\ ClampLat(lat)' = prevB'
  BY <1>1, <1>2, ClampLatIs DEF ClampLat
<1>5. L' \in Int /\ 2 * Abs(L' * Sub - prevL') <= Sub
  BY <1>2, <1>3, TicksAre, Quantities
<1>6. B' \in Int /\ 2 * Abs(B' * Sub - prevB') <= Sub
  BY <1>2, <1>4, TicksAre, Quantities
<1>7. 1 * Sub = Sub
  BY Quantities
<1>8. Abs(L * Sub - prevL)' = Abs(L' * Sub - prevL') /\ Abs(B * Sub - prevB)' = Abs(B' * Sub - prevB')
  BY DEF Abs
<1>. QED  BY <1>1, <1>2, <1>3, <1>4, <1>5, <1>6, <1>7, <1>8, Quantities DEF BlockInv

LEMMA FurtherStep ==
  ASSUME ArePositions, BlockInv, NEW l \in Lons, NEW b \in Lats, Further(l, b)
  PROVE  BlockInv' /\ ShortWay
<1>1. l \in Int /\ -2 * Pi <= l /\ l <= 2 * Pi /\ b \in Int
  BY Quantities DEF ArePositions
<1>2. PICK q \in Ticks(Minus(prevL', prevL)), r \in Ticks(Minus(prevB', prevB)) :
        /\ prevL' = UnwrapFollow(prevL, l) /\ prevB' = ClampLat(b)
        /\ L' = L + q /\ B' = B + r
        /\ lon' = l /\ lat' = b /\ n' = n + 1 /\ n > 0
  BY CodecAssumption DEF Further
<1>3. /\ n \in Nat /\ L \in Int /\ B \in Int
      /\ prevL \in Int /\ -3 * Pi <= prevL /\ prevL <= 3 * Pi
      /\ prevB \in Int /\ -Half <= prevB /\ prevB <= Half
      /\ 2 * Abs(L * Sub - prevL) <= n * Sub /\ 2 * Abs(B * Sub - prevB) <= n * Sub
  BY <1>2 DEF BlockInv
<1>4. /\ prevL' \in Int /\ -3 * Pi <= prevL' /\ prevL' <= 3 * Pi
      /\ \E k \in -2 .. 2 : prevL' = l + k * (2 * Pi)
      /\ ShortWay
  BY <1>1, <1>2, <1>3, UnwrapFollowIs DEF ShortWay
<1>5. prevB' \in Int /\ -Half <= prevB' /\ prevB' <= Half /\ ClampLat(lat)' = prevB'
  BY <1>1, <1>2, ClampLatIs DEF ClampLat
<1>6. Minus(prevL', prevL) = prevL' - prevL /\ Minus(prevB', prevB) = prevB' - prevB
  BY <1>3, <1>4, <1>5, Quantities DEF Minus
<1>7. q \in Int /\ 2 * Abs(q * Sub - (prevL' - prevL)) <= Sub
  <2>1. prevL' - prevL \in Int /\ -6 * Pi <= prevL' - prevL /\ prevL' - prevL <= 6 * Pi
    BY <1>3, <1>4, Quantities
  <2>. QED  BY <1>6, <2>1, TicksAre
<1>8. r \in Int /\ 2 * Abs(r * Sub - (prevB' - prevB)) <= Sub
  <2>1. prevB' - prevB \in Int /\ -Pi <= prevB' - prevB /\ prevB' - prevB <= Pi
    BY <1>3, <1>5, LatitudeSpan
  <2>2. -6 * Pi <= prevB' - prevB /\ prevB' - prevB <= 6 * Pi
    BY <2>1, Quantities
  <2>. QED  BY <1>6, <2>1, <2>2, TicksAre
<1>9. 2 * Abs(L' * Sub - prevL') <= n' * Sub /\ 2 * Abs(B' * Sub - prevB') <= n' * Sub
  BY <1>2, <1>3, <1>4, <1>5, <1>7, <1>8, OneMoreSample
<1>10. L' \in Int /\ B' \in Int /\ n' \in Nat
  BY <1>2, <1>3, <1>7, <1>8
<1>11. Abs(L * Sub - prevL)' = Abs(L' * Sub - prevL') /\ Abs(B * Sub - prevB)' = Abs(B' * Sub - prevB')
  BY DEF Abs
<1>12. BlockInv'
  BY <1>1, <1>2, <1>4, <1>5, <1>9, <1>10, <1>11 DEF BlockInv
<1>. QED  BY <1>4, <1>12

LEMMA BlockStepInv ==
  ASSUME ArePositions
  PROVE  BlockInv /\ [BlockNext]_blockVars => BlockInv' /\ [ShortWay]_blockVars
<1>. SUFFICES ASSUME BlockInv, [BlockNext]_blockVars  PROVE BlockInv' /\ [ShortWay]_blockVars
  OBVIOUS
<1>1. ASSUME NEW l \in Lons, NEW b \in Lats, First(l, b)  PROVE BlockInv' /\ ShortWay
  <2>1. n = 0
    BY <1>1 DEF First
  <2>. QED  BY <1>1, <2>1, FirstStep DEF ShortWay
<1>2. ASSUME NEW l \in Lons, NEW b \in Lats, Further(l, b)  PROVE BlockInv' /\ ShortWay
  BY <1>2, FurtherStep
<1>3. CASE UNCHANGED blockVars
  BY <1>3 DEF blockVars, BlockInv, Abs, ClampLat
<1>. QED  BY <1>1, <1>2, <1>3 DEF BlockNext

LEMMA BlockInitInv == BlockInit => BlockInv
BY DEF BlockInit, BlockInv

\* Writer and reader stay within half a tick per sample of each other.
THEOREM BlockInvariance == ArePositions => (BlockSpec => []BlockInv)
<1>. SUFFICES ASSUME ArePositions  PROVE BlockSpec => []BlockInv
  OBVIOUS
<1>1. BlockInv /\ [BlockNext]_blockVars => BlockInv'
  BY BlockStepInv
<1>. QED  BY <1>1, BlockInitInv, PTL DEF BlockSpec

\* The reader of the n-th sample of a block gets its latitude and, up to turns,
\* its longitude within n half ticks, for blocks of any length.
THEOREM DriftBounded == ArePositions => (BlockSpec => []ReadsBack)
<1>. SUFFICES ASSUME ArePositions  PROVE BlockSpec => []ReadsBack
  OBVIOUS
<1>1. BlockInv => ReadsBack
  <2>. SUFFICES ASSUME BlockInv, n > 0  PROVE ReadsBack
    BY DEF ReadsBack
  <2>1. prevL \in -3 * Pi .. 3 * Pi
    BY Quantities DEF BlockInv
  <2>2. SameAngle(LonRead, lon)
    <3>1. PICK k \in -2 .. 2 : prevL = lon + k * (2 * Pi)
      BY DEF BlockInv
    <3>2. -k \in -2 .. 2 /\ k \in Int /\ lon \in Int /\ L * Sub \in Int /\ n * Sub \in Int
      BY Quantities DEF BlockInv
    <3>3. k * (2 * Pi) \in Int /\ (-k) * 2 * Pi = -(k * (2 * Pi))
      BY <3>2, Quantities
    <3>4. LonRead - lon + (-k) * 2 * Pi = L * Sub - prevL
      BY <3>1, <3>2, <3>3 DEF LonRead
    <3>5. Within(LonRead - lon + (-k) * 2 * Pi)
      BY <3>4 DEF Within, BlockInv
    <3>. QED  BY <3>2, <3>5 DEF SameAngle
  <2>3. Within(LatRead - ClampLat(lat))
    BY DEF Within, LatRead, BlockInv
  <2>. QED  BY <2>1, <2>2, <2>3 DEF ReadsBack
<1>. QED  BY <1>1, BlockInvariance, PTL

\* However a path crosses the date line or winds around a pole, the written
\* longitude takes the short way from sample to sample, unless that would
\* leave the three half turns.
THEOREM TakesTheShortWay == ArePositions => (BlockSpec => Continuous)
<1>. SUFFICES ASSUME ArePositions  PROVE BlockSpec => Continuous
  OBVIOUS
<1>1. BlockInv /\ [BlockNext]_blockVars => [ShortWay]_blockVars
  BY BlockStepInv
<1>. QED  BY <1>1, BlockInvariance, PTL DEF BlockSpec, Continuous

\* The loader's interval, and that it is reached by full turns.
LEMMA WrapLonIs ==
  ASSUME NEW r \in Int
  PROVE  /\ WrapLon(r) \in Int /\ -Pi < WrapLon(r) /\ WrapLon(r) <= Pi
         /\ \E c \in Int : WrapLon(r) = r + c * (2 * Pi)
<1> DEFINE m == 2 * Pi
           s == Fmod(r, m)
<1>1. m \in Nat \ {0} /\ m = 2 * Pi /\ Pi \in Nat \ {0}
  BY Quantities
<1>2. \E c \in Int : s = r + c * m /\ -m < s /\ s < m
  <2>1. CASE r >= 0
    <3>1. r \div m \in Int /\ r % m \in Int /\ r = m * (r \div m) + (r % m) /\ 0 <= r % m /\ r % m < m
      BY <1>1, Quotient
    <3>2. s = r % m
      BY <2>1 DEF Fmod
    <3> DEFINE c == -(r \div m)
    <3>3. c \in Int /\ c * m = -(m * (r \div m))
      BY <1>1, <3>1
    <3>. HIDE DEF c, m
    <3>4. s = r + c * m /\ -m < s /\ s < m
      BY <1>1, <3>1, <3>2, <3>3
    <3>. QED  BY <3>3, <3>4
  <2>2. CASE r < 0
    <3> DEFINE x == -r
    <3>0. x \in Int
      OBVIOUS
    <3>1. x \div m \in Int /\ x % m \in Int /\ x = m * (x \div m) + (x % m) /\ 0 <= x % m /\ x % m < m
      BY <1>1, <3>0, Quotient
    <3>2. s = -(x % m)
      BY <2>2 DEF Fmod
    <3> DEFINE c == x \div m
    <3>3. c \in Int /\ c * m = m * (x \div m)
      BY <1>1, <3>1
    <3>4. r = -x
      OBVIOUS
    <3>. HIDE DEF c, m, x
    <3>5. s = r + c * m /\ -m < s /\ s < m
      BY <1>1, <3>0, <3>1, <3>2, <3>3, <3>4
    <3>. QED  BY <3>3, <3>5
  <2>. QED  BY <2>1, <2>2
<1>3. PICK c \in Int : s = r + c * m /\ -m < s /\ s < m
  BY <1>2
<1>4. WrapLon(r) = IF s <= -Pi THEN s + m ELSE IF s > Pi THEN s - m ELSE s
  BY DEF WrapLon
<1>5. c * m \in Int /\ (c + 1) * m = c * m + m /\ (c - 1) * m = c * m - m /\ c + 1 \in Int /\ c - 1 \in Int
  BY <1>1
<1>. HIDE DEF m, s
<1>6. s \in Int /\ s + m \in Int /\ s - m \in Int
  BY <1>1, <1>3, <1>5
<1>7. WrapLon(r) \in Int /\ -Pi < WrapLon(r) /\ WrapLon(r) <= Pi
  BY <1>1, <1>3, <1>4, <1>6
<1>8. WrapLon(r) = r + c * m \/ WrapLon(r) = r + (c + 1) * m \/ WrapLon(r) = r + (c - 1) * m
  BY <1>1, <1>3, <1>4, <1>5, <1>6
<1>9. \E k \in Int : WrapLon(r) = r + k * m
  BY <1>5, <1>8
<1>. QED  BY <1>1, <1>7, <1>9

\* The seed loader gets the last position within n half ticks, in the interval
\* that all longitudes are kept in, although the sum it starts from may lie
\* beyond three half turns.
THEOREM SeedPositions == ArePositions => (BlockSpec => []SeedEnds)
<1>. SUFFICES ASSUME ArePositions  PROVE BlockSpec => []SeedEnds
  OBVIOUS
<1>1. BlockInv /\ (n > 0 => lon \in Lons) => SeedEnds
  <2>. SUFFICES ASSUME BlockInv, n > 0, lon \in Lons
                PROVE  LET r == WrapLon(LonRead) IN -Pi < r /\ r <= Pi /\ SameAngle(r, lon)
    BY DEF SeedEnds
  <2> DEFINE m == 2 * Pi
             r == WrapLon(LonRead)
             e == LonRead - prevL
             drift == n * Sub
  <2>1. m \in Nat \ {0} /\ m = 2 * Pi /\ Pi \in Nat \ {0} /\ lon \in Int /\ -m <= lon /\ lon <= m
    BY Quantities DEF ArePositions
  <2>2. LonRead \in Int /\ prevL \in Int /\ drift \in Int /\ e \in Int /\ 2 * Abs(e) <= drift
    BY Quantities DEF BlockInv, LonRead
  <2>3. PICK k \in -2 .. 2 : prevL = lon + k * m
    BY DEF BlockInv
  <2>4. r \in Int /\ -Pi < r /\ r <= Pi /\ \E c \in Int : r = LonRead + c * m
    BY <2>2, WrapLonIs
  <2>5. PICK c \in Int : r = LonRead + c * m
    BY <2>4
  <2>6. k \in Int /\ k * m \in Int /\ c * m \in Int /\ (k + c) * m = k * m + c * m
    BY <2>1
  <2>7. r - lon = e + (k + c) * m
    BY <2>1, <2>2, <2>3, <2>5, <2>6
  <2> DEFINE j == -(k + c)
  <2>8. j \in Int /\ j * m = -((k + c) * m) /\ (k + c) * m \in Int
    BY <2>1, <2>6
  <2>. HIDE DEF m, r, e, drift, j
  <2>9. r - lon + j * m = e
    BY <2>1, <2>2, <2>4, <2>7, <2>8
  <2>10. CASE drift < m
    <3>1. -m < 2 * e /\ 2 * e < m
      BY <2>1, <2>2, <2>10 DEF Abs
    <3>2. j * m < 2 * m /\ -2 * m < j * m
      BY <2>1, <2>2, <2>4, <2>8, <2>9, <3>1
    <3>3. ~(j >= 2) /\ ~(j <= -2)
      <4>1. j >= 2 => j * m >= 2 * m
        BY <2>1, <2>8
      <4>2. j <= -2 => j * m <= -2 * m
        BY <2>1, <2>8
      <4>. QED  BY <2>1, <2>8, <3>2, <4>1, <4>2
    <3>4. j \in -2 .. 2
      BY <2>8, <3>3
    <3>5. j * m = j * 2 * Pi
      BY <2>1, <2>8
    <3>6. Within(r - lon + j * 2 * Pi)
      BY <2>2, <2>9, <3>5 DEF Within, drift
    <3>. QED  BY <2>4, <3>4, <3>6 DEF SameAngle, r
  <2>11. CASE drift >= m
    <3> DEFINE x == r - lon
    <3>1. x \in Int /\ -3 * Pi <= x /\ x <= 3 * Pi
      BY <2>1, <2>4
    <3>. HIDE DEF x
    <3>2. \/ 2 * Abs(x + 0 * 2 * Pi) <= m
          \/ 2 * Abs(x + 1 * 2 * Pi) <= m
          \/ 2 * Abs(x + (-1) * 2 * Pi) <= m
      BY <2>1, <3>1 DEF Abs
    <3>3. \E i \in -2 .. 2 : 2 * Abs(x + i * 2 * Pi) <= m /\ Abs(x + i * 2 * Pi) \in Int
      <4>1. \A i \in -2 .. 2 : Abs(x + i * 2 * Pi) \in Int
        BY <2>1, <3>1 DEF Abs
      <4>. QED  BY <3>2, <4>1
    <3>4. PICK i \in -2 .. 2 : 2 * Abs(x + i * 2 * Pi) <= m /\ Abs(x + i * 2 * Pi) \in Int
      BY <3>3
    <3>5. 2 * Abs(x + i * 2 * Pi) <= drift
      BY <2>1, <2>2, <2>11, <3>4
    <3>. QED  BY <2>4, <3>5 DEF SameAngle, Within, r, x, drift
  <2>. QED  BY <2>1, <2>2, <2>10, <2>11
<1>2. BlockInit => (n > 0 => lon \in Lons)
  BY DEF BlockInit
<1>3. (n > 0 => lon \in Lons) /\ [BlockNext]_blockVars => (n > 0 => lon \in Lons)'
  BY DEF BlockNext, First, Further, blockVars
<1>. QED  BY <1>1, <1>2, <1>3, BlockInvariance, PTL DEF BlockSpec

=============================================================================
