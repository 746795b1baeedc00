------------------------------ MODULE Pkd2File ------------------------------
(***************************************************************************)
(* A trajectory file, fixed_point_pkd2.hpp: blocks, then the table of      *)
(* contents, and a header at the front that is rewritten last.  Output is  *)
(* buffered by stdio; what has not reached the disk is lost when the       *)
(* process dies.                                                           *)
(*                                                                         *)
(* Offsets count chunks (a block or a table).  Block contents are the      *)
(* number of the add_traj_rad call that wrote them.  Compression is        *)
(* abstract: whatever is not the chunk a table entry describes fails to    *)
(* decompress.                                                             *)
(***************************************************************************)
EXTENDS Integers, Sequences

CONSTANTS
  Ids,        \* seed ids
  MaxAdds,    \* bound on the trajectories added
  None, Unreadable, Spoilt

ASSUME Pkd2Assumption == MaxAdds \in Nat /\ None \notin 1 .. MaxAdds

VARIABLES
  pc,       \* where the writer is
  retried,  \* the destructor is closing
  toc,      \* toc_
  stream,   \* everything behind the header, in the order of its offsets
  flushed,  \* how much of it has reached the disk
  tocAt,    \* pos in close()
  header,   \* the header on disk
  failed    \* has any write failed?

writer == <<pc, retried, toc, tocAt>>
disk   == <<stream, flushed, header, failed>>
vars   == <<writer, disk>>

Cut       == [kind |-> "cut"]
Block(v)  == [kind |-> "block", version |-> v]
Table(t)  == [kind |-> "toc", entries |-> t]
NoHeader  == [n |-> -1, at |-> 0]

Init ==
  /\ pc = "open" /\ retried = FALSE /\ toc = <<>> /\ tocAt = 0
  /\ stream = <<>> /\ flushed = 0 /\ header = NoHeader /\ failed = FALSE

\* write_at(0): whether the bytes reach the disk turns out after it returned.
WriteAtFront(h) ==
  \/ header' = h /\ UNCHANGED failed
  \/ failed' = TRUE /\ UNCHANGED header

\* The constructor; whether its header reaches the disk is not checked.
Open ==
  /\ pc = "open"
  /\ pc' = "idle"
  /\ WriteAtFront([n |-> 0, at |-> 0])
  /\ UNCHANGED <<retried, toc, tocAt, stream, flushed>>

\* ftell before the block is written.
OffsetAfterwards == Len(stream) + 2
Offset           == Len(stream) + 1

\* add_traj_rad: the block goes to the end, its entry to the table.
Add(i) ==
  /\ pc = "idle" /\ Len(toc) < MaxAdds
  /\ stream' = Append(stream, Block(Len(toc) + 1))
  /\ toc' = Append(toc, [id |-> i, at |-> Offset, version |-> Len(toc) + 1])
  /\ UNCHANGED <<pc, retried, tocAt, flushed, header, failed>>

\* A write that fails may take buffered output with it, and may leave a piece
\* of the chunk it was writing.
LoseOutput ==
  /\ failed' = TRUE
  /\ \E k \in flushed .. Len(stream), piece \in {<<>>, <<Cut>>} :
       stream' = SubSeq(stream, 1, k) \o piece /\ flushed' = Len(stream')
  /\ UNCHANGED header

\* An exception: main lets it pass, the destructor closes, once.
Fail ==
  /\ pc' = IF retried THEN "dead" ELSE "toc"
  /\ retried' = TRUE
  /\ UNCHANGED toc

AddFails == pc = "idle" /\ LoseOutput /\ Fail /\ UNCHANGED tocAt

Close ==
  /\ pc = "idle"
  /\ pc' = "toc"
  /\ UNCHANGED <<retried, toc, tocAt, disk>>

\* close() remembers the position and writes the table, unless it is empty.
WriteToc ==
  /\ pc = "toc"
  /\ tocAt' = Offset
  /\ stream' = IF toc = <<>> THEN stream ELSE Append(stream, Table(toc))
  /\ pc' = "flush"
  /\ UNCHANGED <<retried, toc, flushed, header, failed>>

WriteTocFails == pc = "toc" /\ LoseOutput /\ Fail /\ tocAt' = Offset

\* fflush, and the flush that seeking to the header implies.  A failure of the
\* first is ignored; if it kept the buffered output the second fails too.
FlushedAfterHeader == flushed
FlushedAll         == Len(stream)

Flush ==
  /\ pc = "flush"
  /\ flushed' = FlushedAll
  /\ pc' = "header"
  /\ UNCHANGED <<retried, toc, tocAt, stream, header, failed>>

FlushLoses == pc = "flush" /\ LoseOutput /\ pc' = "header" /\ UNCHANGED <<retried, toc, tocAt>>
FlushFails ==
  /\ pc = "flush" /\ Fail
  /\ failed' = TRUE
  /\ UNCHANGED <<tocAt, stream, flushed, header>>

\* The final header; again nobody checks whether it reaches the disk.
WriteHeader ==
  /\ pc = "header"
  /\ WriteAtFront([n |-> Len(toc), at |-> tocAt])
  /\ pc' = "closed"
  /\ UNCHANGED <<retried, toc, tocAt, stream, flushed>>

\* Full stdio buffers go to the disk by themselves.
Drain ==
  /\ pc \in {"idle", "toc", "flush"} /\ flushed < Len(stream)
  /\ flushed' = flushed + 1
  /\ UNCHANGED <<writer, stream, header, failed>>

Die ==
  /\ pc \notin {"closed", "dead"}
  /\ pc' = "dead"
  /\ UNCHANGED <<retried, toc, tocAt, disk>>

Next ==
  \/ Open \/ AddFails \/ Close \/ WriteToc \/ WriteTocFails
  \/ Flush \/ FlushLoses \/ FlushFails \/ WriteHeader \/ Drain \/ Die
  \/ \E i \in Ids : Add(i)

Spec == Init /\ [][Next]_vars

-----------------------------------------------------------------------------
(***************************************************************************)
(* The reader                                                              *)
(***************************************************************************)

Chunk(k)  == IF k \in DOMAIN stream THEN stream[k] ELSE Cut
OnDisk(k) == IF k <= flushed THEN Chunk(k) ELSE Cut

\* The Reader's constructor: an empty file, or the table where the header says.
TableRead == OnDisk(header.at)
Opens     == header.n = 0 \/ (header.n > 0 /\ TableRead.kind = "toc")
Entries   == IF header.n > 0 THEN TableRead.entries ELSE <<>>

\* index_: the entry of a seed, the last one if it was added more than once.
Positions(i)   == {k \in DOMAIN Entries : Entries[k].id = i}
IndexFirst(i)  == CHOOSE k \in Positions(i) : \A j \in Positions(i) : k <= j
Index(i)       == CHOOSE k \in Positions(i) : \A j \in Positions(i) : k >= j

\* read_traj: None if there is no such seed, Unreadable if its block is not
\* where the table says.
Trajectory(i) ==
  IF Positions(i) = {} THEN None
  ELSE LET e == Entries[Index(i)] IN
       IF OnDisk(e.at) = Block(e.version) THEN e.version ELSE Unreadable

Contents == IF Opens THEN [i \in Ids |-> Trajectory(i)] ELSE Unreadable

-----------------------------------------------------------------------------
(***************************************************************************)
(* Properties                                                              *)
(***************************************************************************)

\* Types; an entry of the table never points behind the end of the stream
\* unless a write has failed.
TypeOK ==
  /\ pc \in {"open", "idle", "toc", "flush", "header", "closed", "dead"}
  /\ retried \in BOOLEAN
  /\ \A k \in DOMAIN toc : toc[k].version = k /\ toc[k].id \in Ids
  /\ flushed \in 0 .. Len(stream)
  /\ ~failed => \A k \in DOMAIN toc : Chunk(toc[k].at) = Block(k)

\* The last version of every seed whose add_traj_rad returned.
Accepted ==
  [i \in Ids |->
     LET mine == {k \in DOMAIN toc : toc[k].id = i} IN
     IF mine = {} THEN None ELSE CHOOSE k \in mine : \A j \in mine : k >= j]

\* Unless a write has failed: whoever opens the file, even after a crash of the writer, finds it
\* unreadable, empty, or with everything that was added: never a header whose
\* table or a table whose blocks did not reach the disk.
File == INSTANCE WriteOnceFile
          WITH Versions <- 1 .. MaxAdds, accepted <- Accepted,
               contents <- IF failed THEN Spoilt ELSE Contents
WholeOrEmpty == File!FileSpec

\* Even when writes fail, a reader that gets a trajectory at all gets the last
\* one accepted for that seed, after close and after the destructor's retry.
NeverStale ==
  Opens => \A i \in Ids : Trajectory(i) \in {None, Unreadable, Accepted[i]}

=============================================================================
