------------------------------ MODULE Pkd1Gzip ------------------------------
(***************************************************************************)
(* One output file of hpc_particles, fixed_point_io_codec.hpp: a gzip      *)
(* member whose header also counts the records of the whole file, followed *)
(* by one member per append.  The process may die at any point, and        *)
(* another run may be started into the same directory afterwards; it       *)
(* appends to whatever file it finds.  The reader may open the file at any *)
(* time.                                                                   *)
(*                                                                         *)
(* A member that did not reach the disk in full is cut: a reader can       *)
(* decode some of its records, and possibly a piece of the next one.       *)
(***************************************************************************)
EXTENDS Integers, Sequences, SequencesExt

CONSTANTS
  Sizes,      \* sizes of the batches of records a run writes
  MaxWrites   \* bound on the number of writes

ASSUME GzipAssumption == Sizes \subseteq Nat \ {0} /\ MaxWrites \in Nat

VARIABLES
  pc,       \* where the writing process is, "dead" between two runs
  batch,    \* the records being written
  writes,   \* calls of write_records_gzip so far
  kept,     \* the records of the calls that returned
  lossy,    \* did one of them return although its member had lost bytes?
  head,     \* the file's first bytes: "absent", "cut" or "whole"
  count,    \* reserved1 of the header in them
  missed,   \* the records by which rewrites of it that were lost should have raised it
  members   \* what is left of every member

process == <<pc, batch, writes, kept, lossy>>
disk    == <<head, count, missed, members>>
vars    == <<process, disk>>

\* A member: its records, how many of them can be decoded, whether a piece of
\* the next one follows, and whether the trailer is there.
Whole(b) == [recs |-> b, got |-> Len(b), ragged |-> FALSE, whole |-> TRUE]
Pieces(b) ==
  {[recs |-> b, got |-> g, ragged |-> g < Len(b) /\ r, whole |-> FALSE] :
     g \in 0 .. Len(b), r \in BOOLEAN}

\* The driver appends if a file exists; the header's count grows first.
ModeTruncating  == "create"
Mode            == IF head = "absent" THEN "create" ELSE "bump"
CountAfterwards == count
Bumped          == count + Len(batch)

-----------------------------------------------------------------------------

Init ==
  /\ pc = "idle" /\ batch = <<>> /\ writes = 0 /\ kept = <<>> /\ lossy = FALSE
  /\ head = "absent" /\ count = 0 /\ missed = 0 /\ members = <<>>

Write(n) ==
  /\ pc = "idle" /\ writes < MaxWrites
  /\ writes' = writes + 1
  /\ batch' = [k \in 1 .. n |-> <<writes', k>>]
  /\ pc' = Mode
  /\ UNCHANGED <<kept, lossy, disk>>

\* The call returns, or the process dies or ends with an exception.  What the
\* stream still holds when the call returns is written by its destructor, and
\* nobody learns whether that succeeds.
Return == pc' = "idle" /\ batch' = <<>> /\ kept' = kept \o batch /\ UNCHANGED writes
Stop  == pc' = "dead" /\ UNCHANGED <<batch, writes, kept, lossy>>
Leave == Stop \/ (Return /\ lossy' = TRUE)

\* append = false: a new file with header and member, of which not everything
\* may reach the disk.
Create ==
  /\ pc = "create"
  /\ head' = "whole" /\ count' = Len(batch) /\ members' = <<Whole(batch)>>
  /\ Return /\ UNCHANGED <<lossy, missed>>

CreateCut ==
  /\ pc = "create"
  /\ \/ head' = "cut" /\ count' = 0 /\ members' = <<>>
     \/ head' = "whole" /\ count' = Len(batch) /\ \E m \in Pieces(batch) : members' = <<m>>
  /\ Leave /\ UNCHANGED missed

\* append = true: the header is rewritten in place, unless it is damaged ...
Bump ==
  /\ pc = "bump" /\ head = "whole"
  /\ count' = Bumped
  /\ pc' = "append"
  /\ UNCHANGED <<batch, writes, kept, lossy, head, missed, members>>

\* Nobody looks at the stream after its flush: if the rewrite has failed the
\* call goes on all the same.
BumpLost ==
  /\ pc = "bump" /\ head = "whole"
  /\ missed' = missed + Len(batch)
  /\ pc' = "append"
  /\ UNCHANGED <<batch, writes, kept, lossy, head, count, members>>

BumpFails == pc = "bump" /\ head = "cut" /\ Stop /\ UNCHANGED disk

\* ... and only then the member is appended.
AppendMember ==
  /\ pc = "append"
  /\ members' = Append(members, Whole(batch))
  /\ Return /\ UNCHANGED lossy
  /\ UNCHANGED <<head, count, missed>>

AppendCut ==
  /\ pc = "append"
  /\ \/ \E m \in Pieces(batch) : members' = Append(members, m)
     \/ UNCHANGED members
  /\ Leave
  /\ UNCHANGED <<head, count, missed>>

Die == pc # "dead" /\ Stop /\ UNCHANGED disk

\* Another run into the same directory.
Restart ==
  /\ pc = "dead"
  /\ pc' = "idle" /\ batch' = <<>>
  /\ UNCHANGED <<writes, kept, lossy, disk>>

Next ==
  \/ \E n \in Sizes : Write(n)
  \/ Create \/ CreateCut \/ Bump \/ BumpLost \/ BumpFails
  \/ AppendMember \/ AppendCut \/ Die \/ Restart

Spec == Init /\ [][Next]_vars

-----------------------------------------------------------------------------
(***************************************************************************)
(* The reader                                                              *)
(***************************************************************************)

\* It inflates member after member.  Bytes behind a cut member are taken for
\* its continuation and do not inflate; a cut member at the end of the file is
\* accepted as long as what it yields is a whole number of records.
Readable ==
  /\ head = "whole"
  /\ \A i \in DOMAIN members :
       ~members[i].whole => i = Len(members) /\ ~members[i].ragged

Decoded  == [i \in DOMAIN members |-> SubSeq(members[i].recs, 1, members[i].got)]
Contents == FlattenSeq(Decoded)

-----------------------------------------------------------------------------
(***************************************************************************)
(* Properties                                                              *)
(***************************************************************************)

\* Whatever happened to earlier processes: unless a stream lost bytes unnoticed,
\* a file that can be read at all yields every record of every call that
\* returned, in order, and besides at most the beginning of one batch whose
\* process died.
ReadsBack ==
  Readable /\ ~lossy =>
    LET extra == SubSeq(Contents, Len(kept) + 1, Len(Contents)) IN
    /\ IsPrefix(kept, Contents)
    /\ \A i \in DOMAIN extra : extra[i] = <<extra[1][1], i>>

\* The count in the header falls short of what can be read by no more than the
\* batches whose rewrite of the header was lost.  Counting these in, a reader
\* that gets as many records as there should be has every record whose write
\* returned, even if the end of some member was lost without anybody noticing;
\* so the header tells that, as long as it was never lost itself.
CountTells ==
  Readable => /\ Len(Contents) <= count + missed
              /\ Len(Contents) = count + missed => IsPrefix(kept, Contents)

=============================================================================
