---------------------------- MODULE MCSeedRecords ----------------------------
(***************************************************************************)
(* A CSV file, and a PKD2 file with steps shorter and longer than the      *)
(* driver's, whose trajectories are on both sides of time zero, among them *)
(* one of a single point and two of the same seed.                         *)
(***************************************************************************)
EXTENDS SeedRecords

MCBlocks ==
  << [id |-> 1, first |-> -5, n |-> 4], [id |-> 2, first |-> 1, n |-> 2],
     [id |-> 1, first |-> 2, n |-> 3],  [id |-> 3, first |-> -1, n |-> 2],
     [id |-> 4, first |-> 3, n |-> 1] >>

MCCsvTimes   == <<7, -2, 5, 10>>
MCMonthBegin == [m \in 0 .. 4 |-> <<-40, -6, 3, 12, 60>>[m + 1]]

=============================================================================
