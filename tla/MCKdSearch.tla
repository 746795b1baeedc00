----------------------------- MODULE MCKdSearch -----------------------------
(***************************************************************************)
(* Neighbours of points next to the date line: a half turn of 64, hence 16 *)
(* for 45 degrees.                                                         *)
(***************************************************************************)
EXTENDS KdSearch

\* Eight times the squared cosine, for sums of latitudes that are multiples of 8.
MCCosSq == [s \in -64 .. 64 |->
  <<8, 8, 7, 5, 4, 2, 1, 0, 0>>[((IF s < 0 THEN -s ELSE s) \div 8) + 1]]

\* Grid points on both sides of the date line, one row along the equator.
MCClouds  == {<<<<-56, 0>>, <<-48, 0>>, <<48, 0>>, <<56, 0>>, <<64, 0>>>>}
MCQueries == {<<56, 0>>, <<-56, 0>>, <<-48, 0>>}

=============================================================================
