----------------------------- MODULE MCPkd2Codec -----------------------------
(***************************************************************************)
(* Instances of Pkd2Codec with four units to a tick and a half turn of 30  *)
(* units, which is no whole number of ticks.                               *)
(***************************************************************************)
EXTENDS Pkd2Codec

\* Paths across the date line in either direction, by odd units; the driver's
\* pi, a float, is larger than the writer's.
MCLons == {-29, -18, -7, 2, 13, 23, 31}
MCLats == {-16, -9, 1, 6, 16}

\* Slow currents, and none.
MCSpeeds == {-2, 1, 3, NaN}

MCMinTick == -128

=============================================================================
