---------------------------- MODULE MCRegularGrid ----------------------------
(***************************************************************************)
(* Two calendars for RegularGrid.  In the scaled one the integrations span *)
(* three months from each of the first three releases, ending on the first *)
(* tick of a month once, and four from the last.  The real one is December *)
(* 2002 to March 2003, in days.                                            *)
(***************************************************************************)
EXTENDS RegularGrid, TLC

CONSTANTS s1, s2

ScaledMonths == [m \in 0 .. 7 |-> <<0, 6, 12, 16, 20, 23, 27, 33>>[m + 1]]
WinterDays   == [m \in 0 .. 4 |-> <<0, 31, 62, 90, 121>>[m + 1]]

=============================================================================
