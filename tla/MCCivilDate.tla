----------------------------- MODULE MCCivilDate -----------------------------
(***************************************************************************)
(* The days from 1 January 1899 to 31 December 2100: years around the two  *)
(* centuries that are no leap years and the one that is.                   *)
(***************************************************************************)
EXTENDS CivilDate

FirstDelta == -36889
LastDelta  == 36889

=============================================================================
