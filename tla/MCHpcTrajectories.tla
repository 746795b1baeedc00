------------------------- MODULE MCHpcTrajectories -------------------------
(***************************************************************************)
(* Instances of HpcTrajectories: days of two ticks and a step of five, so  *)
(* that none of the months visited begins on the grid of the steps and     *)
(* that a step reaches beyond the shortest of them; seeds that end at      *)
(* their stop, at their lifetime, in the last window, or that no window    *)
(* reaches.                                                                *)
(***************************************************************************)
EXTENDS HpcTrajectories, TLC

CONSTANTS back, young, edge, early, late

MCStart == (back :> 5) @@ (young :> 5) @@ (edge :> 4) @@ (early :> 3) @@ (late :> 6)
MCStop  == (back :> 4) @@ (young :> NoIdx) @@ (edge :> 3) @@ (early :> NoIdx) @@ (late :> NoIdx)

MCMonthBegin    == [m \in 0 .. 4 |-> <<2, 8, 16, 18, 28>>[m + 1]]

=============================================================================
