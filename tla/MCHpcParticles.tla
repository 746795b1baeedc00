--------------------------- MODULE MCHpcParticles ---------------------------
(***************************************************************************)
(* Small instances of HpcParticles: days of two ticks, months of two or    *)
(* three days, a time step that divides neither, and a horizon of two      *)
(* months before a release window that straddles two months.               *)
(***************************************************************************)
EXTENDS HpcParticles

CONSTANTS s1, s2

MCMonthBegin == [m \in 0 .. 4 |-> <<-2, 4, 10, 14, 20>>[m + 1]]

\* The file of the last release day exists before the run.
MCPrior == [d \in ReleaseDays |-> IF d = EndRelease THEN 1 ELSE 0]

=============================================================================
