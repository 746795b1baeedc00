----------------------------- MODULE MCPkd2File -----------------------------
(***************************************************************************)
(* Instances of Pkd2File: up to four trajectories of two seeds, so that a  *)
(* seed is added twice.                                                    *)
(***************************************************************************)
EXTENDS Pkd2File

CONSTANTS a, b

=============================================================================
