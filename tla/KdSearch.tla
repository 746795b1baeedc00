------------------------------ MODULE KdSearch ------------------------------
(***************************************************************************)
(* A kd-tree by itself: any of some clouds is indexed once, and then       *)
(* searched again and again.                                               *)
(***************************************************************************)
EXTENDS KdTree

CONSTANTS Clouds, Targets

KdInit == NoTree

KdNext ==
  \/ cloud = <<>> /\ \E c \in Clouds : BuildIndex(c)
  \/ KdStep
  \/ \E q \in Targets : ComputeNeighbors(q) \/ NearestPoint(q)

KdSpec == KdInit /\ [][KdNext]_kdVars

=============================================================================
