--------------------------- MODULE MCPodLifecycle ---------------------------
(* Instances of PodLifecycle for TLC.                                      *)
EXTENDS PodLifecycle, TLC

CONSTANTS p1, p2, k1, k2

\* Two pods under names of their own, or the second under the first's name.
OwnNames    == p1 :> k1 @@ p2 :> k2
SharedName  == p1 :> k1 @@ p2 :> k1

JobSymmetry == Permutations(Jobs)
=============================================================================
