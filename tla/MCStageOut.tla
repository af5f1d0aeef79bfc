----------------------------- MODULE MCStageOut -----------------------------
(* Instances of StageOut for TLC.                                          *)
EXTENDS StageOut, TLC

CONSTANTS p1, p2, k1, k2

\* Two pods under names of their own, or the second under the first's name.
OwnNames    == p1 :> k1 @@ p2 :> k2
SharedName  == p1 :> k1 @@ p2 :> k1

\* Jobs, transfers and pollers are interchangeable, each among themselves.
JobSymmetry == {f @@ g @@ h : f \in Permutations(Jobs), g \in Permutations(Transfers),
                              h \in Permutations(Pollers)}
=============================================================================
