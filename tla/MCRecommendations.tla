-------------------------- MODULE MCRecommendations -------------------------
(* Model values for TLC: the movies are treated alike.                     *)
EXTENDS Recommendations, TLC

Symmetry == Permutations(Movies)

=============================================================================
