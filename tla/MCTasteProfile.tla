---------------------------- MODULE MCTasteProfile --------------------------
(* The movies and their genres for TLC: a genre of its own for each.       *)
EXTENDS TasteProfile, TLC

MCMovies == {"m1", "m2"}
MCGenres == {"drama", "comedy"}
MCGenresOf == [m \in MCMovies |-> IF m = "m1" THEN {"drama"} ELSE {"comedy"}]

Symmetry == Permutations(Workers)

=============================================================================
