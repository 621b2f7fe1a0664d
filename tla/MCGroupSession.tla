--------------------------- MODULE MCGroupSession ---------------------------
(* Small instances of GroupSession for TLC.                                *)
EXTENDS GroupSession, TLC

(* Requests are interchangeable.  So are movies in the safety runs: no     *)
(* definition tells one from another.                                      *)
Symmetry == Permutations(Workers) \cup Permutations(Movies)

=============================================================================
