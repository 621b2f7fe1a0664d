-------------------------- MODULE MCTokenRotation --------------------------
(* Small instances of TokenRotation for TLC.                               *)
EXTENDS TokenRotation, TLC

Symmetry == Permutations(Tabs) \cup Permutations(Requests) \cup Permutations(Tokens)

=============================================================================
