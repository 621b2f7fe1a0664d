------------------------- MODULE MCRealtimeSession -------------------------
(* Small instances of RealtimeSession for TLC.                             *)
EXTENDS RealtimeSession, TLC

Symmetry == Permutations(Movies) \cup Permutations(Requests)

=============================================================================
