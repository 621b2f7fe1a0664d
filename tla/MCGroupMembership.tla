------------------------- MODULE MCGroupMembership -------------------------
(* Small instances of GroupMembership for TLC.                             *)
EXTENDS GroupMembership, TLC

Symmetry ==
    Permutations(Users) \cup Permutations(Groups) \cup Permutations(Codes) \cup Permutations(Workers)

=============================================================================
