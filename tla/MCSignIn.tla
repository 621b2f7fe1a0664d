------------------------------- MODULE MCSignIn -------------------------------
(* Small instances of SignIn for TLC.                                       *)
EXTENDS SignIn, TLC

Symmetry == Permutations(Users) \cup Permutations(Calls)

=============================================================================
