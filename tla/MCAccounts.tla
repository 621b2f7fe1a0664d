------------------------------ MODULE MCAccounts ------------------------------
(* Small instances of Accounts for TLC.                                     *)
EXTENDS Accounts, TLC

Symmetry ==
    Permutations(Emails) \cup Permutations(GoogleIds) \cup Permutations(Accounts)
        \cup Permutations(Flows) \cup Permutations(Registrations)

=============================================================================
