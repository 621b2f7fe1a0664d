----------------------------- MODULE MCWatchlist -----------------------------
(* Small instances of Watchlist for TLC.                                    *)
EXTENDS Watchlist, TLC

Symmetry == Permutations(Tabs) \cup Permutations(Ids) \cup Permutations(Calls)

=============================================================================
