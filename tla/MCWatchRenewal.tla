--------------------------- MODULE MCWatchRenewal ---------------------------
(* Instances of WatchRenewal for TLC.                                        *)
EXTENDS WatchRenewal, TLC

CONSTANTS a1, a2

Symmetry == Permutations(Accounts)

=============================================================================
