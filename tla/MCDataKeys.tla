----------------------------- MODULE MCDataKeys -----------------------------
(* Instances of DataKeys for TLC.                                            *)
EXTENDS DataKeys, TLC

CONSTANTS w1, w2

Symmetry == Permutations({w1, w2})

=============================================================================
