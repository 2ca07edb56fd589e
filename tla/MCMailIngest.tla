---------------------------- MODULE MCMailIngest ----------------------------
(* Instances of MailIngest for TLC: the fault budgets of the runs.           *)
EXTENDS MailIngest, TLC

CONSTANTS w1, w2

Symmetry == Permutations({w1, w2})

(* No fault but those named, each as often as given.                         *)
With(f) == f @@ [k \in Faults |-> 0]

\* A crash, an expired lease, a watch registration and an expired cursor.
BudgetHandlers == With([fail |-> 1, lease |-> 1, watch |-> 1, horizon |-> 1])
\* Every kind of fault but an expired lease, which only matters to two handlers.
BudgetLive == With([fail |-> 1, watch |-> 1, horizon |-> 1, age |-> 1, delete |-> 1, reject |-> 1])
BudgetWatch == With([watch |-> 1])

=============================================================================
