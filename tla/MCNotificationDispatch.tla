----------------------- MODULE MCNotificationDispatch -----------------------
(* Instance of NotificationDispatch for TLC.                                 *)
EXTENDS NotificationDispatch, TLC

CONSTANTS w1, w2, k1, k2

\* A task of this queue would be tried 4 times; here, twice.
OneTask  == {"new_coupon"}
Attempts == [t \in Tasks |-> 2]

\* Each kind of fault once; MaxFaults bounds how many of them in one behaviour.
BudgetOnce == [k \in Faults |-> 1]

=============================================================================
