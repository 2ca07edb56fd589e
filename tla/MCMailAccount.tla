---------------------------- MODULE MCMailAccount ----------------------------
(* Instance of MailAccount for TLC.                                          *)
EXTENDS MailAccount

CONSTANTS w1, r1, r2

\* One call fails, and the renewal as often as makes it give up.
BudgetRaces == [k \in Faults |-> IF k = "error" THEN 2 ELSE 1]

=============================================================================
