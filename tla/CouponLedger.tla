---------------------------- MODULE CouponLedger ----------------------------
(***************************************************************************)
(* What classification promises the user, whatever the number of handlers, *)
(* redeliveries and failures: a notification is about a coupon that is     *)
(* there, no coupon is announced or called to mind twice, and none before  *)
(* it was announced.  How many coupons a mail gets, and whether its tasks  *)
(* are enqueued at all, is not promised.                                   *)
(***************************************************************************)
EXTENDS Naturals

CONSTANT Mails
VARIABLES coupons, pushes, reminders   \* rows and tasks made of each mail

ledgerVars == <<coupons, pushes, reminders>>

Init == /\ coupons = [m \in Mails |-> 0]
        /\ pushes = [m \in Mails |-> 0]
        /\ reminders = [m \in Mails |-> 0]

Create(m) == /\ coupons' = [coupons EXCEPT ![m] = @ + 1]
             /\ UNCHANGED <<pushes, reminders>>

Announce(m) == /\ pushes[m] < coupons[m]
               /\ pushes' = [pushes EXCEPT ![m] = @ + 1]
               /\ UNCHANGED <<coupons, reminders>>

Remind(m) == /\ reminders[m] < pushes[m]
             /\ reminders' = [reminders EXCEPT ![m] = @ + 1]
             /\ UNCHANGED <<coupons, pushes>>

Next == \E m \in Mails : Create(m) \/ Announce(m) \/ Remind(m)

Spec == Init /\ [][Next]_ledgerVars

=============================================================================
