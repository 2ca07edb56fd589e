-------------------------- MODULE MCCouponClassify --------------------------
(* Instance of CouponClassify for TLC.                                       *)
EXTENDS CouponClassify, TLC

CONSTANTS w1, w2, m1, m2

\* The clock starts on day 1.  A coupon whose last day is day 2, so that its
\* reminder is due on day 1 at 09:00, and a mail without a date.
DatedMail   == [spammy |-> FALSE, expiry |-> 2]
UndatedMail == [spammy |-> FALSE, expiry |-> NoDate]
SomeMails   == m1 :> DatedMail @@ m2 :> UndatedMail

\* Each kind of fault once; MaxFaults bounds how many of them in one behaviour.
BudgetOnce == [k \in Faults |-> 1]

=============================================================================
