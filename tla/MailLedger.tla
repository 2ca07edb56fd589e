----------------------------- MODULE MailLedger -----------------------------
(***************************************************************************)
(* What mail ingestion promises the classifier, whatever the number of     *)
(* handlers, redeliveries and failures: a mail is recorded once, then      *)
(* handed over at most once.  Nothing is promised about it being handed    *)
(* over at all.                                                            *)
(***************************************************************************)
EXTENDS Naturals

CONSTANT Mails
VARIABLES rows, classify       \* processed_mails rows, coupon-classify messages

ledgerVars == <<rows, classify>>

Init == /\ rows = [m \in Mails |-> 0]
        /\ classify = [m \in Mails |-> 0]

Record(m) == /\ rows[m] = 0
             /\ rows' = [rows EXCEPT ![m] = 1]
             /\ UNCHANGED classify

HandOver(m) == /\ rows[m] = 1 /\ classify[m] = 0
               /\ classify' = [classify EXCEPT ![m] = 1]
               /\ UNCHANGED rows

Next == \E m \in Mails : Record(m) \/ HandOver(m)

Spec == Init /\ [][Next]_ledgerVars

=============================================================================
