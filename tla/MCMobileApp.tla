----------------------------- MODULE MCMobileApp -----------------------------
(* Instances of MobileApp for TLC.                                           *)
EXTENDS MobileApp

=============================================================================
