------------------------- MODULE MCBillingConnection -------------------------
(* Small instances of BillingConnection for TLC. *)
EXTENDS BillingConnection

CONSTANTS activity, paywall

TwoCallers == {activity, paywall}
==============================================================================
