--------------------------- MODULE MCRecurringIOS ---------------------------
(* Small instances of RecurringIOS for TLC. *)
EXTENDS RecurringIOS

CONSTANTS rent, salary

TwoRules == {rent, salary}
Periods == [r \in TwoRules |-> IF r = rent THEN 1 ELSE 2]
=============================================================================
