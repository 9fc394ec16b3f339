--------------------------- MODULE MCBudgetAlerts ---------------------------
(* Small instances of BudgetAlerts for TLC. *)
EXTENDS BudgetAlerts

CONSTANTS c1, c2, food, rent

OneCoroutine == {c1}
TwoCoroutines == {c1, c2}
OneCategory == {food}
TwoCategories == {food, rent}
=============================================================================
