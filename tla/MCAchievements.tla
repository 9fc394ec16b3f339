--------------------------- MODULE MCAchievements ---------------------------
(* Small instances of Achievements for TLC. *)
EXTENDS Achievements, TLC

CONSTANTS c1, c2, market, rent

TwoCoroutines == {c1, c2}
TwoTransactions == {market, rent}
CoroutineSymmetry == Permutations(TwoCoroutines)
\* In the order of the code.  A category goal would be a streak goal that does
\* not read the clock.
GoalKinds == <<"count", "streak", "budget">>
GoalSizes == <<1, 2, 1>>
\* The market is of the day before the first, the rent of the first day: on
\* the second day the market alone is no streak any more.
Streaks ==
    [d \in 1 .. 2 |-> [stored \in SUBSET TwoTransactions |->
        IF rent \in stored THEN Cardinality(stored)
        ELSE IF d = 1 THEN Cardinality(stored) ELSE 0]]
\* The two are of different categories.
CategoryCounts == [stored \in SUBSET TwoTransactions |-> Cardinality(stored)]
=============================================================================
