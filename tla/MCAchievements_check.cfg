CONSTANTS
    c1 = c1
    c2 = c2
    market = market
    rent = rent
    NoRow = NoRow
    Coroutines <- TwoCoroutines
    Transactions <- TwoTransactions
    N = 3
    LastDay = 2
    Kind <- GoalKinds
    Goal <- GoalSizes
    StreakOn <- Streaks
    Categories <- CategoryCounts
SPECIFICATION Spec
INVARIANTS TypeOK NoLostUnlock UnlockedIsStamped AloneIsExact
SYMMETRY CoroutineSymmetry
