CONSTANTS
    c1 = c1
    c2 = c2
    Coroutines <- TwoCoroutines
    LastDay = 5
SPECIFICATION Spec
SYMMETRY CoroutineSymmetry
INVARIANTS TypeOK EmittedIsTrue SavedDayCounts IncrementalIsExact RealStreakCounts CountedDaysAreReal
