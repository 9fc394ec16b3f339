CONSTANTS
    rent = rent
    salary = salary
    None = None
    Rules <- TwoRules
    Period <- Periods
    MaxPeriod = 2
    MaxTime = 1
    MaxCrashes = 1
SPECIFICATION Spec
INVARIANTS TypeOK AtMostOnce
PROPERTIES KeepsPromise MovedOnlyIfBooked
