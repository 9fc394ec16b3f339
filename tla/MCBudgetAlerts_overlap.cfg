CONSTANTS
    c1 = c1
    c2 = c2
    food = food
    rent = rent
    Coroutines <- TwoCoroutines
    Categories <- OneCategory
    Amounts = {4}
    Limits = {4, 10}
    MaxSpent = 8
    LastMonth = 1
SPECIFICATION Spec
INVARIANTS
    TypeOK
    NoMissedBreach
    BreachIsTold
    RecordedBeforePosted
    DuplicatesBounded
PROPERTY AlertReachesUser
