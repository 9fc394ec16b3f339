CONSTANTS
    c1 = c1
    c2 = c2
    food = food
    rent = rent
    Coroutines <- OneCoroutine
    Categories <- OneCategory
    Amounts = {4}
    Limits = {5}
    MaxSpent = 8
    LastMonth = 1
SPECIFICATION SpecWithCancel
PROPERTY AlertReachesUser
