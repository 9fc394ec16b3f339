CONSTANTS
    c1 = c1
    c2 = c2
    food = food
    rent = rent
    Coroutines <- OneCoroutine
    Categories <- TwoCategories
    Amounts = {4}
    Limits = {5}
    MaxSpent = 4
    LastMonth = 2
SPECIFICATION SpecWithCancel
INVARIANT AlertJustified
