CONSTANTS
    c1 = c1
    c2 = c2
    Coroutines <- OneCoroutine
    LastDay = 8
SPECIFICATION Spec
INVARIANT SevenInARow
