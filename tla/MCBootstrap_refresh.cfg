SPECIFICATION Spec
CONSTANTS
    c1 = c1
    c2 = c2
    s1 = s1
    t1 = t1
    NoOne = NoOne
    Stores <- BothStores
    Callers <- TwoCallers
    Paths <- TwoPaths
    SeedsOf <- OneSeed
    Disciplined = TRUE
    MaxCalls = 4
    MaxRestarts = 1


CHECK_DEADLOCK FALSE
INVARIANT RefreshRealigns
