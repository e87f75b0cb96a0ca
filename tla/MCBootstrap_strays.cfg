SPECIFICATION Spec
CONSTANTS
    c1 = c1
    c2 = c2
    s1 = s1
    t1 = t1
    NoOne = NoOne
    Stores <- LocalOnly
    Callers <- OneCaller
    Paths <- OnePath
    SeedsOf <- OwnSeed
    Disciplined = TRUE
    MaxCalls = 5
    MaxRestarts = 0
INVARIANTS PromisesAreKept
CHECK_DEADLOCK FALSE
