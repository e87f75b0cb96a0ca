SPECIFICATION LiveSpec
CONSTANTS
    c1 = c1
    c2 = c2
    s1 = s1
    t1 = t1
    NoOne = NoOne
    Stores <- BothStores
    Callers <- TwoCallers
    Paths <- OnePath
    SeedsOf <- HalfSeed
    Disciplined = TRUE
    MaxCalls = 5
    MaxRestarts = 1
INVARIANTS TypeOK CleanIsCurrent FlushIsDurable
PROPERTIES OwnWorkIsKept CallsReturn EventuallyClean
CHECK_DEADLOCK FALSE
