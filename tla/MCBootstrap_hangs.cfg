SPECIFICATION LiveSpec
CONSTANTS
    c1 = c1
    c2 = c2
    s1 = s1
    t1 = t1
    NoOne = NoOne
    Stores <- BothStores
    Callers <- TwoCallers
    Paths <- TwoPaths
    SeedsOf <- OneSeed
    Disciplined = FALSE
    MaxCalls = 4
    MaxRestarts = 0


CHECK_DEADLOCK FALSE
PROPERTY CallsReturn
