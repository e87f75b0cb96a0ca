SPECIFICATION Spec
CONSTANTS
    a = a
    b = b
    f1 = f1
    f2 = f2
    h1 = h1
    NoOne = NoOne
    Names <- OneName
    Files <- OneName
    Flushers <- TwoFlushers
    Hosts <- NoHost
    Commands <- Edits
    PostgreSQL = TRUE
    CanFail = FALSE
    CanExpire = TRUE
    MaxCrashes = 0
    Batch = 2
    MaxVersion = 3
    MaxTemp = 0
INVARIANTS CleanIsDurable
CHECK_DEADLOCK FALSE
