SPECIFICATION Spec
CONSTANTS
    a = a
    b = b
    f1 = f1
    f2 = f2
    h1 = h1
    NoOne = NoOne
    Names <- OneName
    Files <- OneName
    Flushers <- OneFlusher
    Hosts <- NoHost
    Commands <- RemoveOnly
    PostgreSQL = TRUE
    CanFail = FALSE
    CanExpire = FALSE
    MaxCrashes = 0
    Batch = 2
    MaxVersion = 1
    MaxTemp = 0
INVARIANTS RowsAreLive
CHECK_DEADLOCK FALSE
