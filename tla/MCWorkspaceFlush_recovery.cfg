SPECIFICATION RetrySpec
CONSTANTS
    a = a
    b = b
    f1 = f1
    f2 = f2
    h1 = h1
    NoOne = NoOne
    Names <- OneName
    Files <- NoFile
    Flushers <- OneFlusher
    Hosts <- NoHost
    Commands <- CreateEdit
    PostgreSQL = TRUE
    CanFail = FALSE
    CanExpire = FALSE
    MaxCrashes = 1
    Batch = 2
    MaxVersion = 2
    MaxTemp = 1
PROPERTIES EventuallyDurable
CHECK_DEADLOCK FALSE
