SPECIFICATION LiveSpec
CONSTANTS
    a = a
    b = b
    f1 = f1
    f2 = f2
    h1 = h1
    NoOne = NoOne
    Names <- OneName
    Files <- NoFile
    Flushers <- OneFlusher
    Hosts <- NoHost
    Commands <- CreateCd
    PostgreSQL = TRUE
    CanFail = FALSE
    CanExpire = FALSE
    MaxCrashes = 0
    Batch = 2
    MaxVersion = 1
    MaxTemp = 1
PROPERTIES EventuallyDurable
CHECK_DEADLOCK FALSE
