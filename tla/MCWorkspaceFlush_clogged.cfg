SPECIFICATION LiveSpec
CONSTANTS
    a = a
    b = b
    f1 = f1
    f2 = f2
    h1 = h1
    NoOne = NoOne
    Names <- TwoNames
    Files <- NoFile
    Flushers <- OneFlusher
    Hosts <- NoHost
    Commands <- CreateOnly
    PostgreSQL = TRUE
    CanFail = FALSE
    CanExpire = FALSE
    MaxCrashes = 0
    Batch = 1
    MaxVersion = 1
    MaxTemp = 2
PROPERTIES EventuallyDurable
CHECK_DEADLOCK FALSE
