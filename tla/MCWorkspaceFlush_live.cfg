SPECIFICATION LiveSpec
CONSTANTS
    a = a
    b = b
    f1 = f1
    f2 = f2
    h1 = h1
    NoOne = NoOne
    Names <- TwoNames
    Files <- TwoNames
    Flushers <- OneFlusher
    Hosts <- NoHost
    Commands <- Edits
    PostgreSQL = TRUE
    CanFail = TRUE
    CanExpire = FALSE
    MaxCrashes = 0
    Batch = 2
    MaxVersion = 3
    MaxTemp = 0
PROPERTIES EventuallyDurable
CHECK_DEADLOCK FALSE
