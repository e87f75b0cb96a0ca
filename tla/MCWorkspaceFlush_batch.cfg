SPECIFICATION Spec
CONSTANTS
    a = a
    b = b
    f1 = f1
    f2 = f2
    h1 = h1
    NoOne = NoOne
    Names <- TwoNames
    Files <- TwoNames
    Flushers <- OneFlusher
    Hosts <- NoHost
    Commands <- Edits
    PostgreSQL = TRUE
    CanFail = FALSE
    CanExpire = FALSE
    MaxCrashes = 0
    Batch = 1
    MaxVersion = 2
    MaxTemp = 0
PROPERTIES FlushIsDurable
CHECK_DEADLOCK FALSE
