SPECIFICATION Spec
CONSTANTS
    a = a
    b = b
    f1 = f1
    f2 = f2
    h1 = h1
    NoOne = NoOne
    Names <- TwoNames
    Files <- TwoNames
    Flushers <- OneFlusher
    Hosts <- OneHost
    Commands <- Edits
    PostgreSQL = TRUE
    CanFail = TRUE
    CanExpire = TRUE
    MaxCrashes = 2
    Batch = 1
    MaxVersion = 3
    MaxTemp = 0
INVARIANTS CleanIsDurable
PROPERTIES NoRegress
CHECK_DEADLOCK FALSE
