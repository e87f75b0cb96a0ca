SPECIFICATION Spec
CONSTANTS
    a = a
    b = b
    f1 = f1
    f2 = f2
    h1 = h1
    NoOne = NoOne
    Names <- TwoNames
    Files <- OneName
    Flushers <- OneFlusher
    Hosts <- NoHost
    Commands <- Moves
    PostgreSQL = FALSE
    CanFail = FALSE
    CanExpire = FALSE
    MaxCrashes = 0
    Batch = 2
    MaxVersion = 2
    MaxTemp = 2
INVARIANTS TreeSound
CHECK_DEADLOCK FALSE
