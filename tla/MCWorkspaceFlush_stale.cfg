SPECIFICATION Spec
CONSTANTS
    a = a
    b = b
    f1 = f1
    f2 = f2
    h1 = h1
    NoOne = NoOne
    Names <- OneName
    Files <- NoFile
    Flushers <- OneFlusher
    Hosts <- OneHost
    Commands <- CreateOnly
    PostgreSQL = TRUE
    CanFail = FALSE
    CanExpire = FALSE
    MaxCrashes = 0
    Batch = 2
    MaxVersion = 3
    MaxTemp = 1
INVARIANTS TreeSound
CHECK_DEADLOCK FALSE
