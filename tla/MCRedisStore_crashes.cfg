SPECIFICATION Spec
CONSTANTS
    a = a
    b = b
    c = c
    r1 = r1
    Names <- TwoNames
    Files <- TwoNames
    Readers <- NoReader
    Commands <- EditFlush
    Batch = 9
    MaxVersion = 3
    MaxTemp = 0
    MaxCrashes = 2
PROPERTIES EveryCrashKeepsAcked
CHECK_DEADLOCK FALSE
