SPECIFICATION Spec
CONSTANTS
    a = a
    b = b
    c = c
    r1 = r1
    Names <- TwoNames
    Files <- OneName
    Readers <- OneReader
    Commands <- Growing
    Batch = 9
    MaxVersion = 2
    MaxTemp = 1
    MaxCrashes = 1
INVARIANTS ReadYourWrites FlushedIsRead DirtyIsExact
PROPERTIES CrashKeepsAcked
CHECK_DEADLOCK FALSE
