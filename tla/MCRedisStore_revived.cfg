SPECIFICATION Spec
CONSTANTS
    a = a
    b = b
    c = c
    r1 = r1
    Names <- TwoNames
    Files <- TwoNames
    Readers <- NoReader
    Commands <- EditRemove
    Batch = 9
    MaxVersion = 2
    MaxTemp = 0
    MaxCrashes = 0
INVARIANTS ReadYourWrites
CHECK_DEADLOCK FALSE
