SPECIFICATION LiveSpec
CONSTANTS
    p1 = p1
    p2 = p2
    f1 = f1
    f2 = f2
    Processes <- TwoProcesses
    Files <- TwoFiles
    Sizes <- OneOrTwo
    MaxBytes = 1
    MaxFiles = 2
    FlushBatch = 1
    MaxWrites = 2
    MaxErrors = 1
INVARIANTS NoSilentLoss CleanIsCommitted
PROPERTIES NoBlindOverwrite EventuallyFlushed
CHECK_DEADLOCK FALSE
