SPECIFICATION LiveSpec
CONSTANTS
    w1 = w1
    c1 = c1
    h1 = h1
    k1 = k1
    NoOne = NoOne
    Workspaces <- OneWorkspace
    Clients <- OneClient
    Flushers <- OneFlusher
    Workers <- OneWorker
    Batch = 2
    MaxFailures = 2
    MaxCalls = 1
    MaxEntries = 2
INVARIANTS TypeOK NoLostWakeup FlagTruth DirtySetTruth
PROPERTIES EventuallyFlushed
CHECK_DEADLOCK FALSE
