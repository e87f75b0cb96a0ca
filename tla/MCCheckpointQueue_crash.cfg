SPECIFICATION CrashSpec
CONSTANTS
    w1 = w1
    c1 = c1
    h1 = h1
    k1 = k1
    NoOne = NoOne
    Workspaces <- OneWorkspace
    Clients <- OneClient
    Flushers <- NoFlusher
    Workers <- OneWorker
    Batch = 1
    MaxFailures = 1
    MaxCalls = 1
    MaxEntries = 1
INVARIANTS FlagTruth
CHECK_DEADLOCK FALSE
