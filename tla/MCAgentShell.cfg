SPECIFICATION LiveSpec
CONSTANTS
    a1 = a1
    a2 = a2
    h1 = h1
    p1 = p1
    q1 = q1
    r1 = r1
    NoOne = NoOne
    Runtimes <- BothRuntimes
    Agents <- TwoAgents
    Hosts <- OneHost
    Paths <- ThreePaths
    Seeded <- OnlyQ
    HostPaths <- OnlyP
    Chains <- ThreeChains
    MaxTracked = 2
    QueueSize = 1
    LogBatch = 2
    MaxCalls = 3
    MaxFaults = 1
INVARIANTS TypeOK UnreadIsAsked
PROPERTIES FinishKeepsWork ModeIsRespected AnsweredIsLogged
CHECK_DEADLOCK FALSE
