SPECIFICATION Spec
CONSTANTS
    a1 = a1
    a2 = a2
    d1 = d1
    k = k
    w1 = w1
    w2 = w2
    s1 = s1
    s2 = s2
    p = p
    None = None
    MaxPort = 2
    Apps <- MCApps
    DBs <- MCDBs
    Workloads <- MCWorkloads
    Sources <- MCSources
    Tokens <- MCTokens
    Prefix <- MCPrefix
    Inputs <- MCInputs
INVARIANT ForwardKept
CHECK_DEADLOCK FALSE
