CONSTANTS
    NApps = 0
    NDBs = 1
    w1 = w1
    w2 = w2
    w3 = w3
    Workloads = {w1}
    None = None
    Plans <- DatabasePlans
    MaxFaults = 2
SPECIFICATION FairSpec
INVARIANT DataNeverLost
