CONSTANTS
    NApps = 1
    NDBs = 3
    w1 = w1
    w2 = w2
    w3 = w3
    Workloads = {w1, w2, w3}
    None = None
    Plans <- MCPlans
    MaxFaults = 3
SPECIFICATION FairSpec
INVARIANTS
    TypeOK
    DataKept
    QuietSource
    OneUser
    WipedOnlyWhenComplete
    FaultlessFinish
PROPERTIES
    LiveKept
    KeepsCustody
    KeepsSuccession
    RunReturns
    CleanRestart
