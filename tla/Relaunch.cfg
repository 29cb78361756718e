CONSTANTS
    NApps = 1
    NDBs = 1
    MaxPort = 1
    MaxLaunches = 2
    MaxDeploys = 0
    MaxFaults = 1
SPECIFICATION Spec
INVARIANT
    WipedMeansTakenOver
CHECK_DEADLOCK FALSE
