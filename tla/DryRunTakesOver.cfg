CONSTANTS
    NApps = 1
    NDBs = 1
    MaxPort = 1
    MaxLaunches = 2
    MaxDeploys = 0
    MaxFaults = 0
SPECIFICATION Spec
PROPERTY
    DryRunTakesNothingOver
CHECK_DEADLOCK FALSE
