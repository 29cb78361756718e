CONSTANTS
    NApps = 1
    NDBs = 1
    MaxPort = 1
    MaxLaunches = 3
    MaxDeploys = 1
    MaxFaults = 2
SPECIFICATION Spec
INVARIANTS
    TypeOK
    OncePerPort
    HandOffBacked
    WipeLeavesNothingIfQuiet
    OneLostPerFault
PROPERTIES
    TakeoverAfterCommit
    AllOrNothing
\* The operator may stop launching.
CHECK_DEADLOCK FALSE
