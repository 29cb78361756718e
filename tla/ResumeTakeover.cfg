CONSTANTS
    NApps = 1
    NDBs = 1
    w1 = w1
    w2 = w2
    w3 = w3
    Workloads = {w1, w2}
    None = None
    Plans <- ResumePlans
    MaxFaults = 1
SPECIFICATION FairSpec
PROPERTIES
    Resumes
