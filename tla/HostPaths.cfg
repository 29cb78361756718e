SPECIFICATION Spec
CONSTANTS
    coolify = coolify
    fluentbit = fluentbit
    pgdb = pgdb
    src1 = src1
    src2 = src2
    img1 = img1
    img2 = img2
    alpine = alpine
    infra = infra
    data = data
    app = app
    db = db
    db2 = db2
    bot = bot
    helper = helper
    V3Containers <- MCContainers
    V3Volumes <- MCVolumes
    SourceVolumes <- MCSources
    V3Images <- MCImages
    HostPaths <- MCPaths
    Alpine = alpine
    Network = infra
    PrefixOf <- MCPrefixOf
    Owned <- MCOwned
    Holders <- MCHolders
    Strangers <- MCStrangers
    MaxFaults = 1
    Mgmt <- MCMgmt
    Coolify = coolify
    Workloads <- MCWorkloads
    DataOf <- MCDataOf
    MaxWait = 2
    MaxLaunches = 2
INVARIANT HostPathsLast
CHECK_DEADLOCK FALSE
