\* Every start with the configurations of MCStartup.
SPECIFICATION FairSpec
CONSTANTS
    A = A
    B = B
    C = C
    D = D
    bad = bad
    Address = {A, B, C, D}
    Malformed = bad
    Configs <- MCConfigs
    VM = {"v1", "v2"}
    Databases <- MCDatabases
    ReportOf <- MCReportOf
    FullCPU = 9
INVARIANTS
    ServesOnlyReachable
    NoPhantomCapacity
    OnlyGrowthLosesReports
    VMsFoundAgain
PROPERTIES
    StartEnds
CHECK_DEADLOCK FALSE
