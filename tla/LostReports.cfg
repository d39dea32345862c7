\* A report is stored in an array that the slice has left.
SPECIFICATION Spec
CONSTANTS
    A = A
    B = B
    C = C
    D = D
    bad = bad
    Address = {A, B, C, D}
    Malformed = bad
    Configs <- MCConfigs
    VM = {"v1", "v2"}
    Databases <- MCDatabases
    ReportOf <- MCReportOf
    FullCPU = 9
INVARIANTS
    EveryCoreIsUpdated
CHECK_DEADLOCK FALSE
