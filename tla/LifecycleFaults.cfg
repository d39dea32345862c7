\* Two creates, one other call and one restart, every failure possible.
SPECIFICATION RestartSpec
CONSTANTS
    r1 = r1
    r2 = r2
    o1 = o1
    NoCore = NoCore
    NoVM = NoVM
    Request = {r1, r2}
    Call = {o1}
    UUID = {"u1", "u2"}
    NumCores = 2
    AliveCores = {1, 2}
    UUIDOf <- FreshUUIDOf
    Demand <- MCDemand
    StartFree <- MCStartFree
    W = 8
    Kinds <- AllKinds
    MaxRestarts = 1
    FreeReports <- MCFreeReports
    LostAnswers = TRUE
    BestEffortFails = TRUE
INVARIANTS
    CreatedIsWhole
    FoundWhereItIs
    RowHasDomain
PROPERTIES
    InitialStatusComesFirst
CHECK_DEADLOCK FALSE
