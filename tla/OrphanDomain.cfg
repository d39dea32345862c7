\* A create whose row cannot be inserted.
SPECIFICATION Spec
CONSTANTS
    r1 = r1
    r2 = r2
    o1 = o1
    o2 = o2
    NoCore = NoCore
    NoVM = NoVM
    Request = {r1}
    Call = {}
    UUID = {"u1"}
    NumCores = 2
    AliveCores = {1, 2}
    UUIDOf <- FreshUUIDOf
    Demand <- MCDemand
    StartFree <- MCStartFree
    W = 8
    Kinds <- AllKinds
    LostAnswers = FALSE
    BestEffortFails = FALSE
INVARIANTS
    FailedCreateLeavesNoDomain
CHECK_DEADLOCK FALSE
