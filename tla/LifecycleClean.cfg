\* Two creates and two calls; no answer is lost and no cleanup fails.
SPECIFICATION Spec
CONSTANTS
    r1 = r1
    r2 = r2
    o1 = o1
    o2 = o2
    NoCore = NoCore
    NoVM = NoVM
    Request = {r1, r2}
    Call = {o1, o2}
    UUID = {"u1", "u2"}
    NumCores = 2
    AliveCores = {1, 2}
    UUIDOf <- FreshUUIDOf
    Demand <- MCDemand
    StartFree <- MCStartFree
    W = 8
    Kinds <- AllKinds
    LostAnswers = FALSE
    BestEffortFails = FALSE
SYMMETRY CallSymmetry
INVARIANTS
    FailedCreateIsUndone
    RowIsBooked
    ManagerReady
PROPERTIES
    ImplementsService
CHECK_DEADLOCK FALSE
