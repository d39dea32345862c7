\* One create and two calls with every failure, each call driven on by its goroutine.
SPECIFICATION FairSpec
CONSTANTS
    r1 = r1
    r2 = r2
    o1 = o1
    o2 = o2
    NoCore = NoCore
    NoVM = NoVM
    Request = {r1}
    Call = {o1, o2}
    UUID = {"u1"}
    NumCores = 2
    AliveCores = {1, 2}
    UUIDOf <- FreshUUIDOf
    Demand <- MCDemand
    StartFree <- MCStartFree
    W = 8
    Kinds <- AllKinds
    LostAnswers = TRUE
    BestEffortFails = TRUE
INVARIANTS
    LoginHasPassword
PROPERTIES
    RowOutlivesDomain
    BookingSettles
    CallsAreAnswered
CHECK_DEADLOCK FALSE
