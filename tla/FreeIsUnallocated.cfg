\* The meaning structure/vm.go:37-39 gives to Free*, against concurrent creates.
SPECIFICATION Spec
CONSTANTS
    r1 = r1
    r2 = r2
    r3 = r3
    NoCore = NoCore
    NoVM = NoVM
    Request <- MCRequest
    UUID <- FreshUUID
    NumCores = 2
    AliveCores = {1, 2}
    UUIDOf <- FreshUUIDOf
    Demand <- MCDemand
    StartFree <- MCStartFree
    W = 8
INVARIANT FreeIsUnallocated
CHECK_DEADLOCK FALSE
