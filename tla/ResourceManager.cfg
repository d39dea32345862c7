\* Three creates with uuids of their own on two cores.
SPECIFICATION Spec
CONSTANTS
    r1 = r1
    r2 = r2
    r3 = r3
    NoCore = NoCore
    NoVM = NoVM
    Request <- MCRequest
    UUID <- FreshUUID
    NumCores = 2
    AliveCores = {1, 2}
    UUIDOf <- FreshUUIDOf
    Demand <- MCDemand
    StartFree <- MCStartFree
    W = 8
INVARIANTS
    TypeOK
    AccountingModWord
    OvercommitNeedsStaleSelection
    SelectionStaysGood
    IndexMatchesBookings
    AliveIsLocated
PROPERTY LocationIsStable
CHECK_DEADLOCK FALSE
