\* Three Configures and two Cleanups over two uuids, any of which may fail.
SPECIFICATION Spec
CONSTANTS
    r1 = r1
    r2 = r2
    r3 = r3
    d1 = d1
    d2 = d2
    NoEntity = NoEntity
    NoVM = NoVM
    Request = {r1, r2, r3}
    Remover = {d1, d2}
    UUID = {"u1", "u2"}
    UUIDOf <- MCUUIDOf
INVARIANTS
    LoginReachesItsVM
    NothingLeftBehind
PROPERTIES
    ImplementsAccount
CHECK_DEADLOCK FALSE
