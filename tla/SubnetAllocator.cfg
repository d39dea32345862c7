\* Three creates, with every fault and two restarts.
SPECIFICATION Spec
CONSTANTS
    r1 = r1
    r2 = r2
    r3 = r3
    Err = Err
    Request = {r1, r2, r3}
    Top = 1
    StartSubnet <- NearlyOut
    MaxRestarts = 2
SYMMETRY RequestSymmetry
INVARIANTS
    TypeOK
    NoOverlapNoDuplicate
    CounterCoversHolders
    CountersAgree
    ExhaustionIsUndone
CHECK_DEADLOCK FALSE
