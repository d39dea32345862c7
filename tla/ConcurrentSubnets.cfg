\* Two creates at once.
SPECIFICATION Spec
CONSTANTS
    r1 = r1
    r2 = r2
    r3 = r3
    Err = Err
    Request = {r1, r2}
    Top = 1
    StartSubnet <- NearlyOut
    MaxRestarts = 0
SYMMETRY RequestSymmetry
INVARIANTS
    ConcurrentCallsDiffer
CHECK_DEADLOCK FALSE
