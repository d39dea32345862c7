\* Two creates, three updates and a delete of one uuid, over three seconds.
SPECIFICATION Spec
CONSTANTS
    c1 = c1
    c2 = c2
    p1 = p1
    p2 = p2
    p3 = p3
    d1 = d1
    Create = {c1, c2}
    Update = {p1, p2, p3}
    Remove = {d1}
    MaxTime = 2
INVARIANTS
    TypeOK
    RecordIsOfLastVM
PROPERTIES
    OnlyOverlapTurnsTimeBack
SYMMETRY CallSymmetry
CHECK_DEADLOCK FALSE
