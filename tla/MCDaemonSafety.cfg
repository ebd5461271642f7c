SPECIFICATION Spec
CONSTANTS
    None = None
    p1 = p1
    f1 = f1
    k1 = k1
    k2 = k2
    c1 = c1
    c2 = c2
    Tasks = {p1, f1}
    Op <- OpMakeCred
    Conns = {c1, c2}
    Keys = {k1, k2}
    Times <- OneTime
    BufCap = 1
    MaxRestarts = 1
SYMMETRY Symmetric
INVARIANTS TypeOK WaitersAreExact ApprovedMeansSigned
CHECK_DEADLOCK FALSE
