SPECIFICATION Spec
CONSTANTS
    None = None
    p1 = p1
    p2 = p2
    f1 = f1
    Tasks = {p1, p2}
    Op <- OpVerify
    Conns = {c1, c2}
    PhoneKey = k1
    BufCap = 2
    MaxRestarts = 1
    MaxBreaks = 0
PROPERTY ImplementsAuthorization
SYMMETRY Symmetry
CHECK_DEADLOCK FALSE
