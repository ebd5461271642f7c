SPECIFICATION Spec
CONSTANTS
    None = None
    p1 = p1
    p2 = p2
    f1 = f1
    Tasks = {p1, f1}
    Op <- OpMakeCred
    Conns = {c1}
    PhoneKey = k1
    BufCap = 2
    MaxRestarts = 0
    MaxBreaks = 1
INVARIANT TypeOK
PROPERTY LateReplyIsDiscarded
CHECK_DEADLOCK FALSE
