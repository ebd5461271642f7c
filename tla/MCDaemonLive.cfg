SPECIFICATION FairSpec
CONSTANTS
    None = None
    p1 = p1
    f1 = f1
    k1 = k1
    k2 = k2
    c1 = c1
    c2 = c2
    Tasks = {p1, f1}
    Op <- OpAssert
    Conns = {c1, c2}
    Keys = {k1}
    Times <- OneTime
    BufCap = 1
    MaxRestarts = 0
PROPERTIES EveryRequestAnswered EveryPhoneAdopted ImplementsAuthorization
CHECK_DEADLOCK FALSE
