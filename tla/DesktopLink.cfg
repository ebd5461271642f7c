SPECIFICATION FairSpec
CONSTANTS
    None = None
    Answers = {a1, a2, a3}
    Tracked = {a1, a2, a3}
    Conns = {c1, c2, c3}
    MaxBreaks = 1
    MaxStops = 1
INVARIANTS TypeOK OwedIsHeldOnce
 
CHECK_DEADLOCK FALSE
