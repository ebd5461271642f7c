SPECIFICATION MCSpec
CONSTANTS
    None = None
    Torn = Torn
    x = x
    y = y
    x1 = x1
    x2 = x2
    y1 = y1
    y2 = y2
    b1 = b1
    b2 = b2
    Beacons = {b1, b2}
    Instances = 1
    Ids = {x, y}
    Saves = {x1, x2, y1, y2}
    Of <- OfDef
    Imports = {x2, y2}
    MaxCuts = 2
INVARIANTS TypeOK SavedSurvives RemovedIsGone BeaconTypeOK StoppedIsOffAir
PROPERTY NothingLeftOnAir
CHECK_DEADLOCK FALSE
