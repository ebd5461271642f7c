SPECIFICATION ServiceSpec
CONSTANTS
    None = None
    Requests <- Two
    AnswerKind <- Kinds
    MaxStops = 0
PROPERTY OnlyOwnerClears
CHECK_DEADLOCK FALSE
