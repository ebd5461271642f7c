SPECIFICATION ServiceSpec
CONSTANTS
    None = None
    Requests <- Two
    AnswerKind <- Kinds
    MaxStops = 1
INVARIANTS ServiceTypeOK SlotHasExpiry ApprovedWasTouched SignedOnce NoticeIsPending
PROPERTIES PromptGoesAway NoticeGoesAway
CHECK_DEADLOCK FALSE
