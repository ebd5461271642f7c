SPECIFICATION FairSpec
CONSTANTS
    None = None
    pam = pam
    probe = probe
    Calls = {pam, probe}
    Untimed = {probe}
    Limit <- LimitDef
    VerifyTimeout = 2
    RequestTTL = 2
    MaxLag = 2
    MaxSignals = 1
INVARIANTS TypeOK GrantIsHeard PromptMirrorsRequest
PROPERTY EveryTimedCallReturns
CHECK_DEADLOCK FALSE
