SPECIFICATION Spec
CONSTANTS
    None = None
    Phones = {a, b}
    MaxAttempts = 2
    MaxTokens = 2
    Window = 3
SYMMETRY Symmetry
INVARIANTS TypeOK TokenAdmitsOnce BelievedIsRecorded RevokedNeverAdmits 
CHECK_DEADLOCK FALSE
