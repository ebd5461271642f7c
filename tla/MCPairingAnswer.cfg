SPECIFICATION Spec
CONSTANTS
    None = None
    Phones = {a}
    MaxAttempts = 2
    MaxTokens = 1
    Window = 2
PROPERTY PairedCanAnswer
CHECK_DEADLOCK FALSE
