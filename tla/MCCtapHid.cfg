SPECIFICATION FairSpec
CONSTANTS
    None = None
    a = a
    b = b
    Apps = {a, b}
    Commands = {"ping", "assert"}
    Lengths = {2, 7}
    Size = 9
    MaxChannel = 15
    MaxMessages <- Messages
    MaxEvents = 2
    MaxRestarts = 1
INVARIANTS TypeOK ChannelsDiffer AnswersAreOwn
PROPERTY SingleIsAnswered
CHECK_DEADLOCK FALSE
