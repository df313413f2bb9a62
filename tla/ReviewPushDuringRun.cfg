SPECIFICATION Spec
CONSTANTS
    Workers = {w1}
    Clis = {}
    Attempts = 1
    PageSize = 2
    MaxPages = 2
    Limit <- MCLimit
    PushLimit = 1
    JobLimit = 2
    CliLimit = 0
    FailLimit = 0
    DeathLimit = 0
    ResendLimit = 0
    PostLimit = 0
    DeleteLimit = 0
CHECK_DEADLOCK FALSE
INVARIANT DeckOfItsHead
