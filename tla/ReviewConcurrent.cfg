SPECIFICATION Spec
CONSTANTS
    Workers = {w1}
    Clis = {c1}
    Attempts = 1
    PageSize = 1
    MaxPages = 2
    Limit <- MCLimit
    PushLimit = 1
    JobLimit = 1
    CliLimit = 1
    FailLimit = 0
    DeathLimit = 0
    ResendLimit = 1
    PostLimit = 2
    DeleteLimit = 1
CHECK_DEADLOCK FALSE
INVARIANTS TypeOK DeckIsNotStale
