SPECIFICATION Spec
CONSTANTS
    Workers = {w1}
    Clis = {c1}
    Attempts = 1
    PageSize = 2
    MaxPages = 2
    Limit <- MCLimit
    PushLimit = 0
    JobLimit = 1
    CliLimit = 1
    FailLimit = 0
    DeathLimit = 0
    ResendLimit = 0
    PostLimit = 0
    DeleteLimit = 0
CHECK_DEADLOCK FALSE
INVARIANT OneComment
