SPECIFICATION FairSpec
CONSTANTS
    Workers = {w1}
    Clis = {}
    Attempts = 2
    PageSize = 2
    MaxPages = 2
    Limit <- MCLimit
    PushLimit = 1
    JobLimit = 2
    CliLimit = 0
    FailLimit = 1
    DeathLimit = 1
    ResendLimit = 0
    PostLimit = 3
    DeleteLimit = 0
CHECK_DEADLOCK FALSE
INVARIANTS OneComment OneRunOfFindings
PROPERTIES KeepsPromise PushIsShown
