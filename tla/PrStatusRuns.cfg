SPECIFICATION FairSpec
CONSTANTS
    N = 2
    FirstReadable = 2
    PRs <- MCPRs
    InstallationOf <- MCInstallationOf
    Readable <- MCReadable
    Workers = {w1}
    Batch = 1
    Attempts = 2
    MaxEvents = 2
    MaxSends = 2
    MaxDeaths = 1
    MaxReviews = 1
INVARIANTS TypeOK ArchivedIsTruthful
PROPERTIES OnlyReopenRevives OfflineEndIsNoticed
