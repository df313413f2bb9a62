SPECIFICATION TabSpec
CONSTANTS
    CardsOf <- MCCardsOf
    MaxPushes = 1
    MaxLoads = 2
    MaxPosts = 1
    Fingerprints = {"a", "b", "c"}
    Cached = {"a", "c"}
    Decks <- MCDecks
    MaxPrompts = 1
    Limit = 2
    MaxRenders = 2
    Accounts <- MCAccounts
    Memberships <- MCMemberships
    Login <- MCLogin
    MaxOpens = 3
    MaxReloads = 2
    Pulls = {1, 2, 3, 4}
    OpenAtFirst = 3
    PageSize = 2
    MaxPages = 2
    MaxChanges = 3
    MaxSyncs = 2
CHECK_DEADLOCK FALSE
INVARIANT DoneMeansReviewed
