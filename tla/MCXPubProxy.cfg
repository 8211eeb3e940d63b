SPECIFICATION SmallSpec
CONSTANTS
    c1 = c1
    c2 = c2
    Clients = {c1, c2}
    Early = {c1}
    Filters <- MCFilters
    Subjects <- MCSubjects
    PrefixesOf <- MCPrefixesOf
    MaxLosses = 2
    MaxConns = 3
    MaxOps = 2
    MaxPubs = 1
INVARIANTS
    UpstreamCovers
    XPubServesSubscribers
PROPERTIES
    SubscriptionArrives
CHECK_DEADLOCK FALSE
