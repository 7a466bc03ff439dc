CONSTANTS
    h1 = h1
    h2 = h2
    h3 = h3
    Hosts <- TwoHosts
    Seeds <- OneHost
    Memberships <- Growing
    Queries = {t}
    MaxFailovers = 2
    Passive = FALSE
    Faults = TRUE
    Outages = {}
    NoHost = NoHost
SPECIFICATION FairSpec
PROPERTIES PoolConverges QueriesEnd
