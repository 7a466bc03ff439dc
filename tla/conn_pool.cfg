CONSTANTS
    h1 = h1
    h2 = h2
    h3 = h3
    Hosts <- ThreeHosts
    Seeds <- OneHost
    Memberships <- Moving
    Queries = {}
    MaxFailovers = 2
    Passive = FALSE
    Faults = TRUE
    Outages <- ThreeHosts
    NoHost = NoHost
SPECIFICATION FairSpec
PROPERTY PoolConverges
