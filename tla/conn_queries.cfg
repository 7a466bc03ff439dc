CONSTANTS
    h1 = h1
    h2 = h2
    h3 = h3
    Hosts <- ThreeHosts
    Seeds <- OneHost
    Memberships <- Moving
    Queries = {t}
    MaxFailovers = 1
    Passive = FALSE
    Faults = TRUE
    Outages <- OtherHost
    NoHost = NoHost
SPECIFICATION Spec
INVARIANT TypeOK
PROPERTIES FailoverExact FanOutTruthful
