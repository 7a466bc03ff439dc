CONSTANTS
    h1 = h1
    h2 = h2
    h3 = h3
    Hosts <- TwoHosts
    Seeds <- TwoHosts
    Memberships <- Static
    Queries = {t}
    MaxFailovers = 2
    Passive = FALSE
    Faults = TRUE
    Outages = {}
    NoHost = NoHost
SPECIFICATION Spec
INVARIANT NodeErrorsContained
\* in its place: PROPERTY WholeCluster
\* in its place: PROPERTY NoSpuriousNoLive
