CONSTANTS
    h1 = h1
    h2 = h2
    h3 = h3
    Hosts <- ThreeHosts
    Seeds <- TwoHosts
    Memberships <- Drifted
    Queries = {}
    MaxFailovers = 2
    Passive = FALSE
    Faults = FALSE
    Outages = {}
    NoHost = NoHost
SPECIFICATION Spec
PROPERTY MembersStay
