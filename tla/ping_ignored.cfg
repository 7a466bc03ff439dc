CONSTANTS
    Callers = {q1}
    Keeper = keeper
    Sessions <- EnoughSessions
    Nobody = Nobody
    PingRaises = FALSE
    Shuts = FALSE
SPECIFICATION FairSpec
PROPERTY DeadWhenDown
