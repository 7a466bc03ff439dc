CONSTANTS
    Callers = {q1, q2}
    Keeper = keeper
    Sessions <- EnoughSessions
    Nobody = Nobody
    PingRaises = TRUE
    Shuts = FALSE
SPECIFICATION FairSpec
INVARIANT NoneLeakedByEviction
\* in its place: PROPERTY NoFlapping
