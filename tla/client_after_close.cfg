CONSTANTS
    Callers = {q1}
    Keeper = keeper
    Sessions <- EnoughSessions
    Nobody = Nobody
    PingRaises = TRUE
    Shuts = TRUE
SPECIFICATION Spec
INVARIANT NothingOpenAfterClose
