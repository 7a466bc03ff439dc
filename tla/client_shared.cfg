CONSTANTS
    Callers = {q1, q2}
    Keeper = keeper
    Sessions <- EnoughSessions
    Nobody = Nobody
    PingRaises = TRUE
    Shuts = TRUE
SPECIFICATION FairSpec
INVARIANTS TypeOK OneConnect NoClientLeaked
PROPERTIES AliveAgain DeadWhenDown OperationsEnd
