CONSTANTS
    Replicas <- Two
    Prio <- Ranked
    Queries = {q1, q2}
    Peering = TRUE
    SlowStops = FALSE
    MaxEdits = 2
    MaxFailures = 2
SPECIFICATION Spec
CHECK_DEADLOCK FALSE
INVARIANT OwnTermOnly
\* in its place: INVARIANT NoGhosts
\* in its place: PROPERTY SoonOne
