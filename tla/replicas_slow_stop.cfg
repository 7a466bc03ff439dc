CONSTANTS
    Replicas <- Two
    Prio <- Ranked
    Queries = {q1, q2}
    Peering = TRUE
    SlowStops = TRUE
    MaxEdits = 0
    MaxFailures = 2
SPECIFICATION Spec
INVARIANT ActiveExports
CHECK_DEADLOCK FALSE
