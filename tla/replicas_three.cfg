CONSTANTS
    Replicas <- Three
    Prio <- Ranked
    Queries = {q1, q2}
    Peering = TRUE
    SlowStops = FALSE
    MaxEdits = 1
    MaxFailures = 2
SPECIFICATION Spec
INVARIANTS TypeOK PausedSilent ActiveExports
CHECK_DEADLOCK FALSE
