CONSTANTS
    Replicas <- Two
    Prio <- Ranked
    Queries = {q1, q2}
    Peering = TRUE
    SlowStops = FALSE
    MaxEdits = 2
    MaxFailures = 2
SPECIFICATION Spec
INVARIANTS TypeOK PausedSilent ActiveExports
PROPERTY EventuallyOne
CHECK_DEADLOCK FALSE
