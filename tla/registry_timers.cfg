CONSTANTS
    Timers <- BothTimers
    MaxVersion = 3
    MaxFaults = 1
    EarlyEdits = FALSE
    Recreates = TRUE
    Exits = TRUE
SPECIFICATION Spec
INVARIANTS TypeOK AllTracked NoPassAfterClose
