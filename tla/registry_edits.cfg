CONSTANTS
    Timers <- BothTimers
    MaxVersion = 2
    MaxFaults = 1
    EarlyEdits = FALSE
    Recreates = FALSE
    Exits = TRUE
SPECIFICATION Spec
INVARIANTS TypeOK AllTracked NoPassAfterClose
PROPERTIES SpecTakesEffect StatusCatchesUp ImplementsView
