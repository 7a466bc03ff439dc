CONSTANTS
    Timers <- OneTimer
    MaxVersion = 2
    MaxFaults = 0
    EarlyEdits = FALSE
    Recreates = TRUE
    Exits = FALSE
CHECK_DEADLOCK FALSE
SPECIFICATION Spec
PROPERTY SpecTakesEffect
