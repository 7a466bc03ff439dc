CONSTANTS
    Timers <- OneTimer
    MaxVersion = 2
    MaxFaults = 1
    EarlyEdits = TRUE
    Recreates = FALSE
    Exits = FALSE
CHECK_DEADLOCK FALSE
SPECIFICATION Spec
INVARIANT CredentialsMatch
\* in its place: INVARIANT GoneIsGone
\* in its place: INVARIANT NothingReopened
\* in its place: PROPERTY SpecTakesEffect
