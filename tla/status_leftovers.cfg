CONSTANTS
    Errors <- OfEachClass
    Stalls = {}
    Limit = 2
    Prompt = TRUE
    MaxTicks = 1
    MaxFailures = 1
SPECIFICATION Spec
PROPERTY FixedIsValid
\* in its place: PROPERTY AlwaysQuiet
