CONSTANTS
    Errors <- OfEachClass
    Stalls = {"wait"}
    Limit = 2
    Prompt = FALSE
    MaxTicks = 1
    MaxFailures = 2
SPECIFICATION LaggingSpec
INVARIANT Coherent
