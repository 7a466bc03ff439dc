CONSTANTS
    Errors <- OneError
    Stalls = {"wait", "skip"}
    Limit = 2
    Prompt = TRUE
    MaxTicks = 1
    MaxFailures = 2
SPECIFICATION Spec
INVARIANTS TypeOK Coherent
PROPERTIES StatusFollows ErrorAgesOut ValidIsQuiet
