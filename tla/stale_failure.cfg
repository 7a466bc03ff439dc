CONSTANTS
    Keys = {k1}
    Specs <- OneSpec
    Errors = {"QueryError"}
    ExpireAfter = 2
    MaxTick = 2
    MaxUid = 1
    Peering = FALSE
    EarlyRecreate = FALSE
SPECIFICATION Spec
PROPERTY StaleRunsKeepHealth
CHECK_DEADLOCK FALSE
